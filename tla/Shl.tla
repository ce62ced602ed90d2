--------------------------------- MODULE Shl ---------------------------------
(***************************************************************************)
(* The SHL compiler (internal/shl): from the syntax tree of a program to     *)
(* the code of the contract machine.                                         *)
(*                                                                          *)
(* A node of the tree is a record whose field k names its Go type.  Code is  *)
(* a sequence of cells [op, v]; PUSH is followed by one DATA cell for the    *)
(* eight bytes of its operand.  The generator is the record `g` that the     *)
(* operators take and return; an error of the compiler clears g.ok.          *)
(***************************************************************************)
EXTENDS Integers, Sequences, SequencesExt

CONSTANTS
    localBase, stateBase,   \* where locals and state variables are kept
    Selector(_)             \* the word that selects a function

NewGen == [code |-> <<>>, vars |-> <<>>, next |-> localBase, state |-> <<>>,
           nextState |-> stateBase, labels |-> <<>>, fixups |-> <<>>, ok |-> TRUE]

Put(m, k, v) == [x \in DOMAIN m \cup {k} |-> IF x = k THEN v ELSE m[x]]

\* FoldLeft over the statements.  The set of one element makes TLC evaluate
\* the code so far before it goes on, instead of nesting the evaluations.
Fold(Op(_, _), g, s) ==
    FoldLeft(LAMBDA h, x : CHOOSE r \in {Op(v, x) : v \in {h}} : TRUE, g, s)

-----------------------------------------------------------------------------
(* Emitting *)

emit(g, op) == [g EXCEPT !.code = Append(@, [op |-> op, v |-> 0])]

pushU64(g, v) ==
    [g EXCEPT !.code = @ \o <<[op |-> "PUSH", v |-> 0], [op |-> "DATA", v |-> v]>>]

\* A label is the index of its position in g.labels.
newLabel(g) == [g EXCEPT !.labels = Append(@, -1)]

mark(g, l) == [g EXCEPT !.labels[l] = Len(g.code)]

pushLabel(g, l) ==
    [pushU64(g, 0) EXCEPT
        !.fixups = Append(@, [pos |-> Len(g.code) + 2, label |-> l])]

resolve(g) ==
    [i \in 1..Len(g.code) |->
        LET f == {x \in ToSet(g.fixups) : x.pos = i}
        IN  IF f = {} THEN g.code[i]
            ELSE [op |-> "DATA", v |-> g.labels[(CHOOSE x \in f : TRUE).label]]]

\* The slot of a local, allocated on first use.
slot(g, name) ==
    IF name \in DOMAIN g.vars THEN g
    ELSE [g EXCEPT !.vars = Put(@, name, g.next), !.next = @ + 1]

declState(g, name) ==
    IF name \in DOMAIN g.state THEN g
    ELSE [g EXCEPT !.state = Put(@, name, g.nextState), !.nextState = @ + 1]

binop(g, op) ==
    CASE op = "+" -> emit(g, "ADDC")
      [] op = "-" -> emit(g, "SUBC")
      [] op = "*" -> emit(g, "MULC")
      [] op = "/" -> emit(g, "DIV")
      [] op = "%" -> emit(g, "MOD")
      [] op = "==" -> emit(g, "EQ")
      [] op = "<" -> emit(g, "LT")
      [] op = ">" -> emit(g, "GT")
      [] op = "&&" -> emit(g, "AND")
      [] op = "||" -> emit(g, "OR")
      [] op = "!=" -> emit(emit(g, "EQ"), "ISZERO")
      [] op = "<=" -> emit(emit(g, "GT"), "ISZERO")
      [] op = ">=" -> emit(emit(g, "LT"), "ISZERO")

builtinOp(name) == CASE name = "caller" -> "CALLER"
                     [] name = "value" -> "VALUE"
                     [] name = "balance" -> "BAL"
                     [] name = "self" -> "SELF"
                     [] name = "arg" -> "CDLOAD"

-----------------------------------------------------------------------------
(* Expressions and statements *)

Fail(g) == [g EXCEPT !.ok = FALSE]

RECURSIVE expr(_, _)

\* A local or parameter hides a state variable of the same name.
expr(g, e) ==
    CASE e.k = "Num" -> pushU64(g, e.v)
      [] e.k = "Var" ->
            IF e.name \in DOMAIN g.vars
            THEN emit(pushU64(g, g.vars[e.name]), "SLOAD")
            ELSE IF e.name \in DOMAIN g.state
                 THEN emit(pushU64(g, g.state[e.name]), "SLOAD")
                 ELSE Fail(g)
      [] e.k = "Index" ->
            IF e.name \notin DOMAIN g.state THEN Fail(g)
            ELSE emit(emit(expr(pushU64(g, g.state[e.name]), e.key), "MIX"), "SLOAD")
      [] e.k = "Load" -> emit(expr(g, e.key), "SLOAD")
      [] e.k = "Builtin" ->
            emit(IF e.name = "arg" THEN expr(g, e.arg) ELSE g, builtinOp(e.name))
      [] e.k = "Unary" -> emit(expr(g, e.x), "ISZERO")
      [] e.k = "Binary" -> binop(expr(expr(g, e.l), e.r), e.op)

RECURSIVE stmt(_, _)

stmts(g, ns) == Fold(stmt, g, ns)

\* An assignment writes the state variable of that name if there is one.
letStmt(g, s) ==
    LET g1 == IF s.name \in DOMAIN g.state THEN g ELSE slot(g, s.name)
        key == IF s.name \in DOMAIN g.state THEN g.state[s.name] ELSE g1.vars[s.name]
    IN  emit(expr(pushU64(g1, key), s.val), "SSTORE")

indexStore(g, s) ==
    IF s.name \notin DOMAIN g.state THEN Fail(g)
    ELSE emit(expr(emit(expr(pushU64(g, g.state[s.name]), s.key), "MIX"), s.val),
              "SSTORE")

requireStmt(g, s) ==
    LET g1 == newLabel(g)
        cont == Len(g1.labels)
    IN  mark(emit(emit(pushLabel(expr(g1, s.cond), cont), "JUMPI"), "REVERT"), cont)

\* Mutant: the condition is not negated before the jump to the else branch.
ifStmtInverted(g, s) ==
    LET g1 == newLabel(newLabel(g))
        elseL == Len(g1.labels) - 1
        endL == Len(g1.labels)
        then == stmts(emit(pushLabel(expr(g1, s.cond), elseL), "JUMPI"), s.then)
        els == stmts(mark(emit(pushLabel(then, endL), "JUMP"), elseL), s.els)
    IN  mark(els, endL)

ifStmt(g, s) ==
    LET g1 == newLabel(newLabel(g))
        elseL == Len(g1.labels) - 1
        endL == Len(g1.labels)
        then == stmts(emit(pushLabel(emit(expr(g1, s.cond), "ISZERO"), elseL), "JUMPI"),
                      s.then)
        els == stmts(mark(emit(pushLabel(then, endL), "JUMP"), elseL), s.els)
    IN  mark(els, endL)

whileStmt(g, s) ==
    LET g1 == newLabel(newLabel(g))
        startL == Len(g1.labels) - 1
        endL == Len(g1.labels)
        test == emit(expr(mark(g1, startL), s.cond), "ISZERO")
        body == stmts(emit(pushLabel(test, endL), "JUMPI"), s.body)
    IN  mark(emit(pushLabel(body, startL), "JUMP"), endL)

emitStmt(g, s) == emit(pushU64(Fold(expr, g, s.args), Len(s.args)), "LOG")

stmt(g, s) ==
    CASE s.k = "Let" -> letStmt(g, s)
      [] s.k = "IndexStore" -> indexStore(g, s)
      [] s.k = "Store" -> emit(expr(expr(g, s.key), s.val), "SSTORE")
      [] s.k = "Require" -> requireStmt(g, s)
      [] s.k = "Revert" -> emit(g, "REVERT")
      [] s.k = "If" -> ifStmt(g, s)
      [] s.k = "While" -> whileStmt(g, s)
      [] s.k = "Emit" -> emitStmt(g, s)
      [] s.k = "Return" -> emit(expr(g, s.val), "RETURN")
      [] s.k = "Stop" -> emit(g, "STOP")

-----------------------------------------------------------------------------
(* Programs *)

\* One comparison of the router; its label is marked at the function's body.
route(g, f) ==
    LET g1 == newLabel(g)
        l == Len(g1.labels)
    IN  emit(pushLabel(emit(pushU64(emit(g1, "DUP"), Selector(f.name)), "EQ"), l),
             "JUMPI")

\* Parameter i is word i of the calldata; word 0 is the selector.
bind(g, params, i) ==
    LET g1 == slot(g, params[i])
    IN  emit(emit(pushU64(pushU64(g1, g1.vars[params[i]]), i), "CDLOAD"), "SSTORE")

\* A function's body, in a scope of its own.
body(g, f, l) ==
    LET g1 == [emit(mark(g, l), "POP") EXCEPT !.vars = <<>>, !.next = localBase]
        g2 == Fold(LAMBDA h, i : bind(h, f.params, i), g1,
                       [i \in 1..Len(f.params) |-> i])
    IN  emit(stmts(g2, f.body), "STOP")

dispatch(g, fns) ==
    LET first == Len(g.labels)
        router == Fold(route, emit(pushU64(g, 0), "CDLOAD"), fns)
    IN  Fold(LAMBDA h, i : body(h, fns[i], first + i),
                 emit(emit(router, "POP"), "REVERT"),
                 [i \in 1..Len(fns) |-> i])

\* State variables first, then the flat statements, then the functions.
Generate(prog) ==
    LET Of(ks) == SelectSeq(prog, LAMBDA n : n.k \in ks)
        flat == SelectSeq(prog, LAMBDA n : n.k \notin {"State", "Fn"})
        declared == Fold(LAMBDA g, n : declState(g, n.name), NewGen, Of({"State"}))
        prelude == stmts(declared, flat)
        fns == Of({"Fn"})
    IN  emit(IF fns = <<>> THEN prelude ELSE dispatch(prelude, fns), "STOP")

Compile(prog) == resolve(Generate(prog))

=============================================================================
