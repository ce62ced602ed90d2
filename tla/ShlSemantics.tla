---------------------------- MODULE ShlSemantics ----------------------------
(***************************************************************************)
(* What an SHL program means, by its syntax tree alone: the reference for    *)
(* the compiler and the machine it compiles to (docs/SHL.md).                *)
(*                                                                          *)
(* A run is a record: mem, the locations written so far; logs; status        *)
(* ("run", "done" or "fault"); ret.  A location is <<"state", name>>,        *)
(* <<"map", name, key>>, <<"raw", key>> or <<"local", name>>; what a         *)
(* location held before the call is Before(loc).  Words are below Word.      *)
(***************************************************************************)
EXTENDS Integers, Sequences, SequencesExt

CONSTANTS Word

LOCAL Truth(b) == IF b THEN 1 ELSE 0

Fault == [ok |-> FALSE, v |-> 0]

Val(v) == [ok |-> TRUE, v |-> v]

\* Arithmetic faults on overflow, underflow and a zero divisor; the logical
\* operators and comparisons give 0 or 1.
Apply(op, a, b) ==
    CASE op = "+" -> IF a + b < Word THEN Val(a + b) ELSE Fault
      [] op = "-" -> IF a >= b THEN Val(a - b) ELSE Fault
      [] op = "*" -> IF a * b < Word THEN Val(a * b) ELSE Fault
      [] op = "/" -> IF b = 0 THEN Fault ELSE Val(a \div b)
      [] op = "%" -> IF b = 0 THEN Fault ELSE Val(a % b)
      [] op = "==" -> Val(Truth(a = b))
      [] op = "!=" -> Val(Truth(a # b))
      [] op = "<" -> Val(Truth(a < b))
      [] op = ">" -> Val(Truth(a > b))
      [] op = "<=" -> Val(Truth(a <= b))
      [] op = ">=" -> Val(Truth(a >= b))
      [] op = "&&" -> Val(Truth(a # 0 /\ b # 0))
      [] op = "||" -> Val(Truth(a # 0 \/ b # 0))

\* env: the call [caller, value, balance, self, input], the state variables
\* of the program and what every location held before.
Read(r, env, loc) == IF loc \in DOMAIN r.mem THEN r.mem[loc] ELSE env.before[loc]

Write(r, loc, v) ==
    [r EXCEPT !.mem = [x \in DOMAIN r.mem \cup {loc} |->
                          IF x = loc THEN v ELSE r.mem[x]]]

Place(env, name) == IF name \in env.state THEN <<"state", name>>
                    ELSE <<"local", name>>

RECURSIVE Eval(_, _, _)

Eval(e, r, env) ==
    CASE e.k = "Num" -> Val(e.v)
      [] e.k = "Var" -> Val(Read(r, env, Place(env, e.name)))
      [] e.k = "Index" ->
            LET key == Eval(e.key, r, env)
            IN  IF key.ok THEN Val(Read(r, env, <<"map", e.name, key.v>>)) ELSE Fault
      [] e.k = "Load" ->
            LET key == Eval(e.key, r, env)
            IN  IF key.ok THEN Val(Read(r, env, <<"raw", key.v>>)) ELSE Fault
      [] e.k = "Builtin" ->
            IF e.name # "arg" THEN Val(env.call[e.name])
            ELSE LET i == Eval(e.arg, r, env)
                 IN  IF ~ i.ok THEN Fault
                     ELSE Val(IF i.v < Len(env.call.input)
                              THEN env.call.input[i.v + 1] ELSE 0)
      [] e.k = "Unary" ->
            LET x == Eval(e.x, r, env)
            IN  IF x.ok THEN Val(Truth(x.v = 0)) ELSE Fault
      [] e.k = "Binary" ->
            LET a == Eval(e.l, r, env)
                b == Eval(e.r, r, env)
            IN  IF a.ok /\ b.ok THEN Apply(e.op, a.v, b.v) ELSE Fault

-----------------------------------------------------------------------------
Faulted(r) == [r EXCEPT !.status = "fault"]

RECURSIVE Exec(_, _, _)

\* Statements in order, until one returns, stops or faults.
ExecAll(ss, r, env) ==
    FoldLeft(LAMBDA q, s : IF q.status = "run" THEN Exec(s, q, env) ELSE q, r, ss)

Exec(s, r, env) ==
    LET Value(e) == Eval(e, r, env)
        Assign(loc, e) == IF Value(e).ok THEN Write(r, loc, Value(e).v) ELSE Faulted(r)
    IN  CASE s.k = "Let" -> Assign(Place(env, s.name), s.val)
          [] s.k = "IndexStore" ->
                IF Value(s.key).ok
                THEN Assign(<<"map", s.name, Value(s.key).v>>, s.val) ELSE Faulted(r)
          [] s.k = "Store" ->
                IF Value(s.key).ok THEN Assign(<<"raw", Value(s.key).v>>, s.val)
                ELSE Faulted(r)
          [] s.k = "Require" ->
                IF Value(s.cond).ok /\ Value(s.cond).v # 0 THEN r ELSE Faulted(r)
          [] s.k = "Revert" -> Faulted(r)
          [] s.k = "If" ->
                IF ~ Value(s.cond).ok THEN Faulted(r)
                ELSE ExecAll(IF Value(s.cond).v # 0 THEN s.then ELSE s.els, r, env)
          [] s.k = "While" ->
                IF ~ Value(s.cond).ok THEN Faulted(r)
                ELSE IF Value(s.cond).v = 0 THEN r
                     ELSE ExecAll(Append(s.body, s), r, env)
          [] s.k = "Emit" ->
                LET topics == [i \in 1..Len(s.args) |-> Value(s.args[i])]
                IN  IF \A i \in 1..Len(topics) : topics[i].ok
                    THEN [r EXCEPT !.logs = Append(@, [i \in 1..Len(topics) |->
                                                          topics[i].v])]
                    ELSE Faulted(r)
          [] s.k = "Return" ->
                IF Value(s.val).ok
                THEN [r EXCEPT !.status = "done", !.ret = Value(s.val).v]
                ELSE Faulted(r)
          [] s.k = "Stop" -> [r EXCEPT !.status = "done"]

\* A call of a program: the flat statements, then the function that calldata
\* word 0 selects, with its parameters from the words after it.
Call(prog, env, Selects(_)) ==
    LET Flat == SelectSeq(prog, LAMBDA n : n.k \notin {"State", "Fn"})
        Fns == SelectSeq(prog, LAMBDA n : n.k = "Fn")
        input == env.call.input
        Word_(i) == IF i < Len(input) THEN input[i + 1] ELSE 0
        Bound(r, f) == FoldLeft(LAMBDA q, i : Write(q, <<"local", f.params[i]>>, Word_(i)),
                                r, [i \in 1..Len(f.params) |-> i])
        start == [mem |-> <<>>, logs |-> <<>>, status |-> "run", ret |-> 0]
        prelude == ExecAll(Flat, start, env)
        chosen == {i \in 1..Len(Fns) : Selects(Fns[i].name) = Word_(0)}
    IN  IF prelude.status # "run" \/ Fns = <<>> THEN prelude
        ELSE IF chosen = {} THEN Faulted(prelude)
             ELSE LET f == Fns[CHOOSE i \in chosen : \A j \in chosen : i <= j]
                  IN  ExecAll(f.body, Bound(prelude, f), env)

=============================================================================
