------------------------------ MODULE ShlParser ------------------------------
(***************************************************************************)
(* The SHL parser (internal/shl/parser.go): from the tokens of a program to *)
(* its syntax tree, by recursive descent.                                   *)
(*                                                                          *)
(* A token is a record [kind, str, num]; the last one is EOF.  A parsing    *)
(* function takes the tokens s and the position i of the next one, and      *)
(* returns [ok, n, i]: whether there was no error, the node, and where it   *)
(* stopped.  The nodes are those of Shl.                                    *)
(***************************************************************************)
EXTENDS Naturals, Sequences

EOF == [kind |-> "eof", str |-> "", num |-> 0]
Ok(n, i) == [ok |-> TRUE, n |-> n, i |-> i]
Err(i) == [ok |-> FALSE, n |-> <<>>, i |-> i]

\* Go on with the node and the position of r, unless it is an error.
Then(r, Rest(_, _)) == IF r.ok THEN Rest(r.n, r.i) ELSE r

-----------------------------------------------------------------------------
(* Tokens *)

\* Reading behind the last token panics: an error at a position behind it.
cur(s, i) == IF i <= Len(s) THEN s[i] ELSE [kind |-> "none", str |-> "", num |-> 0]
isPunct(s, i, p) == cur(s, i).kind = "punct" /\ cur(s, i).str = p
isKw(s, i, w) == cur(s, i).kind = "ident" /\ cur(s, i).str = w

\* Mutant: a closing bracket may be missing.
expectMostly(s, i, p, n) ==
    IF isPunct(s, i, p) THEN Ok(n, i + 1) ELSE IF p = "]" THEN Ok(n, i) ELSE Err(i)

expect(s, i, p, n) == IF isPunct(s, i, p) THEN Ok(n, i + 1) ELSE Err(i)

\* adv, and the test that the token is a name.
ident(s, i) == IF cur(s, i).kind = "ident" THEN Ok(cur(s, i).str, i + 1) ELSE Err(i)

-----------------------------------------------------------------------------
(* Expressions *)

\* The operators of orExpr, andExpr, cmpExpr, addExpr and mulExpr.
Binding == << {"||"}, {"&&"}, {"==", "!=", "<", ">", "<=", ">="}, {"+", "-"}, {"*", "/", "%"} >>
Comparison == 3

RECURSIVE level(_, _, _), expr(_, _), unary(_, _)

isOp(s, i, k) == cur(s, i).kind = "punct" /\ cur(s, i).str \in Binding[k]

\* Mutant: the operators of a level associate to the right.
restRight(s, i, k, l) ==
    IF ~ isOp(s, i, k) THEN Ok(l, i)
    ELSE Then(level(s, i + 1, k), LAMBDA r, j :
            Ok([k |-> "Binary", op |-> s[i].str, l |-> l, r |-> r], j))

\* After the left operand l: operators of a level associate to the left, and a
\* comparison takes one right operand only.
RECURSIVE rest(_, _, _, _)
rest(s, i, k, l) ==
    IF ~ isOp(s, i, k) THEN Ok(l, i)
    ELSE Then(level(s, i + 1, k + 1), LAMBDA r, j :
            LET e == [k |-> "Binary", op |-> s[i].str, l |-> l, r |-> r]
            IN  IF k = Comparison THEN Ok(e, j) ELSE rest(s, j, k, e))

level(s, i, k) ==
    IF k > Len(Binding) THEN unary(s, i)
    ELSE Then(level(s, i, k + 1), LAMBDA l, j : rest(s, j, k, l))

expr(s, i) == level(s, i, 1)

\* "[" e "]", and ( e ).
key(s, i) == Then(expect(s, i, "[", 0), LAMBDA n, j :
                Then(expr(s, j), LAMBDA e, m : expect(s, m, "]", e)))
paren(s, i) == Then(expect(s, i, "(", 0), LAMBDA n, j :
                  Then(expr(s, j), LAMBDA e, m : expect(s, m, ")", e)))

Builtin(name) == [k |-> "Builtin", name |-> name]

msg(s, i) ==
    Then(expect(s, i, ".", 0), LAMBDA n, j :
       CASE cur(s, j).str = "sender" -> Ok(Builtin("caller"), j + 1)
         [] cur(s, j).str = "value" -> Ok(Builtin("value"), j + 1)
         [] OTHER -> Err(j))

\* A name that is no keyword of an expression: a variable or a mapping read.
variable(s, i) ==
    LET name == cur(s, i).str
    IN  IF isPunct(s, i + 1, "[")
        THEN Then(key(s, i + 1), LAMBDA e, j : Ok([k |-> "Index", name |-> name, key |-> e], j))
        ELSE Ok([k |-> "Var", name |-> name], i + 1)

primary(s, i) ==
    LET w == cur(s, i) IN
    CASE w.kind = "num" -> Ok([k |-> "Num", v |-> w.num], i + 1)
      [] isPunct(s, i, "(") -> paren(s, i)
      [] isKw(s, i, "store") ->
            Then(key(s, i + 1), LAMBDA e, j : Ok([k |-> "Load", key |-> e], j))
      [] w.kind = "ident" /\ w.str \in {"caller", "value", "balance", "self"} ->
            Then(expect(s, i + 1, "(", 0), LAMBDA n, j : expect(s, j, ")", Builtin(w.str)))
      [] isKw(s, i, "arg") ->
            Then(paren(s, i + 1), LAMBDA e, j :
               Ok([k |-> "Builtin", name |-> "arg", arg |-> e], j))
      [] isKw(s, i, "msg") -> msg(s, i + 1)
      [] w.kind = "ident" /\ w.str \notin {"store", "caller", "value", "balance", "self", "arg", "msg"} ->
            variable(s, i)
      [] OTHER -> Err(i)

unary(s, i) ==
    IF isPunct(s, i, "!")
    THEN Then(unary(s, i + 1), LAMBDA x, j : Ok([k |-> "Unary", x |-> x], j))
    ELSE primary(s, i)

-----------------------------------------------------------------------------
(* Statements *)

\* The optional comma after an argument or a parameter.
comma(s, i) == IF isPunct(s, i, ",") THEN i + 1 ELSE i

RECURSIVE args(_, _, _)
args(s, i, as) ==
    IF isPunct(s, i, ")") THEN Ok(as, i + 1)
    ELSE Then(expr(s, i), LAMBDA e, j : args(s, comma(s, j), Append(as, e)))

callArgs(s, i) == Then(expect(s, i, "(", 0), LAMBDA n, j : args(s, j, <<>>))

\* "=" e ";" after the target of a write.
assigned(s, i) ==
    Then(expect(s, i, "=", 0), LAMBDA n, j :
       Then(expr(s, j), LAMBDA v, m : expect(s, m, ";", v)))

RECURSIVE stmt(_, _)

RECURSIVE blockFrom(_, _, _)
blockFrom(s, i, body) ==
    IF isPunct(s, i, "}") \/ cur(s, i).kind = "eof" THEN expect(s, i, "}", body)
    ELSE Then(stmt(s, i), LAMBDA n, j : blockFrom(s, j, Append(body, n)))

block(s, i) == Then(expect(s, i, "{", 0), LAMBDA n, j : blockFrom(s, j, <<>>))

ifStmt(s, i) ==
    Then(paren(s, i + 1), LAMBDA c, j :
       Then(block(s, j), LAMBDA then, m :
          LET node(els) == [k |-> "If", cond |-> c, then |-> then, els |-> els]
          IN  IF isKw(s, m, "else")
              THEN Then(block(s, m + 1), LAMBDA els, x : Ok(node(els), x))
              ELSE Ok(node(<<>>), m)))

whileStmt(s, i) ==
    Then(paren(s, i + 1), LAMBDA c, j :
       Then(block(s, j), LAMBDA b, m : Ok([k |-> "While", cond |-> c, body |-> b], m)))

letStmt(s, i) ==
    Then(ident(s, i), LAMBDA x, j :
       Then(assigned(s, j), LAMBDA v, m : Ok([k |-> "Let", name |-> x, val |-> v], m)))

\* x = e;  or  name[k] = v;
assignment(s, i) ==
    IF isPunct(s, i + 1, "[")
    THEN Then(key(s, i + 1), LAMBDA e, j :
            Then(assigned(s, j), LAMBDA v, m :
               Ok([k |-> "IndexStore", name |-> cur(s, i).str, key |-> e, val |-> v], m)))
    ELSE letStmt(s, i)

stmt(s, i) ==
    LET w == IF cur(s, i).kind = "ident" THEN cur(s, i).str ELSE "" IN
    CASE w = "let" -> letStmt(s, i + 1)
      [] w = "store" ->
            Then(key(s, i + 1), LAMBDA e, j :
               Then(assigned(s, j), LAMBDA v, m : Ok([k |-> "Store", key |-> e, val |-> v], m)))
      [] w = "if" -> ifStmt(s, i)
      [] w = "while" -> whileStmt(s, i)
      [] w = "emit" ->
            Then(callArgs(s, i + 1), LAMBDA as, j : expect(s, j, ";", [k |-> "Emit", args |-> as]))
      [] w = "return" ->
            Then(expr(s, i + 1), LAMBDA e, j : expect(s, j, ";", [k |-> "Return", val |-> e]))
      [] w = "stop" -> expect(s, i + 1, ";", [k |-> "Stop"])
      [] w = "require" ->
            Then(paren(s, i + 1), LAMBDA e, j : expect(s, j, ";", [k |-> "Require", cond |-> e]))
      [] w = "revert" -> expect(s, i + 1, ";", [k |-> "Revert"])
      [] w = "" -> Err(i)
      [] OTHER -> assignment(s, i)

-----------------------------------------------------------------------------
(* Programs *)

\* Mutant: parameters are read until the parenthesis, whatever they are.
RECURSIVE paramsAny(_, _, _)
paramsAny(s, i, ps) ==
    IF isPunct(s, i, ")") THEN Ok(ps, i + 1)
    ELSE IF cur(s, i).kind = "none" THEN Err(i)
    ELSE paramsAny(s, comma(s, i + 1), Append(ps, cur(s, i).str))

RECURSIVE params(_, _, _)
params(s, i, ps) ==
    IF isPunct(s, i, ")") THEN Ok(ps, i + 1)
    ELSE Then(ident(s, i), LAMBDA p, j : params(s, comma(s, j), Append(ps, p)))

fnDecl(s, i) ==
    Then(ident(s, i + 1), LAMBDA f, j :
       Then(expect(s, j, "(", 0), LAMBDA n, m :
          Then(params(s, m, <<>>), LAMBDA ps, x :
             Then(block(s, x), LAMBDA b, y :
                Ok([k |-> "Fn", name |-> f, params |-> ps, body |-> b], y)))))

topLevel(s, i) ==
    IF isKw(s, i, "state")
    THEN Then(ident(s, i + 1), LAMBDA x, j : expect(s, j, ";", [k |-> "State", name |-> x]))
    ELSE IF isKw(s, i, "fn") THEN fnDecl(s, i) ELSE stmt(s, i)

RECURSIVE items(_, _, _)
items(s, i, prog) ==
    IF cur(s, i).kind = "eof" THEN Ok(prog, i)
    ELSE Then(topLevel(s, i), LAMBDA n, j : items(s, j, Append(prog, n)))

\* Parse, after lex.
Parse(s) == items(Append(s, EOF), 1, <<>>)

=============================================================================
