------------------------------- MODULE ShlText -------------------------------
(***************************************************************************)
(* SHL programs as text: the tokens of a syntax tree, with no parenthesis   *)
(* that the precedence of the operators (parser.go:336) makes unnecessary.  *)
(* The reference for the parser.                                            *)
(***************************************************************************)
EXTENDS ShlParser, SequencesExt

Punct(p) == <<[kind |-> "punct", str |-> p, num |-> 0]>>
Name(x) == <<[kind |-> "ident", str |-> x, num |-> 0]>>
Number(v) == <<[kind |-> "num", str |-> "", num |-> v]>>

\* How tightly the outermost operator of e binds.
Tightness(e) ==
    CASE e.k = "Binary" -> CHOOSE k \in DOMAIN Binding : e.op \in Binding[k]
      [] e.k = "Unary" -> Len(Binding) + 1
      [] OTHER -> Len(Binding) + 2

RECURSIVE Write(_, _)

Bracketed(e) == Punct("[") \o Write(e, 1) \o Punct("]")
Parens(e) == Punct("(") \o Write(e, 1) \o Punct(")")

\* The tokens of e where something at least as tight as k is needed.
Write(e, k) ==
    IF Tightness(e) < k THEN Parens(e)
    ELSE CASE e.k = "Num" -> Number(e.v)
           [] e.k = "Var" -> Name(e.name)
           [] e.k = "Load" -> Name("store") \o Bracketed(e.key)
           [] e.k = "Index" -> Name(e.name) \o Bracketed(e.key)
           [] e.k = "Builtin" ->
                 CASE e.name = "arg" -> Name("arg") \o Parens(e.arg)
                   [] e.name = "caller" -> Name("msg") \o Punct(".") \o Name("sender")
                   [] OTHER -> Name(e.name) \o Punct("(") \o Punct(")")
           [] e.k = "Unary" -> Punct("!") \o Write(e.x, Tightness(e))
           [] e.k = "Binary" ->
                 LET t == Tightness(e)
                 IN  Write(e.l, IF t = Comparison THEN t + 1 ELSE t) \o Punct(e.op)
                        \o Write(e.r, t + 1)

Separated(ss) ==
    FoldLeft(LAMBDA s, i : s \o (IF i = 1 THEN <<>> ELSE Punct(",")) \o ss[i],
             <<>>, [i \in DOMAIN ss |-> i])

RECURSIVE WriteStmt(_)

WriteAll(ns) == FlattenSeq([i \in DOMAIN ns |-> WriteStmt(ns[i])])
Block(ns) == Punct("{") \o WriteAll(ns) \o Punct("}")
Assign(e) == Punct("=") \o Write(e, 1) \o Punct(";")

WriteStmt(n) ==
    CASE n.k = "Let" -> Name("let") \o Name(n.name) \o Assign(n.val)
      [] n.k = "Store" -> Name("store") \o Bracketed(n.key) \o Assign(n.val)
      [] n.k = "IndexStore" -> Name(n.name) \o Bracketed(n.key) \o Assign(n.val)
      [] n.k = "If" -> Name("if") \o Parens(n.cond) \o Block(n.then)
                          \o IF n.els = <<>> THEN <<>> ELSE Name("else") \o Block(n.els)
      [] n.k = "While" -> Name("while") \o Parens(n.cond) \o Block(n.body)
      [] n.k = "Emit" -> Name("emit") \o Punct("(")
                            \o Separated([i \in DOMAIN n.args |-> Write(n.args[i], 1)])
                            \o Punct(")") \o Punct(";")
      [] n.k = "Return" -> Name("return") \o Write(n.val, 1) \o Punct(";")
      [] n.k = "Require" -> Name("require") \o Parens(n.cond) \o Punct(";")
      [] n.k = "Stop" -> Name("stop") \o Punct(";")
      [] n.k = "Revert" -> Name("revert") \o Punct(";")
      [] n.k = "State" -> Name("state") \o Name(n.name) \o Punct(";")
      [] n.k = "Fn" -> Name("fn") \o Name(n.name) \o Punct("(")
                          \o Separated([i \in DOMAIN n.params |-> Name(n.params[i])])
                          \o Punct(")") \o Block(n.body)

=============================================================================
