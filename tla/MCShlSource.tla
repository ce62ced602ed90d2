----------------------------- MODULE MCShlSource -----------------------------
(***************************************************************************)
(* Programs for ShlSource: every shape of statement, and expressions in     *)
(* which operators of every two levels meet on either side, three deep.     *)
(***************************************************************************)
EXTENDS ShlSource

A == [k |-> "Var", name |-> "a"]
One == [k |-> "Num", v |-> 1]
Not(x) == [k |-> "Unary", x |-> x]
Bin(op, l, r) == [k |-> "Binary", op |-> op, l |-> l, r |-> r]

Over(L, R) == {Bin(op, l, r) : op \in {"||", "&&", "<", "-", "*"}, l \in L, r \in R}
Leaves == {A}
Flat == Leaves \cup Over(Leaves, Leaves) \cup {Not(A)}
Nested == Flat \cup Over(Flat, Flat) \cup {Not(x) : x \in Flat}
Deep == Nested \cup Over(Nested, Flat) \cup Over(Flat, Nested)

Primaries ==
    {One, [k |-> "Load", key |-> Bin("+", A, One)], [k |-> "Index", name |-> "m", key |-> Not(A)],
     [k |-> "Builtin", name |-> "caller"], [k |-> "Builtin", name |-> "balance"],
     [k |-> "Builtin", name |-> "arg", arg |-> One]}

Return(e) == [k |-> "Return", val |-> e]
Let(e) == [k |-> "Let", name |-> "a", val |-> e]
Stop == [k |-> "Stop"]

Statements ==
    {Return(e) : e \in Primaries}
    \cup {Let(Bin("==", A, One)), Stop, [k |-> "Revert"],
          [k |-> "Store", key |-> A, val |-> One],
          [k |-> "IndexStore", name |-> "m", key |-> A, val |-> One],
          [k |-> "If", cond |-> A, then |-> <<Stop>>, els |-> <<>>],
          [k |-> "If", cond |-> A, then |-> <<>>, els |-> <<Let(One), Stop>>],
          [k |-> "While", cond |-> A, body |-> <<Let(A), Stop>>],
          [k |-> "Emit", args |-> <<>>], [k |-> "Emit", args |-> <<A, Not(One)>>],
          [k |-> "Require", cond |-> Bin("!=", A, One)],
          [k |-> "State", name |-> "m"],
          [k |-> "Fn", name |-> "f", params |-> <<>>, body |-> <<Stop>>],
          [k |-> "Fn", name |-> "f", params |-> <<"a", "b">>, body |-> <<Return(A)>>]}

MCTokens ==
    ToSet(Name("a") \o Number(1) \o Name("else") \o Name("store") \o Name("fn") \o Name("msg")
            \o FlattenSeq([i \in 1 .. 12 |-> Punct(<<"(", ")", "[", "]", "{", "}", ";", "=", "-", "!", ".", "<">>[i])]))

\* Statements, alone and in pairs, with an edit; expressions as they are.
Alone == {<<n>> : n \in Statements}
MCPrograms == {<<>>} \cup Alone \cup {<<m, n>> : m, n \in Statements} \cup {<<Return(e)>> : e \in Deep}
MCMaxEdits(p) == IF p = <<>> THEN 3 ELSE IF ToSet(p) \subseteq Statements THEN 1 ELSE 0

=============================================================================
