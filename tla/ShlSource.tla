------------------------------ MODULE ShlSource ------------------------------
(***************************************************************************)
(* The texts the SHL parser is given: a program written out, and such a     *)
(* text with a few tokens removed, inserted or replaced.                    *)
(***************************************************************************)
EXTENDS ShlText

CONSTANTS
    Programs,    \* the programs that are written
    Tokens,      \* what an edit may insert
    MaxEdits(_)  \* how often a program is edited

VARIABLES
    prog,        \* the program that was written
    text,        \* its tokens, after the edits
    edits

vars == <<prog, text, edits>>

-----------------------------------------------------------------------------

Init ==
    /\ prog \in Programs
    /\ text = WriteAll(prog)
    /\ edits = 0

Edit ==
    /\ edits < MaxEdits(prog)
    /\ edits' = edits + 1
    /\ \E i \in 1 .. Len(text) + 1 :
          \/ i <= Len(text) /\ text' = RemoveAt(text, i)
          \/ \E t \in Tokens : text' = InsertAt(text, i, t)
          \/ \E t \in Tokens : i <= Len(text) /\ text' = ReplaceAt(text, i, t)
    /\ UNCHANGED prog

Spec == Init /\ [][Edit]_vars

-----------------------------------------------------------------------------
(* Properties *)

\* A program that was written out is read back as the same tree: the levels
\* from orExpr to unary bind and associate as parser.go:336 says, and no
\* statement swallows a part of the next.
ReadBack == edits = 0 => Parse(text) = Ok(prog, Len(text) + 1)

\* The words of a text without what may be left out or added without a change
\* of meaning: commas, parentheses and `let`.
Words(s) == SelectSeq(s, LAMBDA t : t.str \notin {"(", ")", ",", "let"})

\* The parser skips and invents nothing: a text it accepts has the words of the
\* tree it returns, so a text with a token too few or too many is refused or
\* means what it says.
NothingIgnored ==
    LET r == Parse(text) IN r.ok => Words(text) = Words(WriteAll(r.n))

\* However a text is cut off or mangled, parser.adv never reads behind the last
\* token, where p.toks[p.i] would panic.
NeverPastEnd == Parse(text).i <= Len(text) + 1

=============================================================================
