------------------------------- MODULE ShlCode -------------------------------
(***************************************************************************)
(* The code that the SHL compiler emits, as the contract machine meets it:   *)
(* its shape, and what shl.Estimate says of its gas.                         *)
(***************************************************************************)
EXTENDS Vm, FiniteSets, Functions

\* The opcodes that gen.stmt, gen.expr, gen.binop and gen.dispatch emit.
Emitted == {"PUSH", "ADDC", "SUBC", "MULC", "DIV", "MOD", "EQ", "LT", "GT", "AND",
            "OR", "MIX", "ISZERO", "SLOAD", "CDLOAD", "CALLER", "VALUE", "BAL",
            "SELF", "DUP", "POP", "SSTORE", "LOG", "JUMP", "JUMPI", "RETURN",
            "STOP", "REVERT"}

\* The opcodes that take the constant pushed just before them.
Immediate == {"JUMP", "JUMPI", "LOG"}

\* Cell j + 1 is where the destination j leads: to an instruction that does
\* not take its constant from the cell before it (gen.mark), or to the end.
Landing(code, j) ==
    j < Len(code) => code[j + 1].op \notin Immediate \cup {"DATA"}

\* Every PUSH has its operand, the operand of a jump is a label that
\* gen.resolve filled in, and each topic of an event took a cell to compute.
Shaped(code) ==
    \A i \in 1..Len(code) :
       /\ code[i].op \in Emitted \cup {"DATA"}
       /\ code[i].op = "PUSH" => i < Len(code) /\ code[i + 1].op = "DATA"
       /\ code[i].op = "DATA" => i > 1 /\ code[i - 1].op = "PUSH"
       /\ code[i].op \in Immediate => i > 1 /\ code[i - 1].op = "DATA"
       /\ code[i].op \in {"JUMP", "JUMPI"} =>
             code[i - 1].v < Word \div 2 /\ Landing(code, code[i - 1].v)
       /\ code[i].op = "LOG" => code[i - 1].v < i

\* The contracts whose code has the shape.
ShlContracts == {c \in Contracts : Shaped(Code[c])}

\* No jump of the code goes backwards.
LoopFree(code) ==
    \A i \in 2..Len(code) :
       code[i].op \in {"JUMP", "JUMPI"} => code[i - 1].v >= i

-----------------------------------------------------------------------------
(* The gas estimate *)

\* Mutant: a mapping slot is priced like a stack operation.
PriceCheapMix(op) == CASE op = "PUSH" -> 3
                       [] op = "DATA" -> 0
                       [] op = "SSTORE" -> 100
                       [] op = "SLOAD" -> 20
                       [] op = "LOG" -> 50
                       [] OTHER -> 1

\* What Estimate adds for a cell; the operand of PUSH is skipped.
Price(op) == CASE op = "PUSH" -> 3
               [] op = "DATA" -> 0
               [] op = "SSTORE" -> 100
               [] op \in {"SLOAD", "MIX"} -> 20
               [] op = "LOG" -> 50
               [] OTHER -> 1

\* The topics of a LOG, when their number is the constant pushed just before.
Topics(code, i) == IF i > 1 /\ code[i - 1].op = "DATA" THEN code[i - 1].v ELSE 0

\* Estimate's total after the first n cells: the cells counted by their
\* price, and the topics, which are fewer than the cells: the sum is far below
\* 2^64.
Total(code, n) ==
    LET Count(p) == Cardinality({i \in 1..n : Price(code[i].op) = p})
    IN  Count(1) + 3 * Count(3) + 20 * Count(20) + 50 * Count(50) + 100 * Count(100)
          + 8 * SumFunction([i \in {j \in 1..n : code[j].op = "LOG"} |-> Topics(code, i)])

Estimate(code) == Total(code, Len(code))

-----------------------------------------------------------------------------
(* Properties *)

\* Control never enters the operand of a PUSH nor leaves the code but at its
\* end: what a jump of compiled code finds on the stack is the label that
\* was pushed before it, and labels are instructions (the JUMP and PUSH of
\* vm.ExecuteB on the code of gen.mark, gen.pushLabel and gen.resolve).
JumpsLand ==
    \A i \in 1..Len(frames) :
       frames[i].self \in ShlContracts =>
          /\ frames[i].pc \in 0..Len(frames[i].code)
          /\ InCode(frames[i]) => Cell(frames[i]).op # "DATA"

\* A call of a compiled program without loops never needs more gas than
\* Estimate says of its code, whatever its input and the storage it finds
\* (shl.Estimate against the schedule of vm.gasCost).
EstimateSuffices ==
    /\ frames = <<>> /\ calls > 0 /\ outcome.ok
    /\ request.call.to \in ShlContracts
    /\ LoopFree(Code[request.call.to])
    => outcome.used <= Estimate(Code[request.call.to])

=============================================================================
