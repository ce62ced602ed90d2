------------------------------ MODULE VmProofs ------------------------------
(***************************************************************************)
(* Gas and the limits of the machine bound every tree of calls, whatever    *)
(* the contracts, their code, their storage and the requests are.           *)
(*                                                                          *)
(* The difficulty is CALL.  The gas forwarded is a word from the stack, so  *)
(* the callee's budget is only meaningful because every word of the stack   *)
(* is a number, and that depends on everything a word is read from: code,   *)
(* calldata, storage, working copies and the results of all opcodes.  And   *)
(* the charge after the call is safe only because a frame that waits for a  *)
(* callee keeps used + the callee's budget below its own budget.            *)
(*                                                                          *)
(* The second part is about the contracts whose code has the shape that the *)
(* SHL compiler gives it.  A jump takes its destination from the stack, so  *)
(* where it lands and what a path costs are only known because control      *)
(* never comes between a constant and the instruction that takes it; and    *)
(* that is known because no jump lands there.  Both, and the gas paid so    *)
(* far, are one invariant of the running frame.                             *)
(*                                                                          *)
(* The third part is why a call ends: a number that every instruction makes *)
(* larger, a nested call that returns included, and that gas bounds.        *)
(***************************************************************************)
EXTENDS ShlCode, DataLemmas, SequenceTheorems

\* Most steps are first-order; the few that calculate name SMT.
USE Zenon

\* What the code and the environment contribute are words.
WordsAreNumbers ==
    /\ Contracts \subseteq Nat
    /\ \A c \in Contracts : /\ \E S : Code[c] \in Seq(S)
                            /\ \A i \in 1..Len(Code[c]) : Code[c][i].v \in Nat
                            /\ Balance(c) \in Nat
    /\ \A r \in Requests : /\ r.caller \in Nat
                           /\ r.value \in Nat
                           /\ r.input \in Seq(Nat)
                           /\ r.query \in BOOLEAN
    /\ \A a, b \in Nat : /\ BitAnd(a, b) \in Nat
                         /\ BitOr(a, b) \in Nat
                         /\ Mix(a, b) \in Nat
    /\ \A blob : Digest(blob) \in Nat

WordMap(m) == \A k \in DOMAIN m : m[k] \in Nat

BlobMap(m) == \A k \in DOMAIN m : Len(m[k]) \in Nat

Fields == {"self", "code", "caller", "from", "input", "value", "gas", "used",
           "steps", "pc", "stack", "work", "bwork", "logs"}

IsRecord(f) == DOMAIN f = Fields /\ f = [x \in Fields |-> f[x]]

\* A frame: its record, its words, and the limits of ExecuteB.
FrameOK(f) ==
    /\ IsRecord(f)
    /\ f.self \in Contracts
    /\ f.code = Code[f.self]
    /\ f.caller \in Nat
    /\ f.value \in Nat
    /\ f.input \in Seq(Nat)
    /\ Len(f.from) \in Nat
    /\ f.gas \in Nat
    /\ f.used \in Nat
    /\ f.used <= f.gas
    /\ f.steps \in 0..MaxSteps
    /\ f.pc \in Int
    /\ f.stack \in Seq(Nat)
    /\ Len(f.stack) <= MaxStack
    /\ WordMap(f.work)
    /\ BlobMap(f.bwork)

\* The frames of a tree of calls.  A frame that waits has the callee's budget
\* and a place on its stack left.
TreeOK(fs) ==
    /\ \E S : fs \in Seq(S)
    /\ Len(fs) <= MaxDepth + 1
    /\ \A i \in 1..Len(fs) : FrameOK(fs[i])
    /\ \A i \in 1..Len(fs) - 1 : /\ fs[i].used + fs[i + 1].gas <= fs[i].gas
                                 /\ Len(fs[i].stack) < MaxStack

StoresOK ==
    /\ DOMAIN storage = Contracts
    /\ DOMAIN bstorage = Contracts
    /\ \A c \in Contracts : WordMap(storage[c]) /\ BlobMap(bstorage[c])

\* The outermost frame runs on the gas of the request.
RequestOK ==
    /\ calls \in 0..MaxCalls
    /\ frames # <<>> => /\ calls > 0
                        /\ \/ frames[1].gas = request.call.gas
                           \/ request.call.gas = 0
    /\ frames = <<>> /\ calls > 0 =>
          outcome.used <= request.call.gas \/ request.call.gas = 0

VInv == StoresOK /\ TreeOK(frames) /\ RequestOK

-----------------------------------------------------------------------------
(* Words *)

LEMMA Remainder ==
    ASSUME NEW x \in Int, NEW y \in Nat \ {0}
    PROVE  x % y \in Nat
BY SMT

LEMMA Quotient ==
    ASSUME NEW x \in Nat, NEW y \in Nat \ {0}
    PROVE  x \div y \in Nat
BY SMT

LEMMA Product ==
    ASSUME NEW x \in Nat, NEW y \in Nat
    PROVE  x * y \in Nat
BY SMT

\* What an opcode pops is a word.
LEMMA ArgIsWord ==
    ASSUME NEW f, FrameOK(f), NEW i \in 1..3
    PROVE  Arg(f, i) \in Nat
<1>1. f.stack \in Seq(Nat)
  BY DEF FrameOK
<1>2. Len(f.stack) \in Nat /\ \A k \in 1..Len(f.stack) : f.stack[k] \in Nat
  BY <1>1, SMT
<1>3. CASE i <= Len(f.stack)
  <2>1. Len(f.stack) - i + 1 \in 1..Len(f.stack)
    BY <1>2, <1>3, SMT
  <2> QED BY <1>2, <1>3, <2>1 DEF Arg
<1>4. CASE ~ (i <= Len(f.stack))
  BY <1>4 DEF Arg
<1> QED BY <1>3, <1>4

LEMMA CodeIsWords ==
    ASSUME WordsAreNumbers, NEW f, FrameOK(f)
    PROVE  /\ Len(f.code) \in Nat
           /\ \A i \in 1..Len(f.code) : f.code[i].v \in Nat
<1>1. PICK S : Code[f.self] \in Seq(S)
  BY DEF WordsAreNumbers, FrameOK
<1>2. Len(f.code) \in Nat
  BY <1>1, SMT DEF FrameOK
<1> QED BY <1>2 DEF WordsAreNumbers, FrameOK

LEMMA CostIsNumber ==
    ASSUME NEW f, FrameOK(f)
    PROVE  Cost(f) \in Nat
<1>1. Arg(f, 1) \in Nat
  BY ArgIsWord, SMT
<1>2. gasCost(Cell(f).op) \in Nat
  BY DEF gasCost
<1> QED BY <1>1, <1>2, SMT DEF Cost

LEMMA BinopIsWord ==
    ASSUME WordsAreNumbers, NEW op \in Binary \ {"BEQ"},
           NEW a \in Nat, NEW b \in Nat, ~ Overflows(op, a, b)
    PROVE  binop(op, a, b) \in Nat
<1>w. Word \in Nat \ {0}
  BY MachineAssumption
<1>1. CASE op \in {"ADD", "ADDC"}
  <2>1. (a + b) % Word \in Nat
    BY <1>w, Remainder, SMT
  <2> QED BY <1>1, <2>1 DEF binop
<1>2. CASE op \in {"SUB", "SUBC"}
  <2>1. (a - b) % Word \in Nat
    BY <1>w, Remainder, SMT
  <2> QED BY <1>2, <2>1 DEF binop
<1>3. CASE op \in {"MUL", "MULC"}
  <2>1. a * b \in Nat
    BY Product
  <2>2. (a * b) % Word \in Nat
    BY <1>w, <2>1, Remainder, SMT
  <2> QED BY <1>3, <2>2 DEF binop
<1>4. CASE op \in {"DIV", "MOD"}
  <2>1. b # 0
    BY <1>4 DEF Overflows
  <2>2. a \div b \in Nat /\ a % b \in Nat
    BY <2>1, Quotient, Remainder, SMT
  <2> QED BY <1>4, <2>2 DEF binop
<1>5. CASE op \in {"EQ", "LT", "GT"}
  BY <1>5 DEF binop, b2u
<1>6. CASE op \in {"AND", "OR", "MIX"}
  BY <1>6 DEF binop, WordsAreNumbers
<1> QED BY <1>1, <1>2, <1>3, <1>4, <1>5, <1>6 DEF Binary

\* A readable word of the calldata is a word (CDLOAD).
LEMMA CalldataIsWord ==
    ASSUME NEW input \in Seq(Nat), NEW i \in Nat, Readable(input, i)
    PROVE  word(input, i) \in Nat
<1>1. i * WordBytes \in Nat
  BY Product, MachineAssumption
<1>2. Offset(i) \in Nat
  BY <1>1, Remainder, MachineAssumption, SMT DEF Offset
<1>3. Offset(i) \div WordBytes \in Nat
  BY <1>2, Quotient, MachineAssumption
<1>4. CASE OutOfBounds(input, i)
  BY <1>4 DEF word
<1>5. CASE ~ OutOfBounds(input, i)
  <2>1. Offset(i) \div WordBytes + 1 \in 1..Len(input)
    BY <1>3, <1>5, SMT DEF Readable
  <2> QED BY <1>5, <2>1, SMT DEF word
<1> QED BY <1>4, <1>5

LEMMA ReadsAreWords ==
    ASSUME NEW f, FrameOK(f), NEW k
    PROVE  At(f.work, k, 0) \in Nat /\ Len(At(f.bwork, k, <<>>)) \in Nat
BY DEF FrameOK, WordMap, BlobMap, At

\* Every simple opcode pushes words, and as many as its room was tested for.
LEMMA ResultIsWords ==
    ASSUME WordsAreNumbers, NEW f, FrameOK(f), InCode(f), Runs(f),
           Cell(f).op \in Simple,
           Cell(f).op = "CDLOAD" => Readable(f.input, Arg(f, 1))
    PROVE  /\ Result(f) \in Seq(Nat)
           /\ Len(f.stack) - Pops(Cell(f).op) + Len(Result(f)) <= MaxStack
<1> DEFINE op == Cell(f).op
           b == Arg(f, 1)
           a == Arg(f, 2)
           n == Len(f.stack)
<1>a. a \in Nat /\ b \in Nat /\ n \in Nat /\ n <= MaxStack /\ MaxStack \in Nat
  <2>1. a \in Nat /\ b \in Nat
    BY ArgIsWord, SMT
  <2>2. n \in Nat /\ n <= MaxStack /\ MaxStack \in Nat
    BY MachineAssumption, SMT DEF FrameOK
  <2> QED BY <2>1, <2>2
<1>r. n - Pops(op) + Pushes(op) <= MaxStack
  BY DEF Runs
<1>1. CASE op = "PUSH"
  <2>1. HasOperand(f)
    BY <1>1 DEF Runs
  <2>2. f.pc + 2 \in 1..Len(f.code)
    <3>1. f.pc \in Int
      BY DEF FrameOK
    <3>2. Len(f.code) \in Nat
      BY CodeIsWords
    <3> QED BY <2>1, <3>1, <3>2, SMT DEF HasOperand, InCode
  <2>3. Operand(f) \in Nat
    BY <2>1, <2>2, CodeIsWords DEF Operand
  <2>4. Result(f) = <<Operand(f)>>
    BY <1>1 DEF Result
  <2>5. Pops(op) = 0 /\ Pushes(op) = 1
    BY <1>1 DEF Pops, Pushes, Binary, Unary, Context
  <2> QED BY <2>3, <2>4, <2>5, <1>r, <1>a, SMT
<1>2. CASE op = "POP"
  <2>1. Result(f) = <<>>
    BY <1>2 DEF Result
  <2>2. Pops(op) = 1
    BY <1>2 DEF Pops, Binary, Unary
  <2> QED BY <2>1, <2>2, <1>a, SMT
<1>3. CASE op = "DUP"
  <2>1. Result(f) = <<b, b>>
    BY <1>3 DEF Result
  <2>2. Pops(op) = 1 /\ Pushes(op) = 2
    <3>1. Pops(op) = 1
      BY <1>3 DEF Pops, Binary, Unary
    <3>2. Pushes(op) = 2
      BY <1>3 DEF Pushes, Context
    <3> QED BY <3>1, <3>2
  <2> QED BY <2>1, <2>2, <1>a, <1>r, SMT
<1>4. CASE op = "SWAP"
  <2>1. Result(f) = <<b, a>>
    BY <1>4 DEF Result
  <2>2. Pops(op) = 2
    BY <1>4 DEF Pops, Binary, Unary
  <2> QED BY <2>1, <2>2, <1>a, SMT
<1>5. CASE op \in Context
  <2>1. Balance(f.self) \in Nat /\ f.self \in Nat /\ f.value \in Nat /\ f.caller \in Nat
    BY DEF FrameOK, WordsAreNumbers
  <2>2. WordBytes * Len(f.input) \in Nat
    BY Product, MachineAssumption, SMT DEF FrameOK
  <2>3. \E w \in Nat : Result(f) = <<w>>
    BY <1>5, <2>1, <2>2 DEF Result, Context
  <2>4. Pops(op) = 0 /\ Pushes(op) = 1
    BY <1>5 DEF Pops, Pushes, Binary, Unary, Context
  <2> QED BY <2>3, <2>4, <1>a, <1>r, SMT
<1>6. CASE op \in Unary
  <2>1. (Word - 1 - b) % Word \in Nat
    BY <1>a, Remainder, MachineAssumption, SMT
  <2>2. /\ At(f.work, b, 0) \in Nat
        /\ Len(At(f.bwork, b, <<>>)) \in Nat
        /\ Digest(At(f.bwork, b, <<>>)) \in Nat
    BY ReadsAreWords DEF WordsAreNumbers
  <2>3. op = "CDLOAD" => word(f.input, b) \in Nat
    BY <1>a, CalldataIsWord DEF FrameOK
  <2>4. b2u(b = 0) \in Nat
    BY DEF b2u
  <2>5. \E w \in Nat : Result(f) = <<w>>
    BY <1>6, <2>1, <2>2, <2>3, <2>4 DEF Result, Unary
  <2>6. Pops(op) = 1
    BY <1>6 DEF Pops, Binary, Unary
  <2> QED BY <2>5, <2>6, <1>a, SMT
<1>7. CASE op \in Binary
  <2>1. \E w \in Nat : Result(f) = <<w>>
    <3>1. CASE op = "BEQ"
      <4>1. Result(f) = <<b2u(At(f.bwork, a, <<>>) = At(f.bwork, b, <<>>))>>
        BY <3>1 DEF Result
      <4> QED BY <4>1, SMT DEF b2u
    <3>2. CASE op # "BEQ"
      <4>1. ~ Overflows(op, a, b)
        BY <1>7 DEF Runs
      <4>2. binop(op, a, b) \in Nat
        BY <1>7, <3>2, <4>1, <1>a, BinopIsWord
      <4>3. Result(f) = <<binop(op, a, b)>>
        BY <1>7, <3>2 DEF Result, Binary
      <4> QED BY <4>2, <4>3
    <3> QED BY <3>1, <3>2
  <2>2. Pops(op) = 2
    <3>1. op \notin {"CALL", "BSTORE"}
      BY <1>7 DEF Binary
    <3>2. op \notin Unary \cup {"POP", "DUP", "JUMP", "LOG", "CALLERB", "SELFB",
                               "RETURN", "RETURNB"}
      BY <1>7 DEF Binary, Unary
    <3> QED BY <1>7, <3>1, <3>2 DEF Pops
  <2> QED BY <2>1, <2>2, <1>a, SMT
<1> QED BY <1>1, <1>2, <1>3, <1>4, <1>5, <1>6, <1>7 DEF Simple

-----------------------------------------------------------------------------
(* Frames *)

LEMMA PopsNumber ==
    ASSUME NEW op
    PROVE  Pops(op) \in 0..3
BY SMT DEF Pops

LEMMA BelowIsStack ==
    ASSUME NEW f, FrameOK(f), NEW k \in 0..Len(f.stack)
    PROVE  Below(f, k) \in Seq(Nat) /\ Len(Below(f, k)) = Len(f.stack) - k
<1>1. f.stack \in Seq(Nat) /\ Len(f.stack) \in Nat
  BY SMT DEF FrameOK
<1>2. \A i \in 1..Len(f.stack) - k : f.stack[i] \in Nat
  BY <1>1, SMT
<1> QED BY <1>1, <1>2, SubSeqProperties, SMT DEF Below

\* An instruction that runs leaves a frame within its gas and its limits.
LEMMA StepIsFrame ==
    ASSUME NEW f, FrameOK(f), Runs(f), NEW pushed \in Seq(Nat),
           Len(f.stack) - Pops(Cell(f).op) + Len(pushed) <= MaxStack
    PROVE  /\ FrameOK(Step(f, pushed))
           /\ Step(f, pushed).gas = f.gas
           /\ Step(f, pushed).used = f.used + Cost(f)
           /\ Len(Step(f, pushed).stack)
                = Len(f.stack) - Pops(Cell(f).op) + Len(pushed)
<1> DEFINE g == Step(f, pushed)
           k == Pops(Cell(f).op)
           st == Below(f, k) \o pushed
<1>1. k \in 0..Len(f.stack) /\ Len(f.stack) \in Nat
  <2>1. k \in 0..3
    BY PopsNumber
  <2>2. Len(f.stack) >= k
    BY DEF Runs
  <2>3. Len(f.stack) \in Nat
    BY SMT DEF FrameOK
  <2> QED BY <2>1, <2>2, <2>3, SMT
<1>2. st \in Seq(Nat) /\ Len(st) = Len(f.stack) - k + Len(pushed)
  <2>1. Below(f, k) \in Seq(Nat) /\ Len(Below(f, k)) = Len(f.stack) - k
    BY <1>1, BelowIsStack
  <2> HIDE DEF k
  <2> QED BY <2>1, ConcatProperties
<1>3. Cost(f) \in Nat /\ f.used + Cost(f) <= f.gas
  BY CostIsNumber DEF Runs
<1>4. f.steps + 1 \in 0..MaxSteps
  <2>1. f.steps < MaxSteps
    BY DEF Runs
  <2>2. f.steps \in 0..MaxSteps /\ MaxSteps \in Nat
    BY MachineAssumption DEF FrameOK
  <2> QED BY <2>1, <2>2, SMT
<1>5. f.pc + (IF Cell(f).op = "PUSH" THEN 2 ELSE 1) \in Int
  BY SMT DEF FrameOK
<1>6. /\ IsRecord(g)
      /\ g.self = f.self /\ g.code = f.code /\ g.caller = f.caller
      /\ g.from = f.from /\ g.input = f.input /\ g.value = f.value
      /\ g.gas = f.gas /\ g.work = f.work /\ g.bwork = f.bwork
      /\ g.used = f.used + Cost(f)
      /\ g.steps = f.steps + 1
      /\ g.pc = f.pc + (IF Cell(f).op = "PUSH" THEN 2 ELSE 1)
      /\ g.stack = st
  <2>1. IsRecord(f)
    BY DEF FrameOK
  <2> QED BY <2>1 DEF Step, IsRecord, Fields
<1> HIDE DEF g, st
<1>7. FrameOK(g)
  <2>1. g.used \in Nat /\ g.used <= g.gas
    <3>1. f.used \in Nat /\ f.gas \in Nat
      BY DEF FrameOK
    <3> QED BY <1>3, <1>6, <3>1, SMT
  <2>2. g.stack \in Seq(Nat) /\ Len(g.stack) <= MaxStack
    BY <1>2, <1>6
  <2> QED BY <1>4, <1>5, <1>6, <2>1, <2>2 DEF FrameOK
<1> QED BY <1>2, <1>6, <1>7 DEF g

\* Replacing the running frame by one with the same budget.
LEMMA SetTopKeepsTree ==
    ASSUME TreeOK(frames), frames # <<>>, NEW g, FrameOK(g), g.gas = Top.gas
    PROVE  /\ TreeOK(SetTop(g))
           /\ SetTop(g) # <<>>
           /\ SetTop(g)[1].gas = frames[1].gas
           /\ Len(SetTop(g)) = Len(frames)
           /\ SetTop(g)[Len(frames)] = g
<1>1. PICK S : frames \in Seq(S)
  BY DEF TreeOK
<1> DEFINE n == Len(frames)
           fs == SetTop(g)
<1>2. n \in Nat \ {0} /\ DOMAIN frames = 1..n
  BY <1>1, SMT
<1>3. frames \in Seq(S \cup {g})
  BY <1>1, SMT
<1>4. fs \in Seq(S \cup {g}) /\ Len(fs) = n
  BY <1>2, <1>3, SMT DEF SetTop
<1>5. \A i \in 1..n : fs[i] = IF i = n THEN g ELSE frames[i]
  BY <1>1, <1>2 DEF SetTop
<1>6. \A i \in 1..n : FrameOK(fs[i])
  BY <1>5 DEF TreeOK
<1>7. \A i \in 1..n : fs[i].gas = frames[i].gas
  BY <1>5, g.gas = frames[n].gas DEF Top
<1> HIDE DEF fs, n
<1>8. \A i \in 1..n - 1 : fs[i] = frames[i] /\ i + 1 \in 1..n /\ i \in 1..n
  BY <1>2, <1>5, SMT
<1>9. \A i \in 1..n - 1 : /\ fs[i].used + fs[i + 1].gas <= fs[i].gas
                          /\ Len(fs[i].stack) < MaxStack
  BY <1>7, <1>8 DEF TreeOK, n
<1>10. TreeOK(fs)
  BY <1>4, <1>6, <1>9 DEF TreeOK, n
<1>11. 1 \in 1..n /\ n \in 1..n
  BY <1>2, SMT
<1>12. fs # <<>> /\ fs[1].gas = frames[1].gas /\ fs[n] = g
  BY <1>2, <1>4, <1>5, <1>7, <1>11
<1> QED BY <1>4, <1>10, <1>12 DEF fs, n

\* Charging the caller for its callee and pushing the result.
LEMMA ResumeKeepsTree ==
    ASSUME TreeOK(frames), frames # <<>>, Callers # <<>>,
           NEW used \in Nat, used <= Top.gas, NEW v \in Nat
    PROVE  /\ TreeOK(Resume(used, v))
           /\ Resume(used, v) # <<>>
           /\ Resume(used, v)[1].gas = frames[1].gas
<1>1. PICK S : frames \in Seq(S)
  BY DEF TreeOK
<1> DEFINE n == Len(frames) - 1
           f == frames[n]
           g == [f EXCEPT !.used = f.used + used, !.stack = Append(f.stack, v)]
           fs == Resume(used, v)
<1>2. Len(frames) \in Nat /\ Len(frames) # 0
  BY <1>1, SMT
<1>3. /\ Callers \in Seq(S) /\ Len(Callers) = n
      /\ \A i \in 1..n : Callers[i] = frames[i]
  BY <1>1, <1>2, SMT DEF Callers
<1>4. n \in Nat \ {0}
  BY <1>2, <1>3, SMT
<1>5. Callers \in Seq(S \cup {g})
  BY <1>3, SMT
<1>6. fs = [Callers EXCEPT ![n] = g]
  <2>1. n \in 1..n /\ Len(Callers) = n
    BY <1>3, <1>4, SMT
  <2>2. Callers[Len(Callers)] = f
    BY <1>3, <2>1
  <2> HIDE DEF n, f
  <2> QED BY <2>1, <2>2 DEF Resume
<1>7. /\ fs \in Seq(S \cup {g}) /\ Len(fs) = n
      /\ \A i \in 1..n : fs[i] = IF i = n THEN g ELSE frames[i]
  <2> HIDE DEF g, fs, n
  <2> QED BY <1>3, <1>4, <1>5, <1>6, SMT
<1>8. /\ FrameOK(f) /\ f.used + Top.gas <= f.gas /\ Len(f.stack) < MaxStack
      /\ FrameOK(Top)
  <2>1. n = Len(frames) - 1
    OBVIOUS
  <2> HIDE DEF n
  <2>2. n \in 1..Len(frames) - 1 /\ n + 1 = Len(frames) /\ n \in 1..Len(frames)
        /\ Len(frames) \in 1..Len(frames)
    BY <1>2, <1>4, <2>1, SMT
  <2> QED BY <2>2 DEF TreeOK, Top
<1>9. FrameOK(g) /\ g.gas = f.gas
  <2> HIDE DEF f
  <2>1. f.used \in Nat /\ f.gas \in Nat /\ Top.gas \in Nat
    BY <1>8 DEF FrameOK
  <2>2. f.used + used \in Nat /\ f.used + used <= f.gas
    BY <1>8, <2>1, SMT
  <2>3. Append(f.stack, v) \in Seq(Nat) /\ Len(Append(f.stack, v)) <= MaxStack
    <3>1. f.stack \in Seq(Nat) /\ Len(f.stack) \in Nat /\ MaxStack \in Nat
      BY <1>8, MachineAssumption, SMT DEF FrameOK
    <3> QED BY <1>8, <3>1, AppendProperties, SMT
  <2>4. /\ IsRecord(g)
        /\ g.self = f.self /\ g.code = f.code /\ g.caller = f.caller
        /\ g.from = f.from /\ g.input = f.input /\ g.value = f.value
        /\ g.gas = f.gas /\ g.work = f.work /\ g.bwork = f.bwork
        /\ g.used = f.used + used
        /\ g.steps = f.steps
        /\ g.pc = f.pc
        /\ g.stack = Append(f.stack, v)
    <3>1. IsRecord(f)
      BY <1>8 DEF FrameOK
    <3> QED BY <3>1 DEF IsRecord, Fields
  <2> HIDE DEF g
  <2> QED BY <1>8, <2>2, <2>3, <2>4 DEF FrameOK
<1> HIDE DEF g, fs
<1>10. \A i \in 1..n : FrameOK(fs[i]) /\ fs[i].gas = frames[i].gas
  <2>1. \A i \in 1..n : i \in 1..Len(frames)
    BY <1>2, SMT
  <2> QED BY <1>7, <1>9, <2>1 DEF TreeOK
<1>11. \A i \in 1..n - 1 : /\ fs[i] = frames[i] /\ i + 1 \in 1..n
                            /\ i \in 1..Len(frames) - 1
  BY <1>2, <1>4, <1>7, SMT
<1>12. \A i \in 1..n - 1 : /\ fs[i].used + fs[i + 1].gas <= fs[i].gas
                            /\ Len(fs[i].stack) < MaxStack
  BY <1>10, <1>11 DEF TreeOK
<1>13. Len(fs) <= MaxDepth + 1
  BY <1>2, <1>7, MachineAssumption, SMT DEF TreeOK
<1>14. TreeOK(fs)
  BY <1>7, <1>10, <1>12, <1>13 DEF TreeOK
<1>15. fs # <<>> /\ fs[1].gas = frames[1].gas
  BY <1>4, <1>7, <1>10, SMT
<1> QED BY <1>14, <1>15 DEF fs

CallOK(c, caller, from, input, value, gas) ==
    /\ c \in Contracts
    /\ caller \in Nat
    /\ Len(from) \in Nat
    /\ input \in Seq(Nat)
    /\ value \in Nat
    /\ gas \in Nat

\* A new frame, on a copy of what is stored.
LEMMA FrameIsFrame ==
    ASSUME WordsAreNumbers, StoresOK,
           NEW c, NEW caller, NEW from, NEW input, NEW value, NEW gas,
           CallOK(c, caller, from, input, value, gas)
    PROVE  /\ FrameOK(Frame(c, caller, from, input, value, gas))
           /\ Frame(c, caller, from, input, value, gas).gas = gas
<1> DEFINE g == Frame(c, caller, from, input, value, gas)
<1>1. IsRecord(g)
  BY DEF Frame, IsRecord, Fields
<1>2. /\ g.self = c /\ g.code = Code[c] /\ g.caller = caller /\ g.from = from
      /\ g.input = input /\ g.value = value /\ g.gas = gas /\ g.used = 0
      /\ g.steps = 0 /\ g.pc = 0 /\ g.stack = <<>>
      /\ g.work = storage[c] /\ g.bwork = bstorage[c]
  BY DEF Frame
<1>3. <<>> \in Seq(Nat) /\ Len(<<>>) = 0 /\ MaxStack \in Nat /\ MaxSteps \in Nat
  BY MachineAssumption, SMT
<1>4. WordMap(storage[c]) /\ BlobMap(bstorage[c])
  BY DEF StoresOK, CallOK
<1> HIDE DEF g
<1>5. FrameOK(g)
  BY <1>1, <1>2, <1>3, <1>4, SMT DEF FrameOK, CallOK
<1> QED BY <1>2, <1>5 DEF g

LEMMA AddressLength ==
    ASSUME NEW a
    PROVE  Len(AddressBytes(a)) \in Nat
BY MachineAssumption, SMT DEF AddressBytes

\* A frame with the identity and the gas of another.
Alike(f, g) ==
    /\ g.self = f.self /\ g.code = f.code /\ g.caller = f.caller /\ g.from = f.from
    /\ g.input = f.input /\ g.value = f.value /\ g.gas = f.gas /\ g.used = f.used
    /\ g.steps = f.steps

LEMMA AlikeIsFrame ==
    ASSUME NEW f, FrameOK(f), NEW g, IsRecord(g), Alike(f, g),
           g.pc \in Int, g.stack \in Seq(Nat), Len(g.stack) <= MaxStack,
           WordMap(g.work), BlobMap(g.bwork)
    PROVE  FrameOK(g) /\ g.gas = f.gas
BY DEF FrameOK, Alike

\* The fields an instruction may set after Step.
LEMMA UpdateKeepsFrame ==
    ASSUME NEW f, FrameOK(f)
    PROVE  /\ \A m : WordMap(m) => /\ FrameOK([f EXCEPT !.work = m])
                                   /\ [f EXCEPT !.work = m].gas = f.gas
           /\ \A m : BlobMap(m) => /\ FrameOK([f EXCEPT !.bwork = m])
                                   /\ [f EXCEPT !.bwork = m].gas = f.gas
           /\ \A d \in Int : /\ FrameOK([f EXCEPT !.pc = d])
                              /\ [f EXCEPT !.pc = d].gas = f.gas
<1>r. IsRecord(f)
  BY DEF FrameOK
<1>f. /\ f.pc \in Int /\ f.stack \in Seq(Nat) /\ Len(f.stack) <= MaxStack
      /\ WordMap(f.work) /\ BlobMap(f.bwork)
  BY DEF FrameOK
<1>1. ASSUME NEW m, WordMap(m)
      PROVE  FrameOK([f EXCEPT !.work = m]) /\ [f EXCEPT !.work = m].gas = f.gas
  <2> DEFINE g == [f EXCEPT !.work = m]
  <2>1. IsRecord(g) /\ g.work = m /\ Alike(f, g)
        /\ g.pc = f.pc /\ g.stack = f.stack /\ g.bwork = f.bwork
    BY <1>r DEF IsRecord, Fields, Alike
  <2> HIDE DEF g
  <2>2. FrameOK(g) /\ g.gas = f.gas
    BY <1>f, <1>1, <2>1, AlikeIsFrame
  <2> QED BY <2>2 DEF g
<1>2. ASSUME NEW m, BlobMap(m)
      PROVE  FrameOK([f EXCEPT !.bwork = m]) /\ [f EXCEPT !.bwork = m].gas = f.gas
  <2> DEFINE g == [f EXCEPT !.bwork = m]
  <2>1. IsRecord(g) /\ g.bwork = m /\ Alike(f, g)
        /\ g.pc = f.pc /\ g.stack = f.stack /\ g.work = f.work
    BY <1>r DEF IsRecord, Fields, Alike
  <2> HIDE DEF g
  <2>2. FrameOK(g) /\ g.gas = f.gas
    BY <1>f, <1>2, <2>1, AlikeIsFrame
  <2> QED BY <2>2 DEF g
<1>3. ASSUME NEW d \in Int
      PROVE  FrameOK([f EXCEPT !.pc = d]) /\ [f EXCEPT !.pc = d].gas = f.gas
  <2> DEFINE g == [f EXCEPT !.pc = d]
  <2>1. IsRecord(g) /\ g.pc = d /\ Alike(f, g)
        /\ g.stack = f.stack /\ g.work = f.work /\ g.bwork = f.bwork
    BY <1>r DEF IsRecord, Fields, Alike
  <2> HIDE DEF g
  <2>2. FrameOK(g) /\ g.gas = f.gas
    BY <1>f, <1>3, <2>1, AlikeIsFrame
  <2> QED BY <2>2 DEF g
<1> QED BY <1>1, <1>2, <1>3

LEMMA LogKeepsFrame ==
    ASSUME NEW f, FrameOK(f), NEW g, IsRecord(g),
           g.stack \in Seq(Nat), Len(g.stack) <= MaxStack,
           \A x \in Fields \ {"stack", "logs"} : g[x] = f[x]
    PROVE  FrameOK(g) /\ g.gas = f.gas
<1>1. Alike(f, g) /\ g.pc = f.pc /\ g.work = f.work /\ g.bwork = f.bwork
  BY DEF Fields, Alike
<1>2. f.pc \in Int /\ WordMap(f.work) /\ BlobMap(f.bwork)
  BY DEF FrameOK
<1> QED BY <1>1, <1>2, AlikeIsFrame

LEMMA WithKeepsMaps ==
    ASSUME NEW m, NEW k, NEW v
    PROVE  /\ WordMap(m) /\ v \in Nat => WordMap(With(m, k, v))
           /\ BlobMap(m) /\ Len(v) \in Nat => BlobMap(With(m, k, v))
BY DEF WordMap, BlobMap, With

LEMMA TopIsFrame ==
    ASSUME TreeOK(frames), frames # <<>>
    PROVE  FrameOK(Top) /\ Len(frames) \in Nat \ {0}
<1>1. PICK S : frames \in Seq(S)
  BY DEF TreeOK
<1>2. Len(frames) \in Nat \ {0} /\ Len(frames) \in 1..Len(frames)
  BY <1>1, SMT
<1> QED BY <1>2 DEF TreeOK, Top

-----------------------------------------------------------------------------
(* Instructions that stay in the running frame *)

LEMMA AdvanceKeepsInv ==
    ASSUME VInv, frames # <<>>, NEW g, FrameOK(g), g.gas = Top.gas,
           frames' = SetTop(g), UNCHANGED outside
    PROVE  VInv'
<1>1. TreeOK(SetTop(g)) /\ SetTop(g) # <<>> /\ SetTop(g)[1].gas = frames[1].gas
  BY SetTopKeepsTree DEF VInv
<1>2. TreeOK(frames')
  BY <1>1
<1>3. StoresOK'
  BY DEF VInv, StoresOK, outside
<1>4. RequestOK'
  BY <1>1 DEF VInv, RequestOK, outside
<1> QED BY <1>2, <1>3, <1>4 DEF VInv

\* An instruction without operands to push leaves a frame.
LEMMA BareStep ==
    ASSUME NEW f, FrameOK(f), Runs(f)
    PROVE  /\ FrameOK(Step(f, <<>>))
           /\ Step(f, <<>>).gas = f.gas
           /\ Step(f, <<>>).used = f.used + Cost(f)
           /\ Len(Step(f, <<>>).stack) = Len(f.stack) - Pops(Cell(f).op)
<1>1. Pops(Cell(f).op) \in 0..3
  BY PopsNumber
<1>2. Len(f.stack) \in Nat /\ Len(f.stack) <= MaxStack /\ MaxStack \in Nat
  BY MachineAssumption, SMT DEF FrameOK
<1>3. <<>> \in Seq(Nat) /\ Len(<<>>) = 0
  BY SMT
<1>4. Len(f.stack) - Pops(Cell(f).op) + Len(<<>>) <= MaxStack
  BY <1>1, <1>2, <1>3, SMT
<1>5. /\ FrameOK(Step(f, <<>>))
      /\ Step(f, <<>>).gas = f.gas
      /\ Step(f, <<>>).used = f.used + Cost(f)
      /\ Len(Step(f, <<>>).stack) = Len(f.stack) - Pops(Cell(f).op) + Len(<<>>)
  BY <1>3, <1>4, StepIsFrame
<1> QED BY <1>1, <1>2, <1>3, <1>5, SMT

LEMMA OperateKeepsInv ==
    ASSUME WordsAreNumbers, VInv, Operate
    PROVE  VInv'
<1> DEFINE g == Step(Top, Result(Top))
<1>1. /\ frames # <<>> /\ InCode(Top) /\ Cell(Top).op \in Simple /\ Runs(Top)
      /\ Cell(Top).op = "CDLOAD" => Readable(Top.input, Arg(Top, 1))
      /\ frames' = SetTop(g) /\ UNCHANGED outside
  BY DEF Operate, Fetch
<1>2. FrameOK(Top)
  BY <1>1, TopIsFrame DEF VInv
<1>3. /\ Result(Top) \in Seq(Nat)
      /\ Len(Top.stack) - Pops(Cell(Top).op) + Len(Result(Top)) <= MaxStack
  BY <1>1, <1>2, ResultIsWords
<1>4. FrameOK(g) /\ g.gas = Top.gas
  BY <1>1, <1>2, <1>3, StepIsFrame
<1> QED BY <1>1, <1>4, AdvanceKeepsInv

LEMMA StoreKeepsInv ==
    ASSUME WordsAreNumbers, VInv, Store
    PROVE  VInv'
<1> DEFINE f == Top
           op == Cell(f).op
           blob == CASE op = "BSTORE" -> Slice(f.input, Arg(f, 2), Arg(f, 3))
                     [] op = "CALLERB" -> f.from
                     [] OTHER -> AddressBytes(f.self)
           g == Step(f, <<>>)
           w == With(f.work, Arg(f, 2), Arg(f, 1))
           bw == With(f.bwork, Arg(f, 1), blob)
           h == IF op = "SSTORE" THEN [g EXCEPT !.work = w] ELSE [g EXCEPT !.bwork = bw]
<1>1. /\ frames # <<>> /\ Runs(f) /\ frames' = SetTop(h) /\ UNCHANGED outside
  BY DEF Store, Fetch
<1>2. FrameOK(f)
  BY <1>1, TopIsFrame DEF VInv
<1>3. Arg(f, 1) \in Nat /\ Arg(f, 3) \in Nat
  BY <1>2, ArgIsWord, SMT
<1>4. Len(blob) \in Nat
  <2>1. Len(Slice(f.input, Arg(f, 2), Arg(f, 3))) \in Nat
    BY <1>3, SMT DEF Slice
  <2>2. Len(AddressBytes(f.self)) \in Nat
    BY AddressLength
  <2>3. Len(f.from) \in Nat
    BY <1>2 DEF FrameOK
  <2> HIDE DEF f, op
  <2> QED BY <2>1, <2>2, <2>3
<1>5. WordMap(w) /\ BlobMap(bw)
  <2>1. WordMap(f.work) /\ BlobMap(f.bwork)
    BY <1>2 DEF FrameOK
  <2> HIDE DEF f, blob
  <2> QED BY <1>3, <1>4, <2>1, WithKeepsMaps
<1>6. FrameOK(g) /\ g.gas = f.gas
  BY <1>1, <1>2, BareStep
<1>7. FrameOK(h) /\ h.gas = f.gas
  <2> HIDE DEF f, g, w, bw, op
  <2> QED BY <1>5, <1>6, UpdateKeepsFrame
<1> HIDE DEF h
<1> QED BY <1>1, <1>7, AdvanceKeepsInv

LEMMA JumpKeepsInv ==
    ASSUME WordsAreNumbers, VInv, Jump
    PROVE  VInv'
<1> DEFINE f == Top
           taken == Cell(f).op = "JUMP" \/ Arg(f, 2) # 0
           d == IF taken THEN int(Arg(f, 1)) ELSE f.pc + 1
           g == Step(f, <<>>)
           h == [g EXCEPT !.pc = d]
<1>1. /\ frames # <<>> /\ Runs(f) /\ frames' = SetTop(h) /\ UNCHANGED outside
  BY DEF Jump, Fetch
<1>2. FrameOK(f)
  BY <1>1, TopIsFrame DEF VInv
<1>3. d \in Int
  <2>1. Arg(f, 1) \in Nat
    BY <1>2, ArgIsWord, SMT
  <2>2. f.pc \in Int
    BY <1>2 DEF FrameOK
  <2> QED BY <2>1, <2>2, MachineAssumption, SMT DEF int
<1>4. FrameOK(g) /\ g.gas = f.gas
  BY <1>1, <1>2, BareStep
<1>5. FrameOK(h) /\ h.gas = f.gas
  <2> HIDE DEF f, g, d
  <2> QED BY <1>3, <1>4, UpdateKeepsFrame
<1> HIDE DEF h
<1> QED BY <1>1, <1>5, AdvanceKeepsInv

LEMMA LogKeepsInv ==
    ASSUME WordsAreNumbers, VInv, Log
    PROVE  VInv'
<1> DEFINE f == Top
           n == Arg(f, 1)
           topics == SubSeq(f.stack, Len(f.stack) - n, Len(f.stack) - 1)
           g == Step(f, <<>>)
           st == Below(f, n + 1)
           l == Append(f.logs, topics)
           h == [g EXCEPT !.stack = st, !.logs = l]
<1>1. /\ frames # <<>> /\ Runs(f) /\ Cell(f).op = "LOG"
      /\ frames' = SetTop(h) /\ UNCHANGED outside
  BY DEF Log, Fetch
<1>2. FrameOK(f)
  BY <1>1, TopIsFrame DEF VInv
<1>3. n \in Nat /\ Len(f.stack) > n
  BY <1>1, <1>2, ArgIsWord, SMT DEF Runs
<1>4. st \in Seq(Nat) /\ Len(st) <= MaxStack
  <2>1. Len(f.stack) \in Nat /\ Len(f.stack) <= MaxStack /\ MaxStack \in Nat
    BY <1>2, MachineAssumption, SMT DEF FrameOK
  <2> HIDE DEF n, f
  <2>2. n + 1 \in 0..Len(f.stack)
    BY <1>3, <2>1, SMT
  <2>3. st \in Seq(Nat) /\ Len(st) = Len(f.stack) - (n + 1)
    BY <1>2, <2>2, BelowIsStack
  <2> QED BY <1>3, <2>1, <2>3, SMT
<1>5. FrameOK(g) /\ g.gas = f.gas
  BY <1>1, <1>2, BareStep
<1>6. FrameOK(h) /\ h.gas = f.gas
  <2> HIDE DEF f, g, st, l
  <2>1. IsRecord(g)
    BY <1>5 DEF FrameOK
  <2>2. /\ IsRecord(h) /\ h.stack = st
        /\ \A x \in Fields \ {"stack", "logs"} : h[x] = g[x]
    BY <2>1 DEF IsRecord, Fields
  <2> HIDE DEF h
  <2> QED BY <1>4, <1>5, <2>2, LogKeepsFrame
<1> HIDE DEF h
<1> QED BY <1>1, <1>6, AdvanceKeepsInv

LEMMA CallRefusedKeepsInv ==
    ASSUME WordsAreNumbers, VInv, CallRefused
    PROVE  VInv'
<1> DEFINE g == Step(Top, <<0>>)
<1>1. /\ frames # <<>> /\ Runs(Top) /\ Cell(Top).op = "CALL"
      /\ frames' = SetTop(g) /\ UNCHANGED outside
  BY DEF CallRefused, Fetch
<1>2. FrameOK(Top)
  BY <1>1, TopIsFrame DEF VInv
<1>3. Pops("CALL") = 3
  BY DEF Pops, Binary, Unary
<1>4. Len(Top.stack) - Pops(Cell(Top).op) + Len(<<0>>) <= MaxStack
  <2>1. Len(Top.stack) \in Nat /\ Len(Top.stack) <= MaxStack /\ MaxStack \in Nat
    BY <1>2, MachineAssumption, SMT DEF FrameOK
  <2> QED BY <1>1, <1>3, <2>1, SMT
<1>5. FrameOK(g) /\ g.gas = Top.gas
  <2>1. <<0>> \in Seq(Nat)
    BY SMT
  <2> QED BY <1>1, <1>2, <1>4, <2>1, StepIsFrame
<1> QED BY <1>1, <1>5, AdvanceKeepsInv

-----------------------------------------------------------------------------
(* Calls and returns *)

LEMMA CallOutKeepsInv ==
    ASSUME WordsAreNumbers, VInv, CallOut
    PROVE  VInv'
<1> DEFINE f == Top
           g == Step(f, <<>>)
           gas == Forward(f)
           new == Frame(Arg(f, 3), f.self, <<>>, <<Arg(f, 2)>>, 0, gas)
           up == SetTop(g)
           n == Len(frames)
           fs == Append(up, new)
<1>1. /\ frames # <<>> /\ Runs(f) /\ Cell(f).op = "CALL" /\ Callable(f)
      /\ frames' = fs /\ UNCHANGED outside
  BY DEF CallOut, Fetch
<1>2. FrameOK(f) /\ n \in Nat \ {0}
  BY <1>1, TopIsFrame DEF VInv
<1>3. /\ FrameOK(g) /\ g.gas = f.gas /\ g.used = f.used + Cost(f)
      /\ Len(g.stack) = Len(f.stack) - 3
  <2>1. Pops("CALL") = 3
    BY DEF Pops, Binary, Unary
  <2>2. Runs(f) /\ Cell(f).op = "CALL" /\ FrameOK(f)
    BY <1>1, <1>2
  <2> HIDE DEF f
  <2> QED BY <2>1, <2>2, BareStep
<1>4. gas \in Nat /\ g.used + gas <= g.gas
  <2>1. Arg(f, 1) \in Nat
    BY <1>2, ArgIsWord, SMT
  <2>2. Cost(f) \in Nat
    BY <1>2, CostIsNumber
  <2>3. f.used + Cost(f) <= f.gas
    BY <1>1 DEF Runs
  <2>4. f.used \in Nat /\ f.gas \in Nat
    BY <1>2 DEF FrameOK
  <2>5. gas = IF Arg(f, 1) > f.gas - f.used - Cost(f) THEN f.gas - f.used - Cost(f)
              ELSE Arg(f, 1)
    BY DEF Forward
  <2> HIDE DEF gas, f, g
  <2> QED BY <1>3, <2>1, <2>2, <2>3, <2>4, <2>5, SMT
<1>5. FrameOK(new) /\ new.gas = gas
  <2>1. Arg(f, 3) \in Contracts /\ f.self \in Nat /\ Arg(f, 2) \in Nat
    <3>1. Arg(f, 3) \in Contracts
      BY <1>1 DEF Callable
    <3>2. f.self \in Contracts
      BY <1>2 DEF FrameOK
    <3>3. Contracts \subseteq Nat
      BY DEF WordsAreNumbers
    <3>4. Arg(f, 2) \in Nat
      BY <1>2, ArgIsWord, SMT
    <3> QED BY <3>1, <3>2, <3>3, <3>4
  <2>2. <<Arg(f, 2)>> \in Seq(Nat) /\ Len(<<>>) \in Nat
    BY <2>1, SMT
  <2>3. StoresOK
    BY DEF VInv
  <2> HIDE DEF f, gas
  <2>4. CallOK(Arg(f, 3), f.self, <<>>, <<Arg(f, 2)>>, 0, gas)
    BY <1>4, <2>1, <2>2 DEF CallOK
  <2> QED BY <2>3, <2>4, FrameIsFrame, SMT
<1>6. /\ TreeOK(up) /\ up # <<>> /\ up[1].gas = frames[1].gas
      /\ Len(up) = n /\ up[n] = g
  BY <1>1, <1>3, SetTopKeepsTree DEF VInv
<1> HIDE DEF up, g, new, gas
<1>7. PICK S : up \in Seq(S)
  BY <1>6 DEF TreeOK
<1>8. /\ fs \in Seq(S \cup {new}) /\ Len(fs) = n + 1 /\ fs[n + 1] = new
      /\ \A i \in 1..n : fs[i] = up[i]
  <2>1. up \in Seq(S \cup {new})
    BY <1>7, SMT
  <2> HIDE DEF n
  <2> QED BY <1>2, <1>6, <2>1, SMT
<1> HIDE DEF fs
<1>9. Len(fs) <= MaxDepth + 1
  BY <1>1, <1>2, <1>8, MachineAssumption, SMT DEF Callable
<1>10. \A i \in 1..Len(fs) : FrameOK(fs[i])
  <2>1. \A i \in 1..n : FrameOK(up[i])
    BY <1>6 DEF TreeOK
  <2>2. \A i \in 1..n + 1 : i \in 1..n \/ i = n + 1
    BY <1>2, SMT
  <2> QED BY <1>5, <1>8, <2>1, <2>2
<1>11. \A i \in 1..Len(fs) - 1 : /\ fs[i].used + fs[i + 1].gas <= fs[i].gas
                                 /\ Len(fs[i].stack) < MaxStack
  <2> SUFFICES ASSUME NEW i \in 1..n
               PROVE  /\ fs[i].used + fs[i + 1].gas <= fs[i].gas
                      /\ Len(fs[i].stack) < MaxStack
    BY <1>2, <1>8, SMT
  <2>1. CASE i = n
    <3>1. Len(g.stack) < MaxStack
      <4>1. Len(f.stack) \in Nat /\ Len(f.stack) <= MaxStack /\ MaxStack \in Nat
        BY <1>2, MachineAssumption, SMT DEF FrameOK
      <4> QED BY <1>3, <4>1, SMT
    <3> QED BY <1>4, <1>5, <1>6, <1>8, <2>1, <3>1
  <2>2. CASE i # n
    <3>1. i \in 1..Len(up) - 1 /\ i + 1 \in 1..n
      BY <1>2, <1>6, <2>2, SMT
    <3> QED BY <1>6, <1>8, <3>1 DEF TreeOK
  <2> QED BY <2>1, <2>2
<1>12. TreeOK(fs)
  BY <1>8, <1>9, <1>10, <1>11 DEF TreeOK
<1>13. fs # <<>> /\ fs[1].gas = frames[1].gas
  BY <1>2, <1>6, <1>8, SMT
<1>14. StoresOK'
  BY <1>1 DEF VInv, StoresOK, outside
<1>15. RequestOK'
  BY <1>1, <1>13 DEF VInv, RequestOK, outside
<1> QED BY <1>1, <1>12, <1>14, <1>15 DEF VInv

\* The frame without a caller is the outermost one.
LEMMA LastFrame ==
    ASSUME TreeOK(frames), frames # <<>>, Callers = <<>>
    PROVE  Len(frames) = 1
<1>1. PICK S : frames \in Seq(S)
  BY DEF TreeOK
<1>2. Len(frames) \in Nat /\ Len(frames) # 0
  BY <1>1, SMT
<1>3. Len(Callers) = Len(frames) - 1
  <2> DEFINE n == Len(frames) - 1
  <2>1. n \in Int /\ 0 <= n
    BY <1>2, SMT
  <2>2. \A i \in 1..n : frames[i] \in S
    BY <1>1, SMT
  <2>3. Callers = SubSeq(frames, 1, n)
    BY DEF Callers
  <2> HIDE DEF n
  <2>4. Len(SubSeq(frames, 1, n)) = IF 1 <= n THEN n - 1 + 1 ELSE 0
    BY <2>1, <2>2, SubSeqProperties, SMT
  <2>5. Len(Callers) = n
    BY <2>1, <2>3, <2>4, SMT
  <2> QED BY <2>5 DEF n
<1> QED BY <1>2, <1>3, SMT

\* The outermost call is over, within the gas of the request, or its caller
\* resumes.
LEMMA ReturnKeepsInv ==
    ASSUME VInv, frames # <<>>, StoresOK',
           NEW used \in Nat, used <= Top.gas, NEW v \in Nat,
           IF Callers = <<>> THEN frames' = <<>> /\ outcome'.used = used
                             ELSE frames' = Resume(used, v) /\ UNCHANGED outcome,
           UNCHANGED <<request, calls>>
    PROVE  VInv'
<1>1. CASE Callers # <<>>
  <2>1. /\ TreeOK(Resume(used, v)) /\ Resume(used, v) # <<>>
        /\ Resume(used, v)[1].gas = frames[1].gas
    BY <1>1, ResumeKeepsTree DEF VInv
  <2>2. TreeOK(frames')
    BY <1>1, <2>1
  <2>3. RequestOK'
    BY <1>1, <2>1 DEF VInv, RequestOK
  <2> QED BY <2>2, <2>3 DEF VInv
<1>2. CASE Callers = <<>>
  <2>1. Len(frames) = 1
    BY <1>2, LastFrame DEF VInv
  <2>2. frames' = <<>> /\ outcome'.used = used
    BY <1>2
  <2>3. TreeOK(frames')
    <3>1. <<>> \in Seq(Nat) /\ Len(<<>>) = 0 /\ MaxDepth \in Nat
      BY MachineAssumption, SMT
    <3> QED BY <2>2, <3>1, SMT DEF TreeOK
  <2>4. used <= frames[1].gas
    BY <2>1 DEF Top
  <2>5. RequestOK'
    BY <2>2, <2>4 DEF VInv, RequestOK
  <2> QED BY <2>3, <2>5 DEF VInv
<1> QED BY <1>1, <1>2

LEMMA CommitKeepsInv ==
    ASSUME VInv, frames # <<>>,
           NEW used \in Nat, used <= Top.gas, NEW ret \in Nat, NEW bytes,
           Commit(Top, used, ret, bytes)
    PROVE  VInv'
<1>1. FrameOK(Top)
  BY TopIsFrame DEF VInv
<1>2. /\ Top.self \in Contracts /\ WordMap(Top.work) /\ BlobMap(Top.bwork)
  BY <1>1 DEF FrameOK
<1>3. StoresOK'
  <2>1. CASE request.call.query
    BY <2>1 DEF Commit, StoresOK, VInv
  <2>2. CASE ~ request.call.query
    <3>1. /\ storage' = [storage EXCEPT ![Top.self] = Top.work]
          /\ bstorage' = [bstorage EXCEPT ![Top.self] = Top.bwork]
      BY <2>2 DEF Commit
    <3> QED BY <1>2, <3>1 DEF StoresOK, VInv
  <2> QED BY <2>1, <2>2
<1>4. IF Callers = <<>> THEN frames' = <<>> /\ outcome'.used = used
                        ELSE frames' = Resume(used, ret) /\ UNCHANGED outcome
  BY SMT DEF Commit
<1>5. UNCHANGED <<request, calls>>
  BY DEF Commit
<1> QED BY <1>3, <1>4, <1>5, ReturnKeepsInv

LEMMA ReturnsKeepInv ==
    ASSUME VInv, Halt \/ EndOfCode \/ Abort
    PROVE  VInv'
<1>1. frames # <<>>
  BY DEF Halt, EndOfCode, Abort, Fetch
<1>2. FrameOK(Top)
  BY <1>1, TopIsFrame DEF VInv
<1>3. Top.used \in Nat /\ Top.gas \in Nat /\ Top.used <= Top.gas
  BY <1>2 DEF FrameOK
<1>4. CASE Halt
  <2> DEFINE ret == IF Cell(Top).op = "RETURN" THEN Arg(Top, 1) ELSE 0
             bytes == IF Cell(Top).op = "RETURNB" THEN At(Top.bwork, Arg(Top, 1), <<>>)
                      ELSE <<>>
             used == Top.used + Cost(Top)
  <2>1. Runs(Top) /\ Commit(Top, used, ret, bytes)
    BY <1>4 DEF Halt, Fetch
  <2>2. used \in Nat /\ used <= Top.gas
    BY <1>2, <1>3, <2>1, CostIsNumber, SMT DEF Runs
  <2>3. ret \in Nat
    BY <1>2, ArgIsWord, SMT
  <2> HIDE DEF used, ret, bytes
  <2> QED BY <1>1, <2>1, <2>2, <2>3, CommitKeepsInv
<1>5. CASE EndOfCode
  <2>1. Commit(Top, Top.used, 0, <<>>)
    BY <1>5 DEF EndOfCode
  <2> QED BY <1>1, <1>3, <2>1, CommitKeepsInv
<1>6. CASE Abort
  <2>1. /\ UNCHANGED <<storage, bstorage, request, calls>>
        /\ IF Callers = <<>> THEN frames' = <<>> /\ outcome'.used = Top.gas
                             ELSE frames' = Resume(Top.gas, 0) /\ UNCHANGED outcome
    BY <1>6 DEF Abort, None
  <2>2. StoresOK'
    BY <2>1 DEF StoresOK, VInv
  <2> QED BY <1>1, <1>3, <2>1, <2>2, ReturnKeepsInv, SMT
<1> QED BY <1>4, <1>5, <1>6

LEMMA InvokeKeepsInv ==
    ASSUME WordsAreNumbers, VInv, NEW r \in Requests, Invoke(r)
    PROVE  VInv'
<1> DEFINE gas == IF r.query /\ r.gas = 0 THEN QueryGas ELSE r.gas
           from == IF r.query THEN <<>> ELSE AddressBytes(r.caller)
           value == IF r.query THEN 0 ELSE r.value
           new == Frame(r.to, r.caller, from, r.input, value, gas)
<1>1. frames' = <<new>>
  BY DEF Invoke, WordsAreNumbers
<1>2. /\ r.to \in Contracts /\ r.caller \in Nat /\ r.input \in Seq(Nat)
      /\ value \in Nat /\ gas \in Nat
  BY MachineAssumption DEF WordsAreNumbers
<1>3. Len(from) \in Nat
  <2>1. Len(AddressBytes(r.caller)) \in Nat /\ Len(<<>>) \in Nat
    BY AddressLength
  <2> QED BY <2>1
<1>4. gas = r.gas \/ r.gas = 0
  OBVIOUS
<1> HIDE DEF gas, from, value
<1>5. FrameOK(new) /\ new.gas = gas
  <2>1. StoresOK
    BY DEF VInv
  <2>2. CallOK(r.to, r.caller, from, r.input, value, gas)
    BY <1>2, <1>3 DEF CallOK
  <2> QED BY <2>1, <2>2, FrameIsFrame, SMT
<1> HIDE DEF new
<1>6. TreeOK(frames')
  <2>1. <<new>> \in Seq({new}) /\ Len(<<new>>) = 1 /\ <<new>>[1] = new
    BY SMT
  <2>2. MaxDepth \in Nat
    BY MachineAssumption
  <2>3. \A i \in 1..Len(<<new>>) : <<new>>[i] = new
    BY <2>1, SMT
  <2>4. ~ \E i \in 1..Len(<<new>>) - 1 : TRUE
    BY <2>1, SMT
  <2>5. Len(<<new>>) <= MaxDepth + 1
    BY <2>1, <2>2, SMT
  <2>6. TreeOK(<<new>>)
    BY <1>5, <2>1, <2>3, <2>4, <2>5 DEF TreeOK
  <2> QED BY <1>1, <2>6
<1>7. StoresOK'
  BY DEF Invoke, StoresOK, VInv
<1>8. RequestOK'
  <2>1. calls' \in 0..MaxCalls /\ calls' > 0
    <3>1. calls \in 0..MaxCalls /\ MaxCalls \in Nat
      BY MachineAssumption DEF VInv, RequestOK
    <3>2. calls < MaxCalls /\ calls' = calls + 1
      BY DEF Invoke
    <3> QED BY <3>1, <3>2, SMT
  <2>2. request'.call = r
    BY DEF Invoke
  <2>3. frames' # <<>> /\ frames'[1].gas = gas
    BY <1>1, <1>5
  <2> QED BY <1>4, <2>1, <2>2, <2>3 DEF RequestOK
<1> QED BY <1>6, <1>7, <1>8 DEF VInv

-----------------------------------------------------------------------------
LEMMA VInvAlways ==
    ASSUME WordsAreNumbers
    PROVE  Spec => []VInv
<1>1. Init => VInv
  <2> SUFFICES ASSUME Init PROVE VInv
    OBVIOUS
  <2>1. StoresOK
    BY SMT DEF Init, StoresOK, WordMap, BlobMap
  <2>2. TreeOK(frames)
    <3>1. <<>> \in Seq(Nat) /\ Len(<<>>) = 0 /\ MaxDepth \in Nat
      BY MachineAssumption, SMT
    <3> QED BY <3>1, SMT DEF Init, TreeOK
  <2>3. RequestOK
    BY MachineAssumption, SMT DEF Init, RequestOK
  <2> QED BY <2>1, <2>2, <2>3 DEF VInv
<1>2. VInv /\ [Next]_vars => VInv'
  <2> SUFFICES ASSUME VInv, [Next]_vars PROVE VInv'
    OBVIOUS
  <2>1. ASSUME NEW r \in Requests, Invoke(r) PROVE VInv'
    BY <2>1, InvokeKeepsInv
  <2>2. CASE Operate
    BY <2>2, OperateKeepsInv
  <2>3. CASE Store
    BY <2>3, StoreKeepsInv
  <2>4. CASE Jump
    BY <2>4, JumpKeepsInv
  <2>5. CASE Log
    BY <2>5, LogKeepsInv
  <2>6. CASE CallOut
    BY <2>6, CallOutKeepsInv
  <2>7. CASE CallRefused
    BY <2>7, CallRefusedKeepsInv
  <2>8. CASE Halt \/ EndOfCode \/ Abort
    BY <2>8, ReturnsKeepInv
  <2>9. CASE UNCHANGED vars
    <3>1. StoresOK'
      BY <2>9 DEF VInv, StoresOK, vars
    <3>2. TreeOK(frames')
      BY <2>9 DEF VInv, vars
    <3>3. RequestOK'
      BY <2>9 DEF VInv, RequestOK, vars
    <3> QED BY <3>1, <3>2, <3>3 DEF VInv
  <2> QED BY <2>1, <2>2, <2>3, <2>4, <2>5, <2>6, <2>7, <2>8, <2>9
          DEF Next, Instruction
<1> QED BY <1>1, <1>2, PTL DEF Spec

\* Gas bounds the whole tree of calls for every set of contracts, every code
\* and every request: no call uses more than it was given, the gas a frame
\* forwards it still has, and the outermost call stays within the gas of the
\* transaction (vm.ExecuteB, the clamp of CALL and the charge after it).
THEOREM GasAlwaysBounds ==
    ASSUME WordsAreNumbers
    PROVE  Spec => []GasBounded
<1>1. VInv => GasBounded
  <2> SUFFICES ASSUME VInv PROVE GasBounded
    OBVIOUS
  <2>1. \A i \in 1..Len(frames) : frames[i].used <= frames[i].gas
    BY DEF VInv, TreeOK, FrameOK
  <2>2. \A i \in 1..Len(frames) - 1 :
           frames[i].used + frames[i + 1].gas <= frames[i].gas
    BY DEF VInv, TreeOK
  <2>3. frames = <<>> /\ calls > 0 =>
           outcome.used <= request.call.gas \/ request.call.gas = 0
    BY DEF VInv, RequestOK
  <2> QED BY <2>1, <2>2, <2>3 DEF GasBounded
<1> QED BY <1>1, VInvAlways, PTL

\* The limits of ExecuteB hold in every frame of every tree of calls: the
\* depth of calls, the steps of a call and the height of its stack, the one a
\* caller resumes on included; and storage only ever holds words.
THEOREM LimitsAlwaysHold ==
    ASSUME WordsAreNumbers
    PROVE  Spec => []TypeOK
<1>1. VInv => TypeOK
  <2> SUFFICES ASSUME VInv PROVE TypeOK
    OBVIOUS
  <2>1. /\ DOMAIN storage = Contracts /\ DOMAIN bstorage = Contracts
        /\ \A c \in Contracts : \A k \in DOMAIN storage[c] : storage[c][k] \in Words
    BY DEF VInv, StoresOK, WordMap, Words
  <2>2. calls \in 0..MaxCalls
    BY DEF VInv, RequestOK
  <2>3. Len(frames) <= MaxDepth + 1
    BY DEF VInv, TreeOK
  <2>4. ASSUME NEW i \in 1..Len(frames)
        PROVE  /\ frames[i].self \in Contracts
               /\ frames[i].steps <= MaxSteps
               /\ frames[i].used \in Nat
               /\ Len(frames[i].stack) <= MaxStack
    <3>1. FrameOK(frames[i])
      BY DEF VInv, TreeOK
    <3>2. frames[i].steps \in 0..MaxSteps /\ MaxSteps \in Nat
      BY <3>1, MachineAssumption DEF FrameOK
    <3> QED BY <3>1, <3>2, SMT DEF FrameOK
  <2> QED BY <2>1, <2>2, <2>3, <2>4 DEF TypeOK
<1> QED BY <1>1, VInvAlways, PTL

\* A query changes nothing, whatever the contract does: no step taken while a
\* query runs writes storage, bytes or events (QueryContractRaw).
THEOREM QueriesNeverWrite == Spec => QueriesReadOnly
<1>1. [Next]_vars => [request'.call.query => UNCHANGED <<storage, bstorage, logs>>]_vars
  <2> SUFFICES ASSUME [Next]_vars, request'.call.query
               PROVE  UNCHANGED <<storage, bstorage, logs>>
    OBVIOUS
  <2>1. ASSUME NEW r \in Requests, Invoke(r) PROVE UNCHANGED <<storage, bstorage, logs>>
    BY <2>1 DEF Invoke
  <2>2. CASE Operate \/ Store \/ Jump \/ Log \/ CallOut \/ CallRefused
    BY <2>2 DEF Operate, Store, Jump, Log, CallOut, CallRefused, outside
  <2>3. ASSUME NEW f, NEW used, NEW ret, NEW bytes, Commit(f, used, ret, bytes)
        PROVE  UNCHANGED <<storage, bstorage, logs>>
    BY <2>3 DEF Commit
  <2>4. CASE Halt \/ EndOfCode
    BY <2>3, <2>4 DEF Halt, EndOfCode
  <2>5. CASE Abort
    BY <2>5 DEF Abort
  <2>6. CASE UNCHANGED vars
    BY <2>6 DEF vars
  <2> QED BY <2>1, <2>2, <2>4, <2>5, <2>6 DEF Next, Instruction
<1> QED BY <1>1, PTL DEF Spec, QueriesReadOnly
-----------------------------------------------------------------------------
(* Compiled code *)

\* The operands of the code are words.
IsCode(code) == Len(code) \in Nat /\ \A i \in 1..Len(code) : code[i].v \in Nat

\* A frame that runs compiled code is at an instruction or at the end; at an
\* instruction that takes a constant, the constant is on the stack; and
\* without loops it has paid for each instruction at most once.
Steady(f) ==
    f.self \in ShlContracts =>
       /\ f.pc \in 0..Len(f.code)
       /\ InCode(f) => Cell(f).op # "DATA"
       /\ InCode(f) /\ Cell(f).op \in Immediate => Arg(f, 1) = f.code[f.pc].v
       /\ LoopFree(f.code) => f.used <= Total(f.code, f.pc)

\* Compiled code makes no calls, so that only the running frame has it.
SInv ==
    /\ \A i \in 1..Len(frames) : Steady(frames[i])
    /\ \A i \in 1..Len(frames) - 1 : frames[i].self \notin ShlContracts
    /\ frames # <<>> => frames[1].self = request.call.to
    /\ EstimateSuffices

\* The code of a compiled contract.
LEMMA ShapeOfCode ==
    ASSUME WordsAreNumbers, NEW f, FrameOK(f), f.self \in ShlContracts
    PROVE  /\ Shaped(f.code)
           /\ IsCode(f.code)
<1>1. Shaped(f.code)
  BY DEF FrameOK, ShlContracts
<1> QED BY <1>1, CodeIsWords DEF IsCode

\* The total grows by the price of each cell.
LEMMA TotalStep ==
    ASSUME NEW code, IsCode(code), NEW n \in Nat, n < Len(code)
    PROVE  /\ Total(code, n) \in Nat
           /\ Total(code, n + 1) = Total(code, n) + Price(code[n + 1].op)
                + (IF code[n + 1].op = "LOG" THEN 8 * Topics(code, n + 1) ELSE 0)
<1> DEFINE Cells(p) == {i \in 1..Len(code) : Price(code[i].op) = p}
           Count(m, p) == Cardinality({i \in 1..m : Price(code[i].op) = p})
           Logs(m) == {j \in 1..m : code[j].op = "LOG"}
           Sum(m) == SumFunction([i \in Logs(m) |-> Topics(code, i)])
           op == code[n + 1].op
<1>n. Len(code) \in Nat /\ n + 1 \in 1..Len(code)
  BY SMT DEF IsCode
<1>1. ASSUME NEW p
      PROVE  /\ Count(n, p) \in Nat
             /\ Count(n + 1, p) = Count(n, p) + (IF Price(op) = p THEN 1 ELSE 0)
  <2>1. \A m \in 0..Len(code) : {i \in 1..m : Price(code[i].op) = p} = (1..m) \cap Cells(p)
    BY <1>n, SMT
  <2>2. n \in 0..Len(code) /\ n + 1 \in 0..Len(code)
    BY <1>n, SMT
  <2>3. Count(n, p) = Cardinality((1..n) \cap Cells(p))
        /\ Count(n + 1, p) = Cardinality((1..n + 1) \cap Cells(p))
    BY <2>1, <2>2
  <2>4. n + 1 \in Cells(p) <=> Price(op) = p
    BY <1>n
  <2>5. PICK T : T = Cells(p)
    OBVIOUS
  <2> HIDE DEF Cells, Count, op
  <2>6. /\ Cardinality((1..n) \cap T) \in Nat
        /\ Cardinality((1..n + 1) \cap T)
             = Cardinality((1..n) \cap T) + (IF n + 1 \in T THEN 1 ELSE 0)
    BY <1>n, CountGrow
  <2> QED BY <2>3, <2>4, <2>5, <2>6
<1>2. \A m \in 0..Len(code) : IsFiniteSet(Logs(m))
                               /\ \A i \in Logs(m) : Topics(code, i) \in Nat
  <2> TAKE m \in 0..Len(code)
  <2>1. IsFiniteSet(Logs(m))
    <3>1. IsFiniteSet(1..m)
      BY <1>n, FS_Interval, SMT
    <3> QED BY <3>1, FS_Subset
  <2>2. ASSUME NEW i \in Logs(m) PROVE Topics(code, i) \in Nat
    <3>1. i \in 1..Len(code) /\ (i > 1 => i - 1 \in 1..Len(code))
      BY <1>n, SMT
    <3> QED BY <3>1 DEF Topics, IsCode
  <2> QED BY <2>1, <2>2
<1>3. /\ Sum(n) \in Nat
      /\ Sum(n + 1) = Sum(n) + (IF op = "LOG" THEN Topics(code, n + 1) ELSE 0)
  <2> DEFINE f == [i \in Logs(n + 1) |-> Topics(code, i)]
             e == [i \in Logs(n) |-> Topics(code, i)]
  <2>0. n \in 0..Len(code) /\ n + 1 \in 0..Len(code)
    BY <1>n, SMT
  <2>1. IsFiniteSet(Logs(n)) /\ IsFiniteSet(Logs(n + 1))
        /\ e \in [Logs(n) -> Nat] /\ f \in [Logs(n + 1) -> Nat]
    BY <1>2, <2>0
  <2>2. \A i \in Logs(n) : i \in Logs(n + 1) /\ e[i] = f[i]
    BY SMT
  <2>3. n + 1 \notin Logs(n)
    BY SMT
  <2>4. op = "LOG" => Logs(n + 1) = Logs(n) \cup {n + 1} /\ f[n + 1] = Topics(code, n + 1)
    BY SMT
  <2>5. op # "LOG" => Logs(n + 1) = Logs(n)
    BY SMT
  <2>6. op # "LOG" => f = e
    BY <2>5
  <2>7. Sum(n) = SumFunction(e) /\ Sum(n + 1) = SumFunction(f)
    OBVIOUS
  <2> HIDE DEF Logs, Sum, e, f, op
  <2>8. SumFunction(e) \in Nat
    BY <2>1, SumNat
  <2>9. CASE op = "LOG"
    <3>1. f \in [Logs(n) \cup {n + 1} -> Int] /\ e \in [Logs(n) -> Int]
      BY <2>1, <2>4, <2>9, SMT
    <3>2. PICK a, B, D, g, h :
             a = n + 1 /\ B = Logs(n + 1) /\ D = Logs(n) /\ g = f /\ h = e
      OBVIOUS
    <3>3. OneMore(g, B, h, D, a)
      BY <2>1, <2>2, <2>3, <2>4, <2>9, <3>1, <3>2 DEF OneMore
    <3>4. SumFunction(g) = g[a] + SumFunction(h)
      BY <3>3, SumGrow, SMT
    <3>5. f[n + 1] \in Nat
      BY <2>1, <2>4, <2>9
    <3> QED BY <2>4, <2>7, <2>8, <2>9, <3>2, <3>4, <3>5, SMT
  <2>10. CASE op # "LOG"
    BY <2>6, <2>7, <2>8, <2>10, SMT
  <2> QED BY <2>9, <2>10
<1>4. Price(op) \in {0, 1, 3, 20, 50, 100}
  BY DEF Price
<1>5. \A m : Total(code, m) = Count(m, 1) + 3 * Count(m, 3) + 20 * Count(m, 20)
                + 50 * Count(m, 50) + 100 * Count(m, 100) + 8 * Sum(m)
  BY DEF Total
<1>6. op = "LOG" => Topics(code, n + 1) \in Nat
  <2>1. op = "LOG" => n + 1 \in Logs(n + 1)
    BY <1>n, SMT
  <2>2. n + 1 \in 0..Len(code)
    BY <1>n, SMT
  <2> QED BY <1>2, <2>1, <2>2
<1> DEFINE t == IF op = "LOG" THEN Topics(code, n + 1) ELSE 0
           One(p) == IF Price(op) = p THEN 1 ELSE 0
<1>7. t \in Nat
  BY <1>6
<1>8. \A p : Count(n, p) \in Nat /\ Count(n + 1, p) = Count(n, p) + One(p)
  BY <1>1
<1>9. Sum(n) \in Nat /\ Sum(n + 1) = Sum(n) + t
  BY <1>3
<1>10. One(1) + 3 * One(3) + 20 * One(20) + 50 * One(50) + 100 * One(100) = Price(op)
       /\ \A p : One(p) \in Nat
  BY <1>4, SMT
<1>11. Price(op) \in Nat
  BY <1>4, SMT
<1> HIDE DEF Count, Sum, op, t, One
<1>12. /\ Total(code, n) \in Nat
       /\ Total(code, n + 1) = Total(code, n) + Price(op) + 8 * t
  <2>1. PICK c1 \in Nat, c2 \in Nat, c3 \in Nat, c4 \in Nat, c5 \in Nat, s \in Nat :
             /\ c1 = Count(n, 1) /\ c2 = Count(n, 3) /\ c3 = Count(n, 20)
             /\ c4 = Count(n, 50) /\ c5 = Count(n, 100) /\ s = Sum(n)
    BY <1>8, <1>9
  <2>2. PICK o1 \in Nat, o2 \in Nat, o3 \in Nat, o4 \in Nat, o5 \in Nat :
             /\ o1 = One(1) /\ o2 = One(3) /\ o3 = One(20)
             /\ o4 = One(50) /\ o5 = One(100)
    BY <1>10
  <2>3. Total(code, n) = c1 + 3 * c2 + 20 * c3 + 50 * c4 + 100 * c5 + 8 * s
    BY <1>5, <2>1
  <2>4. Total(code, n + 1) = (c1 + o1) + 3 * (c2 + o2) + 20 * (c3 + o3)
                + 50 * (c4 + o4) + 100 * (c5 + o5) + 8 * (s + t)
    BY <1>5, <1>8, <1>9, <2>1, <2>2, SMT
  <2>5. o1 + 3 * o2 + 20 * o3 + 50 * o4 + 100 * o5 = Price(op)
    BY <1>10, <2>2
  <2>6. Total(code, n) \in Nat
    <3>1. c1 + 3 * c2 + 20 * c3 + 50 * c4 + 100 * c5 + 8 * s \in Nat
      BY SMT
    <3> QED BY <2>3, <3>1
  <2>7. PICK u \in Nat, w \in Nat : u = t /\ w = Price(op)
    BY <1>7, <1>11
  <2> QED BY <2>3, <2>4, <2>5, <2>6, <2>7, SMT
<1>13. 8 * t = IF op = "LOG" THEN 8 * Topics(code, n + 1) ELSE 0
  BY SMT DEF t
<1> QED BY <1>12, <1>13 DEF op

LEMMA TotalStarts ==
    ASSUME NEW code
    PROVE  Total(code, 0) \in Nat
<1>1. \A p : {i \in 1..0 : Price(code[i].op) = p} = {}
  BY SMT
<1>2. {j \in 1..0 : code[j].op = "LOG"} = {}
  BY SMT
<1>3. Cardinality({}) = 0 /\ IsFiniteSet({})
  BY FS_EmptySet
<1>4. [i \in {} |-> Topics(code, i)] \in [{} -> Nat]
  OBVIOUS
<1>5. PICK s \in Nat : s = SumFunction([i \in {} |-> Topics(code, i)])
  BY <1>3, <1>4, SumNat
<1>6. Total(code, 0) = 0 + 3 * 0 + 20 * 0 + 50 * 0 + 100 * 0 + 8 * s
  BY <1>1, <1>2, <1>3, <1>5, SMT DEF Total
<1>7. 0 + 3 * 0 + 20 * 0 + 50 * 0 + 100 * 0 + 8 * s \in Nat
  BY SMT
<1> QED BY <1>6, <1>7

LEMMA PriceIsNumber ==
    ASSUME NEW op
    PROVE  Price(op) \in Nat
BY DEF Price

\* The totals are numbers, and they grow with the code.
LEMMA TotalGrows ==
    ASSUME NEW code, IsCode(code), NEW m \in 0..Len(code), NEW n \in m..Len(code)
    PROVE  /\ Total(code, m) \in Nat /\ Total(code, n) \in Nat
           /\ Total(code, m) <= Total(code, n)
<1>n. Len(code) \in Nat
  BY DEF IsCode
<1> DEFINE P(k) == Total(code, k) \in Nat
           Q(k) == m + k <= Len(code) => Total(code, m) <= Total(code, m + k)
           S == {k \in Nat : k <= Len(code) => P(k)}
           T == {k \in Nat : Q(k)}
<1>1. ASSUME NEW k \in Nat, k < Len(code)
      PROVE  /\ Total(code, k) \in Nat /\ Total(code, k + 1) \in Nat
             /\ Total(code, k) <= Total(code, k + 1)
  <2>1. PICK t : t = IF code[k + 1].op = "LOG" THEN 8 * Topics(code, k + 1) ELSE 0
    OBVIOUS
  <2>2. t \in Nat
    <3>1. k + 1 \in 1..Len(code) /\ (k + 1 > 1 => k \in 1..Len(code))
      BY <1>1, <1>n, SMT
    <3>2. Topics(code, k + 1) \in Nat
      BY <3>1, SMT DEF Topics, IsCode
    <3> QED BY <2>1, <3>2, SMT
  <2>3. Price(code[k + 1].op) \in Nat
    BY PriceIsNumber
  <2>4. /\ Total(code, k) \in Nat
        /\ Total(code, k + 1) = Total(code, k) + Price(code[k + 1].op) + t
    BY <1>1, <2>1, TotalStep
  <2> QED BY <2>2, <2>3, <2>4, SMT
<1>2. S = Nat
  <2>1. 0 \in S
    BY TotalStarts
  <2>2. ASSUME NEW k \in S PROVE k + 1 \in S
    BY <1>1, <1>n, SMT
  <2> HIDE DEF S
  <2>3. S \subseteq Nat
    BY DEF S
  <2> QED BY <2>1, <2>2, <2>3, Induction
<1>3. \A k \in 0..Len(code) : Total(code, k) \in Nat
  <2>1. \A k \in 0..Len(code) : k \in Nat
    BY SMT
  <2>2. \A k \in Nat : k <= Len(code) => Total(code, k) \in Nat
    BY <1>2
  <2> QED BY <1>n, <2>2, SMT
<1>4. T = Nat
  <2>1. 0 \in T
    BY <1>3, <1>n, SMT
  <2>2. ASSUME NEW k \in T PROVE k + 1 \in T
    <3>1. k \in Nat /\ m \in Nat
      BY <1>n, SMT
    <3>2. CASE m + (k + 1) <= Len(code)
      <4>1. m + k \in Nat /\ m + k < Len(code) /\ m + (k + 1) = (m + k) + 1
        BY <1>n, <3>1, <3>2, SMT
      <4>2. Total(code, m + k) \in Nat /\ Total(code, (m + k) + 1) \in Nat
            /\ Total(code, m + k) <= Total(code, (m + k) + 1)
        BY <1>1, <4>1
      <4>3. Total(code, m) <= Total(code, m + k)
        BY <1>n, <3>1, <4>1, SMT
      <4>4. Total(code, m) \in Nat
        BY <1>3
      <4>5. Total(code, m) <= Total(code, m + (k + 1))
        BY <4>1, <4>2, <4>3, <4>4, SMT
      <4> QED BY <3>1, <4>5, SMT
    <3> QED BY <3>1, <3>2, SMT
  <2> HIDE DEF T
  <2>3. T \subseteq Nat
    BY DEF T
  <2> QED BY <2>1, <2>2, <2>3, Induction
<1>5. n - m \in Nat /\ m + (n - m) = n /\ n \in 0..Len(code) /\ n <= Len(code)
  BY <1>n, SMT
<1>6. \A k \in Nat : Q(k)
  BY <1>4
<1>7. Total(code, m) <= Total(code, n)
  BY <1>5, <1>6
<1> QED BY <1>3, <1>5, <1>7

\* After a PUSH and its operand, and after any other instruction, there is an
\* instruction or the end.
LEMMA NextCell ==
    ASSUME NEW code, IsCode(code), Shaped(code),
           NEW p \in Nat, p < Len(code), code[p + 1].op # "DATA"
    PROVE  /\ code[p + 1].op = "PUSH" =>
                /\ p + 2 <= Len(code)
                /\ code[p + 2].op = "DATA"
                /\ p + 2 < Len(code) => code[p + 3].op # "DATA"
           /\ code[p + 1].op # "PUSH" /\ p + 1 < Len(code) =>
                code[p + 2].op \notin Immediate \cup {"DATA"}
<1>n. Len(code) \in Nat /\ p + 1 \in 1..Len(code)
  BY SMT DEF IsCode
<1>1. ASSUME NEW i \in 1..Len(code)
      PROVE  /\ code[i].op = "PUSH" => i < Len(code) /\ code[i + 1].op = "DATA"
             /\ code[i].op = "DATA" => code[i - 1].op = "PUSH"
             /\ code[i].op \in Immediate => code[i - 1].op = "DATA"
  BY DEF Shaped
<1>2. ASSUME code[p + 1].op = "PUSH"
      PROVE  /\ p + 2 <= Len(code)
             /\ code[p + 2].op = "DATA"
             /\ p + 2 < Len(code) => code[p + 3].op # "DATA"
  <2>1. p + 1 < Len(code) /\ code[(p + 1) + 1].op = "DATA" /\ (p + 1) + 1 = p + 2
    BY <1>1, <1>2, <1>n, SMT
  <2>2. p + 2 < Len(code) => p + 3 \in 1..Len(code) /\ (p + 3) - 1 = p + 2
    BY <1>n, SMT
  <2>3. p + 2 < Len(code) => (code[p + 3].op = "DATA" => code[p + 2].op = "PUSH")
    BY <1>1, <2>2
  <2> QED BY <1>n, <2>1, <2>3, SMT
<1>3. ASSUME code[p + 1].op # "PUSH", p + 1 < Len(code)
      PROVE  code[p + 2].op \notin Immediate \cup {"DATA"}
  <2>1. p + 2 \in 1..Len(code) /\ (p + 2) - 1 = p + 1
    BY <1>3, <1>n, SMT
  <2>2. /\ code[p + 2].op = "DATA" => code[p + 1].op = "PUSH"
        /\ code[p + 2].op \in Immediate => code[p + 1].op = "DATA"
    BY <1>1, <2>1
  <2> QED BY <1>3, <2>2
<1> QED BY <1>2, <1>3

\* A jump of compiled code leads to an instruction or to the end.
LEMMA JumpLands ==
    ASSUME NEW code, IsCode(code), Shaped(code),
           NEW p \in Nat, p < Len(code), code[p + 1].op \in {"JUMP", "JUMPI"}
    PROVE  /\ int(code[p].v) = code[p].v /\ code[p].v \in Nat
           /\ code[p].v < Len(code) => code[code[p].v + 1].op \notin Immediate \cup {"DATA"}
           /\ LoopFree(code) => code[p].v >= p + 1
<1>n. Len(code) \in Nat /\ p + 1 \in 1..Len(code) /\ (p + 1) - 1 = p
  BY SMT DEF IsCode
<1>1. /\ p + 1 > 1
      /\ code[p].v < Word \div 2
      /\ Landing(code, code[p].v)
  <2>1. code[p + 1].op \in Immediate
    BY DEF Immediate
  <2> QED BY <1>n, <2>1 DEF Shaped
<1>2. p \in 1..Len(code) /\ p + 1 \in 2..Len(code)
  BY <1>1, <1>n, SMT
<1>3. code[p].v \in Nat
  BY <1>2 DEF IsCode
<1>4. int(code[p].v) = code[p].v
  <2>1. Word \div 2 \in Nat
    BY Quotient, MachineAssumption, SMT
  <2>2. ~ (code[p].v >= Word \div 2)
    BY <1>1, <1>3, <2>1, SMT
  <2> QED BY <2>2 DEF int
<1>5. LoopFree(code) => code[p].v >= p + 1
  BY <1>2, <1>n DEF LoopFree
<1> QED BY <1>1, <1>3, <1>4, <1>5 DEF Landing

\* The schedule of ExecuteB is the one Estimate uses.
LEMMA CostIsPrice ==
    ASSUME WordsAreNumbers, NEW f, FrameOK(f), f.self \in ShlContracts, Steady(f), InCode(f)
    PROVE  /\ f.pc \in Nat /\ f.pc < Len(f.code)
           /\ Cell(f).op \in Emitted
           /\ Total(f.code, f.pc) \in Nat
           /\ Total(f.code, f.pc + 1) = Total(f.code, f.pc) + Cost(f)
<1>1. f.pc \in Nat /\ f.pc < Len(f.code) /\ Cell(f).op # "DATA"
  BY SMT DEF Steady, InCode
<1>2. Shaped(f.code) /\ IsCode(f.code)
  BY ShapeOfCode
<1>3. f.pc + 1 \in 1..Len(f.code)
  BY <1>1, <1>2, SMT DEF IsCode
<1> DEFINE op == f.code[f.pc + 1].op
<1>4. op \in Emitted
  BY <1>1, <1>2, <1>3 DEF Shaped, Cell
<1>5. gasCost(op) = Price(op)
  BY <1>4, SMT DEF gasCost, Price, Emitted, Stores
<1>6. op = "LOG" => Arg(f, 1) = Topics(f.code, f.pc + 1)
  <2> SUFFICES ASSUME op = "LOG" PROVE Arg(f, 1) = Topics(f.code, f.pc + 1)
    OBVIOUS
  <2>1. op \in Immediate
    BY DEF Immediate
  <2>2. f.pc + 1 > 1 /\ f.code[(f.pc + 1) - 1].op = "DATA"
    BY <1>2, <1>3, <2>1 DEF Shaped
  <2>3. (f.pc + 1) - 1 = f.pc
    BY <1>1, SMT
  <2>4. Arg(f, 1) = f.code[f.pc].v
    BY <2>1 DEF Steady, Cell
  <2> QED BY <2>2, <2>3, <2>4 DEF Topics
<1>7. Cost(f) = Price(op) + (IF op = "LOG" THEN 8 * Topics(f.code, f.pc + 1) ELSE 0)
  BY <1>5, <1>6 DEF Cost, Cell
<1>8. PICK t : t = IF op = "LOG" THEN 8 * Topics(f.code, f.pc + 1) ELSE 0
  OBVIOUS
<1>9. /\ Total(f.code, f.pc) \in Nat
      /\ Total(f.code, f.pc + 1) = Total(f.code, f.pc) + Price(op) + t
  BY <1>1, <1>2, <1>8, TotalStep
<1>10. Cost(f) \in Nat /\ Price(op) \in Nat
  BY CostIsNumber, PriceIsNumber
<1>11. t \in Nat
  <2>1. Arg(f, 1) \in Nat
    BY ArgIsWord, SMT
  <2> QED BY <1>6, <1>8, <2>1, SMT
<1>12. Total(f.code, f.pc + 1) = Total(f.code, f.pc) + Cost(f)
  <2>1. Cost(f) = Price(op) + t
    BY <1>7, <1>8
  <2> HIDE DEF op
  <2> QED BY <1>9, <1>10, <1>11, <2>1, SMT
<1> QED BY <1>1, <1>4, <1>9, <1>12 DEF Cell

\* A frame that has paid for its instruction and is where the instruction
\* leads is steady again.
LEMMA SteadyAfter ==
    ASSUME WordsAreNumbers, NEW f, FrameOK(f), f.self \in ShlContracts, Steady(f),
           InCode(f), Runs(f), NEW g,
           g.self = f.self, g.code = f.code, g.used = f.used + Cost(f),
           \/ /\ Cell(f).op = "PUSH"
              /\ g.pc = f.pc + 2
              /\ Arg(g, 1) = f.code[f.pc + 2].v
           \/ Cell(f).op # "PUSH" /\ g.pc = f.pc + 1
           \/ Cell(f).op = "JUMP" /\ g.pc = int(Arg(f, 1))
           \/ Cell(f).op = "JUMPI" /\ Arg(f, 2) # 0 /\ g.pc = int(Arg(f, 1))
    PROVE  Steady(g)
<1> DEFINE code == f.code
           p == f.pc
           op == code[p + 1].op
<1>0. Cell(f).op = op
  BY DEF Cell
<1>1. /\ p \in Nat /\ p < Len(code) /\ op \in Emitted
      /\ Total(code, p) \in Nat
      /\ Total(code, p + 1) = Total(code, p) + Cost(f)
  BY <1>0, CostIsPrice
<1>2. Shaped(code) /\ IsCode(code) /\ Len(code) \in Nat
  BY ShapeOfCode DEF IsCode
<1>3. op # "DATA"
  BY <1>1 DEF Emitted
<1>4. f.used \in Nat /\ Cost(f) \in Nat
  BY CostIsNumber DEF FrameOK
<1>5. LoopFree(code) => f.used <= Total(code, p)
  BY DEF Steady
<1>6. LoopFree(code) => g.used <= Total(code, p + 1)
  <2> HIDE DEF code, p, op
  <2> QED BY <1>1, <1>4, <1>5, SMT
<1>u. ASSUME NEW d \in Nat, d >= p + 1, d <= Len(code)
      PROVE  LoopFree(code) => g.used <= Total(code, d)
  <2>1. p + 1 \in 0..Len(code) /\ d \in (p + 1)..Len(code)
    BY <1>1, <1>2, <1>u, SMT
  <2>2. /\ Total(code, p + 1) \in Nat /\ Total(code, d) \in Nat
        /\ Total(code, p + 1) <= Total(code, d)
    <3> HIDE DEF code, p
    <3> QED BY <1>2, <2>1, TotalGrows
  <2>3. g.used \in Nat
    BY <1>4, SMT
  <2> HIDE DEF code, p
  <2> QED BY <1>6, <2>2, <2>3, SMT
<1>s. ASSUME NEW d \in Nat, g.pc = d, d <= Len(code),
             d < Len(code) => code[d + 1].op # "DATA",
             d < Len(code) /\ code[d + 1].op \in Immediate => Arg(g, 1) = code[d].v,
             LoopFree(code) => d >= p + 1
      PROVE  Steady(g)
  <2>1. g.pc \in 0..Len(g.code)
    BY <1>2, <1>s, SMT
  <2>2. InCode(g) => Cell(g).op # "DATA"
    BY <1>s DEF InCode, Cell
  <2>3. InCode(g) /\ Cell(g).op \in Immediate => Arg(g, 1) = g.code[g.pc].v
    BY <1>s DEF InCode, Cell
  <2>4. LoopFree(g.code) => g.used <= Total(g.code, g.pc)
    BY <1>s, <1>u
  <2> QED BY <2>1, <2>2, <2>3, <2>4 DEF Steady
<1>7. CASE Cell(f).op = "PUSH" /\ g.pc = p + 2 /\ Arg(g, 1) = code[p + 2].v
  <2>1. /\ p + 2 <= Len(code)
        /\ p + 2 < Len(code) => code[p + 3].op # "DATA"
    <3> HIDE DEF code, p
    <3> QED BY <1>0, <1>1, <1>2, <1>3, <1>7, NextCell
  <2>2. p + 2 \in Nat /\ (p + 2) + 1 = p + 3 /\ p + 2 >= p + 1
    BY <1>1, SMT
  <2> HIDE DEF code, p
  <2> QED BY <1>7, <1>s, <2>1, <2>2, SMT
<1>8. CASE Cell(f).op # "PUSH" /\ g.pc = p + 1
  <2>1. p + 1 < Len(code) => code[p + 2].op \notin Immediate \cup {"DATA"}
    <3> HIDE DEF code, p
    <3> QED BY <1>0, <1>1, <1>2, <1>3, <1>8, NextCell
  <2>2. p + 1 \in Nat /\ (p + 1) + 1 = p + 2 /\ p + 1 >= p + 1 /\ p + 1 <= Len(code)
    BY <1>1, <1>2, SMT
  <2> HIDE DEF code, p
  <2> QED BY <1>8, <1>s, <2>1, <2>2
<1>9. CASE /\ Cell(f).op \in {"JUMP", "JUMPI"} /\ g.pc = int(Arg(f, 1))
           /\ Cell(f).op = "JUMPI" => Arg(f, 2) # 0
  <2>1. Arg(f, 1) = code[p].v
    <3>1. Cell(f).op \in Immediate
      BY <1>9 DEF Immediate
    <3> QED BY <3>1 DEF Steady
  <2>2. int(Arg(f, 1)) < Len(code)
    BY <1>9 DEF Runs
  <2> HIDE DEF code, p
  <2>3. /\ int(code[p].v) = code[p].v /\ code[p].v \in Nat
        /\ code[p].v < Len(code) => code[code[p].v + 1].op \notin Immediate \cup {"DATA"}
        /\ LoopFree(code) => code[p].v >= p + 1
    BY <1>0, <1>1, <1>2, <1>9, JumpLands
  <2>4. PICK d \in Nat : d = code[p].v
    BY <2>3
  <2>5. /\ g.pc = d /\ d < Len(code) /\ code[d + 1].op \notin Immediate \cup {"DATA"}
        /\ LoopFree(code) => d >= p + 1
    BY <1>9, <2>1, <2>2, <2>3, <2>4
  <2>6. d <= Len(code)
    BY <1>2, <2>5, SMT
  <2> QED BY <1>s, <2>5, <2>6
<1> QED BY <1>7, <1>8, <1>9

LEMMA StepFields ==
    ASSUME NEW f, FrameOK(f), NEW pushed
    PROVE  /\ IsRecord(Step(f, pushed))
           /\ Step(f, pushed).self = f.self
           /\ Step(f, pushed).code = f.code
           /\ Step(f, pushed).used = f.used + Cost(f)
           /\ Step(f, pushed).pc = f.pc + (IF Cell(f).op = "PUSH" THEN 2 ELSE 1)
           /\ Step(f, pushed).stack = Below(f, Pops(Cell(f).op)) \o pushed
<1>1. IsRecord(f)
  BY DEF FrameOK
<1> QED BY <1>1 DEF Step, IsRecord, Fields

\* The constant of a PUSH is on the stack after it.
LEMMA PushFields ==
    ASSUME NEW f, FrameOK(f), Runs(f), Cell(f).op = "PUSH"
    PROVE  Arg(Step(f, Result(f)), 1) = f.code[f.pc + 2].v
<1> DEFINE v == f.code[f.pc + 2].v
           s == Below(f, 0)
           g == Step(f, Result(f))
<1>1. Result(f) = <<v>>
  <2>1. HasOperand(f)
    BY DEF Runs
  <2> QED BY <2>1 DEF Result, Operand
<1>2. Pops("PUSH") = 0
  BY DEF Pops, Binary, Unary
<1>3. g.stack = s \o <<v>>
  BY <1>1, <1>2, StepFields
<1>4. s \in Seq(Nat)
  <2>1. 0 \in 0..Len(f.stack)
    BY SMT DEF FrameOK
  <2> QED BY <2>1, BelowIsStack
<1> HIDE DEF v, s, g
<1>5. Len(s \o <<v>>) = Len(s) + 1 /\ (s \o <<v>>)[Len(s) + 1] = v
  BY <1>4, SMT
<1>6. 1 <= Len(g.stack) /\ Len(g.stack) - 1 + 1 = Len(s) + 1
  BY <1>3, <1>4, <1>5, SMT
<1>7. Arg(g, 1) = v
  BY <1>3, <1>5, <1>6 DEF Arg
<1> QED BY <1>7 DEF g, v

-----------------------------------------------------------------------------
(* Compiled code: instructions that stay in the running frame *)

LEMMA SetTopFrames ==
    ASSUME TreeOK(frames), frames # <<>>, NEW g
    PROVE  /\ Len(frames) \in Nat \ {0}
           /\ Len(SetTop(g)) = Len(frames)
           /\ \A i \in 1..Len(frames) :
                 SetTop(g)[i] = IF i = Len(frames) THEN g ELSE frames[i]
<1>1. PICK S : frames \in Seq(S)
  BY DEF TreeOK
<1>2. Len(frames) \in Nat \ {0} /\ DOMAIN frames = 1..Len(frames)
  BY <1>1, SMT
<1>3. frames \in Seq(S \cup {g})
  BY <1>1, SMT
<1> QED BY <1>1, <1>2, <1>3, SMT DEF SetTop

\* Replacing the running frame by one of the same contract.
LEMMA AdvanceKeepsSteady ==
    ASSUME VInv, SInv, frames # <<>>, NEW g, g.self = Top.self, Steady(g),
           frames' = SetTop(g), UNCHANGED outside
    PROVE  SInv'
<1> DEFINE n == Len(frames)
           fs == SetTop(g)
<1>1. /\ n \in Nat \ {0} /\ Len(fs) = n
      /\ \A i \in 1..n : fs[i] = IF i = n THEN g ELSE frames[i]
  BY SetTopFrames DEF VInv
<1>2. Top = frames[n]
  BY DEF Top
<1>3. frames' = fs /\ request' = request
  BY DEF outside
<1> HIDE DEF n, fs
<1>4. \A i \in 1..n : Steady(frames[i])
  BY DEF SInv, n
<1>5. \A i \in 1..n : Steady(fs[i])
  BY <1>1, <1>4
<1>6. \A i \in 1..n - 1 : fs[i].self \notin ShlContracts
  <2>1. \A i \in 1..n - 1 : i \in 1..n /\ i # n /\ frames[i].self \notin ShlContracts
    BY <1>1, SMT DEF SInv, n
  <2> QED BY <1>1, <2>1
<1>7. fs[1].self = frames[1].self /\ fs # <<>>
  BY <1>1, <1>2, SMT
<1>8. EstimateSuffices'
  BY <1>3, <1>7 DEF EstimateSuffices
<1>9. \A i \in 1..Len(frames') : Steady(frames'[i])
  BY <1>1, <1>3, <1>5
<1>10. (\A i \in 1..Len(frames) : Steady(frames[i]))'
  BY <1>9 DEF Steady, InCode, Cell, Arg
<1>11. \A i \in 1..Len(frames') - 1 : frames'[i].self \notin ShlContracts
  BY <1>1, <1>3, <1>6
<1> QED BY <1>3, <1>7, <1>8, <1>10, <1>11 DEF SInv

LEMMA OperateKeepsSteady ==
    ASSUME WordsAreNumbers, VInv, SInv, Operate
    PROVE  SInv'
<1> DEFINE f == Top
           g == Step(f, Result(f))
<1>1. /\ frames # <<>> /\ InCode(f) /\ Cell(f).op \in Simple /\ Runs(f)
      /\ frames' = SetTop(g) /\ UNCHANGED outside
  BY DEF Operate, Fetch
<1>2. FrameOK(f) /\ Len(frames) \in 1..Len(frames)
  BY <1>1, TopIsFrame, SMT DEF VInv
<1>3. Steady(f)
  BY <1>2 DEF SInv, Top
<1>4. /\ g.self = f.self /\ g.code = f.code /\ g.used = f.used + Cost(f)
      /\ g.pc = f.pc + (IF Cell(f).op = "PUSH" THEN 2 ELSE 1)
  BY <1>2, StepFields
<1>5. Cell(f).op = "PUSH" => Arg(g, 1) = f.code[f.pc + 2].v
  BY <1>1, <1>2, PushFields
<1> HIDE DEF f, g
<1>6. Steady(g)
  <2>1. CASE f.self \in ShlContracts
    BY <1>1, <1>2, <1>3, <1>4, <1>5, <2>1, SteadyAfter
  <2>2. CASE f.self \notin ShlContracts
    BY <1>4, <2>2 DEF Steady
  <2> QED BY <2>1, <2>2
<1> QED BY <1>1, <1>4, <1>6, AdvanceKeepsSteady DEF f

LEMMA StoreKeepsSteady ==
    ASSUME WordsAreNumbers, VInv, SInv, Store
    PROVE  SInv'
<1> DEFINE f == Top
           op == Cell(f).op
           blob == CASE op = "BSTORE" -> Slice(f.input, Arg(f, 2), Arg(f, 3))
                     [] op = "CALLERB" -> f.from
                     [] OTHER -> AddressBytes(f.self)
           g == Step(f, <<>>)
           w == With(f.work, Arg(f, 2), Arg(f, 1))
           bw == With(f.bwork, Arg(f, 1), blob)
           h == IF op = "SSTORE" THEN [g EXCEPT !.work = w] ELSE [g EXCEPT !.bwork = bw]
<1>1. /\ frames # <<>> /\ InCode(f) /\ Runs(f) /\ op \in Stores
      /\ frames' = SetTop(h) /\ UNCHANGED outside
  BY DEF Store, Fetch
<1>2. FrameOK(f) /\ Len(frames) \in 1..Len(frames)
  BY <1>1, TopIsFrame, SMT DEF VInv
<1>3. Steady(f)
  BY <1>2 DEF SInv, Top
<1>4. op # "PUSH"
  BY <1>1 DEF Stores
<1>5. /\ IsRecord(g) /\ g.self = f.self /\ g.code = f.code /\ g.used = f.used + Cost(f)
      /\ g.pc = f.pc + 1
  BY <1>2, <1>4, StepFields
<1>6. h.self = f.self /\ h.code = f.code /\ h.used = f.used + Cost(f) /\ h.pc = f.pc + 1
  <2> HIDE DEF g, f, op, w, bw
  <2> QED BY <1>5 DEF IsRecord, Fields
<1> HIDE DEF f, h
<1>7. Steady(h)
  <2>1. CASE f.self \in ShlContracts
    BY <1>1, <1>2, <1>3, <1>4, <1>6, <2>1, SteadyAfter
  <2>2. CASE f.self \notin ShlContracts
    BY <1>6, <2>2 DEF Steady
  <2> QED BY <2>1, <2>2
<1> QED BY <1>1, <1>6, <1>7, AdvanceKeepsSteady DEF f

LEMMA JumpKeepsSteady ==
    ASSUME WordsAreNumbers, VInv, SInv, Jump
    PROVE  SInv'
<1> DEFINE f == Top
           taken == Cell(f).op = "JUMP" \/ Arg(f, 2) # 0
           d == IF taken THEN int(Arg(f, 1)) ELSE f.pc + 1
           g == Step(f, <<>>)
           h == [g EXCEPT !.pc = d]
<1>1. /\ frames # <<>> /\ InCode(f) /\ Runs(f) /\ Cell(f).op \in {"JUMP", "JUMPI"}
      /\ frames' = SetTop(h) /\ UNCHANGED outside
  BY DEF Jump, Fetch
<1>2. FrameOK(f) /\ Len(frames) \in 1..Len(frames)
  BY <1>1, TopIsFrame, SMT DEF VInv
<1>3. Steady(f)
  BY <1>2 DEF SInv, Top
<1>4. IsRecord(g) /\ g.self = f.self /\ g.code = f.code /\ g.used = f.used + Cost(f)
  BY <1>2, StepFields
<1>5. h.self = f.self /\ h.code = f.code /\ h.used = f.used + Cost(f) /\ h.pc = d
  <2> HIDE DEF g, f, d
  <2> QED BY <1>4 DEF IsRecord, Fields
<1> HIDE DEF f, h
<1>6. Steady(h)
  <2>1. CASE f.self \in ShlContracts
    <3>1. CASE taken
      <4>1. h.pc = int(Arg(f, 1))
        BY <1>5, <3>1
      <4> QED BY <1>1, <1>2, <1>3, <1>5, <2>1, <3>1, <4>1, SteadyAfter
    <3>2. CASE ~ taken
      <4>1. h.pc = f.pc + 1
        BY <1>5, <3>2
      <4> QED BY <1>1, <1>2, <1>3, <1>5, <2>1, <4>1, SteadyAfter
    <3> QED BY <3>1, <3>2
  <2>2. CASE f.self \notin ShlContracts
    BY <1>5, <2>2 DEF Steady
  <2> QED BY <2>1, <2>2
<1> QED BY <1>1, <1>5, <1>6, AdvanceKeepsSteady DEF f

LEMMA LogKeepsSteady ==
    ASSUME WordsAreNumbers, VInv, SInv, Log
    PROVE  SInv'
<1> DEFINE f == Top
           n == Arg(f, 1)
           topics == SubSeq(f.stack, Len(f.stack) - n, Len(f.stack) - 1)
           g == Step(f, <<>>)
           st == Below(f, n + 1)
           l == Append(f.logs, topics)
           h == [g EXCEPT !.stack = st, !.logs = l]
<1>1. /\ frames # <<>> /\ InCode(f) /\ Runs(f) /\ Cell(f).op = "LOG"
      /\ frames' = SetTop(h) /\ UNCHANGED outside
  BY DEF Log, Fetch
<1>2. FrameOK(f) /\ Len(frames) \in 1..Len(frames)
  BY <1>1, TopIsFrame, SMT DEF VInv
<1>3. Steady(f)
  BY <1>2 DEF SInv, Top
<1>4. /\ IsRecord(g) /\ g.self = f.self /\ g.code = f.code /\ g.used = f.used + Cost(f)
      /\ g.pc = f.pc + 1
  BY <1>1, <1>2, StepFields
<1>5. h.self = f.self /\ h.code = f.code /\ h.used = f.used + Cost(f) /\ h.pc = f.pc + 1
  <2> HIDE DEF g, f, st, l
  <2> QED BY <1>4 DEF IsRecord, Fields
<1> HIDE DEF f, h
<1>6. Steady(h)
  <2>1. CASE f.self \in ShlContracts
    BY <1>1, <1>2, <1>3, <1>5, <2>1, SteadyAfter
  <2>2. CASE f.self \notin ShlContracts
    BY <1>5, <2>2 DEF Steady
  <2> QED BY <2>1, <2>2
<1> QED BY <1>1, <1>5, <1>6, AdvanceKeepsSteady DEF f

\* Compiled code has no CALL.
LEMMA NoCalls ==
    ASSUME WordsAreNumbers, NEW f, FrameOK(f), Steady(f), InCode(f), Cell(f).op = "CALL"
    PROVE  f.self \notin ShlContracts
<1> SUFFICES ASSUME f.self \in ShlContracts PROVE FALSE
  OBVIOUS
<1>1. Cell(f).op \in Emitted
  BY CostIsPrice
<1> QED BY <1>1 DEF Emitted

LEMMA CallRefusedKeepsSteady ==
    ASSUME WordsAreNumbers, VInv, SInv, CallRefused
    PROVE  SInv'
<1> DEFINE f == Top
           g == Step(f, <<0>>)
<1>1. /\ frames # <<>> /\ InCode(f) /\ Runs(f) /\ Cell(f).op = "CALL"
      /\ frames' = SetTop(g) /\ UNCHANGED outside
  BY DEF CallRefused, Fetch
<1>2. FrameOK(f) /\ Len(frames) \in 1..Len(frames)
  BY <1>1, TopIsFrame, SMT DEF VInv
<1>3. Steady(f)
  BY <1>2 DEF SInv, Top
<1>4. g.self = f.self
  BY <1>2, StepFields
<1> HIDE DEF f, g
<1>5. Steady(g)
  <2>1. f.self \notin ShlContracts
    BY <1>1, <1>2, <1>3, NoCalls
  <2> QED BY <1>4, <2>1 DEF Steady
<1> QED BY <1>1, <1>4, <1>5, AdvanceKeepsSteady DEF f

-----------------------------------------------------------------------------
(* Compiled code: calls and returns *)

\* A call starts at an instruction.
LEMMA NewIsSteady ==
    ASSUME WordsAreNumbers, NEW c, NEW caller, NEW from, NEW input, NEW value, NEW gas,
           c \in Contracts
    PROVE  /\ Steady(Frame(c, caller, from, input, value, gas))
           /\ Frame(c, caller, from, input, value, gas).self = c
<1> DEFINE g == Frame(c, caller, from, input, value, gas)
<1>1. g.self = c /\ g.code = Code[c] /\ g.used = 0 /\ g.pc = 0
  BY DEF Frame
<1> HIDE DEF g
<1>2. ASSUME c \in ShlContracts PROVE Steady(g)
  <2>1. PICK S : Code[c] \in Seq(S)
    BY DEF WordsAreNumbers
  <2>2. Len(g.code) \in Nat /\ Shaped(g.code)
    BY <1>1, <1>2, <2>1, SMT DEF ShlContracts
  <2>3. InCode(g) => Cell(g).op \notin Immediate \cup {"DATA"}
    <3> SUFFICES ASSUME InCode(g) PROVE Cell(g).op \notin Immediate \cup {"DATA"}
      OBVIOUS
    <3>1. 1 \in 1..Len(g.code) /\ Cell(g) = g.code[1]
      BY <1>1, <2>2, SMT DEF InCode, Cell
    <3> QED BY <2>2, <3>1, SMT DEF Shaped
  <2>4. g.used <= Total(g.code, g.pc)
    <3>1. Total(g.code, 0) \in Nat
      BY TotalStarts
    <3> QED BY <1>1, <3>1, SMT
  <2>5. g.pc \in 0..Len(g.code)
    BY <1>1, <2>2, SMT
  <2> QED BY <2>3, <2>4, <2>5 DEF Steady
<1>3. c \notin ShlContracts => Steady(g)
  BY <1>1 DEF Steady
<1> QED BY <1>1, <1>2, <1>3 DEF g

\* SInv of the next state, from its frames.
LEMMA SteadyFrames ==
    ASSUME NEW fs, frames' = fs, fs # <<>>,
           \A i \in 1..Len(fs) : Steady(fs[i]),
           \A i \in 1..Len(fs) - 1 : fs[i].self \notin ShlContracts,
           fs[1].self = request'.call.to
    PROVE  SInv'
<1>1. \A i \in 1..Len(frames') : Steady(frames'[i])
  OBVIOUS
<1>2. (\A i \in 1..Len(frames) : Steady(frames[i]))'
  BY <1>1 DEF Steady, InCode, Cell, Arg
<1>3. EstimateSuffices'
  BY DEF EstimateSuffices
<1> QED BY <1>2, <1>3 DEF SInv

LEMMA CallOutKeepsSteady ==
    ASSUME WordsAreNumbers, VInv, SInv, CallOut
    PROVE  SInv'
<1> DEFINE f == Top
           g == Step(f, <<>>)
           new == Frame(Arg(f, 3), f.self, <<>>, <<Arg(f, 2)>>, 0, Forward(f))
           up == SetTop(g)
           n == Len(frames)
           fs == Append(up, new)
<1>1. /\ frames # <<>> /\ InCode(f) /\ Runs(f) /\ Cell(f).op = "CALL" /\ Callable(f)
      /\ frames' = fs /\ UNCHANGED outside
  BY DEF CallOut, Fetch
<1>2. FrameOK(f) /\ n \in 1..n
  BY <1>1, TopIsFrame, SMT DEF VInv
<1>3. Steady(f)
  BY <1>2 DEF SInv, Top
<1>4. f.self \notin ShlContracts
  BY <1>1, <1>2, <1>3, NoCalls
<1>5. g.self = f.self
  BY <1>2, StepFields
<1>6. Steady(new)
  <2>1. Arg(f, 3) \in Contracts
    BY <1>1 DEF Callable
  <2> QED BY <2>1, NewIsSteady
<1>7. /\ n \in Nat \ {0} /\ Len(up) = n
      /\ \A i \in 1..n : up[i] = IF i = n THEN g ELSE frames[i]
  BY <1>1, SetTopFrames DEF VInv
<1>8. f = frames[n]
  BY DEF Top
<1>9. TreeOK(frames)
  BY DEF VInv
<1>10. PICK S : frames \in Seq(S)
  BY <1>9 DEF TreeOK
<1>11. up \in Seq(S \cup {g, new})
  <2>1. frames \in Seq(S \cup {g, new}) /\ DOMAIN frames = 1..n
    BY <1>10, SMT
  <2> HIDE DEF g, new
  <2> QED BY <1>7, <2>1, SMT DEF SetTop
<1> HIDE DEF f, g, new, up
<1>12. Len(fs) = n + 1 /\ fs[n + 1] = new /\ \A i \in 1..n : fs[i] = up[i]
  <2> HIDE DEF n
  <2> QED BY <1>7, <1>11, SMT
<1> HIDE DEF fs
<1>13. \A i \in 1..n : Steady(fs[i]) /\ fs[i].self = frames[i].self
  <2>1. Steady(g)
    BY <1>4, <1>5 DEF Steady
  <2>2. \A i \in 1..n : Steady(frames[i])
    BY DEF SInv
  <2> QED BY <1>5, <1>7, <1>8, <1>12, <2>1, <2>2
<1>14. \A i \in 1..n : fs[i].self \notin ShlContracts
  <2>1. \A i \in 1..n : i = n \/ i \in 1..n - 1
    BY <1>7, SMT
  <2>2. \A i \in 1..n - 1 : frames[i].self \notin ShlContracts
    BY DEF SInv
  <2> QED BY <1>4, <1>8, <1>13, <2>1, <2>2
<1>15. \A i \in 1..n + 1 : i \in 1..n \/ i = n + 1
  BY <1>7, SMT
<1> HIDE DEF n
<1>16. \A i \in 1..Len(fs) : Steady(fs[i])
  BY <1>6, <1>12, <1>13, <1>15
<1>17. \A i \in 1..Len(fs) - 1 : fs[i].self \notin ShlContracts
  <2>1. Len(fs) - 1 = n
    BY <1>7, <1>12, SMT
  <2> QED BY <1>14, <2>1
<1>18. fs[1].self = request'.call.to /\ fs # <<>>
  <2>1. frames[1].self = request.call.to /\ request' = request
    BY <1>1 DEF SInv, outside
  <2>2. 1 \in 1..n /\ Len(fs) # 0
    BY <1>7, <1>12, SMT
  <2> QED BY <1>13, <2>1, <2>2, SMT
<1> QED BY <1>1, <1>16, <1>17, <1>18, SteadyFrames

\* The caller that resumes does not run compiled code.
LEMMA ResumeKeepsSteady ==
    ASSUME VInv, SInv, frames # <<>>, Callers # <<>>, NEW used, NEW v,
           frames' = Resume(used, v), request' = request
    PROVE  SInv'
<1> DEFINE n == Len(frames) - 1
           f == frames[n]
           g == [f EXCEPT !.used = f.used + used, !.stack = Append(f.stack, v)]
           fs == Resume(used, v)
<1>0. TreeOK(frames)
  BY DEF VInv
<1>1. PICK S : frames \in Seq(S)
  BY <1>0 DEF TreeOK
<1>2. Len(frames) \in Nat /\ Len(frames) # 0
  BY <1>1, SMT
<1>3. /\ Callers \in Seq(S) /\ Len(Callers) = n
      /\ \A i \in 1..n : Callers[i] = frames[i]
  BY <1>1, <1>2, SMT DEF Callers
<1>4. n \in Nat \ {0}
  BY <1>2, <1>3, SMT
<1>5. Callers \in Seq(S \cup {g})
  BY <1>3, SMT
<1>6. fs = [Callers EXCEPT ![n] = g]
  <2>1. n \in 1..n /\ Len(Callers) = n
    BY <1>3, <1>4, SMT
  <2>2. Callers[Len(Callers)] = f
    BY <1>3, <2>1
  <2> HIDE DEF n, f
  <2> QED BY <2>1, <2>2 DEF Resume
<1>7. /\ Len(fs) = n
      /\ \A i \in 1..n : fs[i] = IF i = n THEN g ELSE frames[i]
  <2> HIDE DEF g, fs, n
  <2> QED BY <1>3, <1>4, <1>5, <1>6, SMT
<1>8. g.self = f.self
  <2>0. n = Len(frames) - 1
    OBVIOUS
  <2>1. n \in 1..Len(frames)
    <3> HIDE DEF n
    <3> QED BY <1>2, <1>4, <2>0, SMT
  <2>2. IsRecord(f)
    BY <1>0, <2>1 DEF TreeOK, FrameOK
  <2> HIDE DEF f
  <2> QED BY <2>2 DEF IsRecord, Fields
<1> HIDE DEF g, fs
<1>9. \A i \in 1..n : fs[i].self = frames[i].self
  BY <1>7, <1>8
<1>10. \A i \in 1..n : frames[i].self \notin ShlContracts
  BY DEF SInv
<1> HIDE DEF n
<1>11. \A i \in 1..Len(fs) : fs[i].self \notin ShlContracts
  BY <1>7, <1>9, <1>10
<1>12. \A i \in 1..Len(fs) : Steady(fs[i])
  BY <1>11 DEF Steady
<1>13. fs # <<>> /\ fs[1].self = request'.call.to
  <2>1. frames[1].self = request.call.to
    BY DEF SInv
  <2>2. 1 \in 1..n
    BY <1>4, SMT
  <2> QED BY <1>4, <1>7, <1>9, <2>1, <2>2
<1>14. \A i \in 1..Len(fs) - 1 : i \in 1..Len(fs)
  BY <1>4, <1>7, SMT
<1>15. frames' = fs
  BY DEF fs
<1> QED BY <1>11, <1>12, <1>13, <1>14, <1>15, SteadyFrames

\* The outermost call is over, or its caller resumes.
LEMMA ReturnKeepsSteady ==
    ASSUME VInv, SInv, frames # <<>>, NEW used, NEW v, NEW ok \in BOOLEAN,
           IF Callers = <<>> THEN frames' = <<>> /\ outcome'.used = used /\ outcome'.ok = ok
                             ELSE frames' = Resume(used, v),
           UNCHANGED <<request, calls>>,
           ok /\ Top.self \in ShlContracts /\ LoopFree(Top.code) => used <= Estimate(Top.code)
    PROVE  SInv'
<1>1. CASE Callers # <<>>
  BY <1>1, ResumeKeepsSteady
<1>2. CASE Callers = <<>>
  <2>1. Len(frames) = 1
    BY <1>2, LastFrame DEF VInv
  <2>2. frames' = <<>> /\ outcome'.used = used /\ outcome'.ok = ok
    BY <1>2
  <2>3. Top.self = request.call.to /\ Top.code = Code[request.call.to]
    <3>1. FrameOK(Top)
      BY TopIsFrame DEF VInv
    <3>2. Top = frames[1]
      BY <2>1 DEF Top
    <3>3. frames[1].self = request.call.to
      BY DEF SInv
    <3> QED BY <3>1, <3>2, <3>3 DEF FrameOK
  <2>4. EstimateSuffices'
    BY <2>2, <2>3 DEF EstimateSuffices
  <2>5. Len(<<>>) = 0 /\ 1..0 = {} /\ 1..(0 - 1) = {}
    BY SMT
  <2>6. (\A i \in 1..Len(frames) : Steady(frames[i]))'
    BY <2>2, <2>5
  <2>7. (\A i \in 1..Len(frames) - 1 : frames[i].self \notin ShlContracts)'
    BY <2>2, <2>5
  <2>8. (frames # <<>> => frames[1].self = request.call.to)'
    BY <2>2
  <2> QED BY <2>4, <2>6, <2>7, <2>8 DEF SInv
<1> QED BY <1>1, <1>2

LEMMA ReturnsKeepSteady ==
    ASSUME WordsAreNumbers, VInv, SInv, Halt \/ EndOfCode \/ Abort
    PROVE  SInv'
<1> DEFINE f == Top
           code == f.code
<1>1. frames # <<>>
  BY DEF Halt, EndOfCode, Abort, Fetch
<1>2. FrameOK(f) /\ Len(frames) \in 1..Len(frames)
  BY <1>1, TopIsFrame, SMT DEF VInv
<1>3. Steady(f)
  BY <1>2 DEF SInv, Top
<1>4. f.used \in Nat
  BY <1>2 DEF FrameOK
<1>5. ASSUME f.self \in ShlContracts PROVE IsCode(code) /\ Len(code) \in Nat
  BY <1>2, <1>5, ShapeOfCode DEF IsCode
<1>6. CASE Halt
  <2> DEFINE ret == IF Cell(f).op = "RETURN" THEN Arg(f, 1) ELSE 0
             bytes == IF Cell(f).op = "RETURNB" THEN At(f.bwork, Arg(f, 1), <<>>)
                      ELSE <<>>
             used == f.used + Cost(f)
  <2>1. InCode(f) /\ Commit(f, used, ret, bytes)
    BY <1>6 DEF Halt, Fetch
  <2> HIDE DEF f, ret, bytes
  <2>2. ASSUME f.self \in ShlContracts, LoopFree(code) PROVE used <= Estimate(code)
    <3>1. /\ f.pc \in Nat /\ f.pc < Len(code)
          /\ Total(code, f.pc) \in Nat
          /\ Total(code, f.pc + 1) = Total(code, f.pc) + Cost(f)
      BY <1>2, <1>3, <2>1, <2>2, CostIsPrice
    <3>2. f.used <= Total(code, f.pc)
      BY <1>3, <2>2 DEF Steady
    <3>3. f.pc + 1 \in 0..Len(code) /\ Len(code) \in (f.pc + 1)..Len(code)
      BY <1>5, <2>2, <3>1, SMT
    <3> HIDE DEF code
    <3>4. /\ Total(code, f.pc + 1) \in Nat /\ Total(code, Len(code)) \in Nat
          /\ Total(code, f.pc + 1) <= Total(code, Len(code))
      BY <1>5, <2>2, <3>3, TotalGrows
    <3>5. Cost(f) \in Nat
      BY <1>2, CostIsNumber
    <3>6. used <= Total(code, f.pc + 1)
      BY <1>4, <3>1, <3>2, <3>5, SMT
    <3>7. used \in Nat
      BY <1>4, <3>5, SMT
    <3> HIDE DEF used
    <3> QED BY <3>4, <3>6, <3>7, SMT DEF Estimate
  <2> HIDE DEF used
  <2>3. IF Callers = <<>> THEN frames' = <<>> /\ outcome'.used = used /\ outcome'.ok = TRUE
                          ELSE frames' = Resume(used, ret)
    BY <2>1, SMT DEF Commit
  <2>4. UNCHANGED <<request, calls>>
    BY <2>1 DEF Commit
  <2> QED BY <1>1, <2>2, <2>3, <2>4, ReturnKeepsSteady DEF f
<1>7. CASE EndOfCode
  <2>1. Commit(f, f.used, 0, <<>>) /\ f.pc >= Len(code)
    BY <1>7 DEF EndOfCode
  <2> HIDE DEF f
  <2>2. ASSUME f.self \in ShlContracts, LoopFree(code) PROVE f.used <= Estimate(code)
    <3>1. f.pc \in 0..Len(code) /\ f.used <= Total(code, f.pc)
      BY <1>3, <2>2 DEF Steady
    <3>2. f.pc = Len(code)
      BY <1>5, <2>1, <2>2, <3>1, SMT
    <3> QED BY <3>1, <3>2 DEF Estimate
  <2>3. IF Callers = <<>> THEN frames' = <<>> /\ outcome'.used = f.used /\ outcome'.ok = TRUE
                          ELSE frames' = Resume(f.used, 0)
    BY <2>1, SMT DEF Commit
  <2>4. UNCHANGED <<request, calls>>
    BY <2>1 DEF Commit
  <2> QED BY <1>1, <2>2, <2>3, <2>4, ReturnKeepsSteady DEF f
<1>8. CASE Abort
  <2>1. /\ UNCHANGED <<request, calls>>
        /\ IF Callers = <<>>
           THEN frames' = <<>> /\ outcome'.used = Top.gas /\ outcome'.ok = FALSE
           ELSE frames' = Resume(Top.gas, 0)
    BY <1>8 DEF Abort, None
  <2> QED BY <1>1, <2>1, ReturnKeepsSteady
<1> QED BY <1>6, <1>7, <1>8

LEMMA InvokeKeepsSteady ==
    ASSUME WordsAreNumbers, VInv, NEW r \in Requests, Invoke(r)
    PROVE  SInv'
<1> DEFINE gas == IF r.query /\ r.gas = 0 THEN QueryGas ELSE r.gas
           from == IF r.query THEN <<>> ELSE AddressBytes(r.caller)
           value == IF r.query THEN 0 ELSE r.value
           new == Frame(r.to, r.caller, from, r.input, value, gas)
<1>1. frames' = <<new>> /\ request'.call = r
  BY DEF Invoke, WordsAreNumbers
<1>2. r.to \in Contracts
  BY MachineAssumption
<1> HIDE DEF gas, from, value
<1>3. Steady(new) /\ new.self = r.to
  BY <1>2, NewIsSteady, SMT
<1> HIDE DEF new
<1>4. Len(<<new>>) = 1 /\ <<new>>[1] = new /\ <<new>> # <<>>
  OBVIOUS
<1>5. (\A i \in 1..1 : i = 1) /\ 1..(1 - 1) = {}
  BY SMT
<1>6. \A i \in 1..Len(<<new>>) : Steady(<<new>>[i])
  BY <1>3, <1>4, <1>5
<1>7. \A i \in 1..Len(<<new>>) - 1 : <<new>>[i].self \notin ShlContracts
  BY <1>4, <1>5
<1>8. <<new>>[1].self = request'.call.to
  BY <1>1, <1>3, <1>4
<1> QED BY <1>1, <1>4, <1>6, <1>7, <1>8, SteadyFrames

LEMMA SInvAlways ==
    ASSUME WordsAreNumbers
    PROVE  Spec => []SInv
<1>1. Init => SInv
  <2> SUFFICES ASSUME Init PROVE SInv
    OBVIOUS
  <2>1. frames = <<>> /\ calls = 0
    BY DEF Init
  <2>2. Len(<<>>) = 0 /\ 1..0 = {} /\ 1..(0 - 1) = {}
    BY SMT
  <2>3. EstimateSuffices
    BY <2>1, SMT DEF EstimateSuffices
  <2> QED BY <2>1, <2>2, <2>3 DEF SInv
<1>2. VInv /\ SInv /\ [Next]_vars => SInv'
  <2> SUFFICES ASSUME VInv, SInv, [Next]_vars PROVE SInv'
    OBVIOUS
  <2>1. ASSUME NEW r \in Requests, Invoke(r) PROVE SInv'
    BY <2>1, InvokeKeepsSteady
  <2>2. CASE Operate
    BY <2>2, OperateKeepsSteady
  <2>3. CASE Store
    BY <2>3, StoreKeepsSteady
  <2>4. CASE Jump
    BY <2>4, JumpKeepsSteady
  <2>5. CASE Log
    BY <2>5, LogKeepsSteady
  <2>6. CASE CallOut
    BY <2>6, CallOutKeepsSteady
  <2>7. CASE CallRefused
    BY <2>7, CallRefusedKeepsSteady
  <2>8. CASE Halt \/ EndOfCode \/ Abort
    BY <2>8, ReturnsKeepSteady
  <2>9. CASE UNCHANGED vars
    <3>1. /\ frames' = frames /\ request' = request /\ outcome' = outcome
          /\ calls' = calls
      BY <2>9 DEF vars
    <3>2. \A i \in 1..Len(frames') : Steady(frames'[i])
      BY <3>1 DEF SInv
    <3>3. (\A i \in 1..Len(frames) : Steady(frames[i]))'
      BY <3>2 DEF Steady, InCode, Cell, Arg
    <3>4. EstimateSuffices'
      BY <3>1 DEF SInv, EstimateSuffices
    <3> QED BY <3>1, <3>3, <3>4 DEF SInv
  <2> QED BY <2>1, <2>2, <2>3, <2>4, <2>5, <2>6, <2>7, <2>8, <2>9
          DEF Next, Instruction
<1> QED BY <1>1, <1>2, VInvAlways, PTL DEF Spec

\* Control never enters the operand of a PUSH of compiled code nor leaves the
\* code but at its end, whoever calls it and with whatever input: the
\* destination a jump finds on the stack is the label pushed before it, and
\* labels are instructions (the JUMP and PUSH of vm.ExecuteB on the code of
\* gen.mark, gen.pushLabel and gen.resolve).
THEOREM CompiledJumpsLand ==
    ASSUME WordsAreNumbers
    PROVE  Spec => []JumpsLand
<1>1. SInv => JumpsLand
  BY DEF SInv, Steady, JumpsLand
<1> QED BY <1>1, SInvAlways, PTL

\* The estimate of compiled code without loops is enough for every call of
\* it, whatever the input, the storage, the path taken and the topics of its
\* events: shl.Estimate counts every cell once, and the machine charges no
\* cell twice nor more than its price (vm.gasCost).
THEOREM EstimateAlwaysSuffices ==
    ASSUME WordsAreNumbers
    PROVE  Spec => []EstimateSuffices
<1>1. SInv => EstimateSuffices
  BY DEF SInv
<1> QED BY <1>1, SInvAlways, PTL

-----------------------------------------------------------------------------
(* Calls run out of gas *)

\* The gas used by the first k frames.
Used(fs, k) == SumFunction([i \in 1..k |-> fs[i].used])

\* The gas used by the frames of the call and of its nested calls.
Spent == Used(frames, Len(frames))

\* No call runs for ever: every instruction uses gas or ends a nested call, so
\* that 2 * Spent - Len(frames) grows (the charge before the switch of
\* vm.ExecuteB, and what a callee reports to CALL).
Progress ==
    [][frames # <<>> /\ frames' # <<>> =>
          2 * Spent' - Len(frames') > 2 * Spent - Len(frames)]_vars

\* And it grows to a bound: the frames never use more than the root was given.
SpentBounded == frames # <<>> => Spent <= frames[1].gas

LEMMA UsedSum ==
    ASSUME NEW fs, NEW k \in Nat, \A i \in 1..k : fs[i].used \in Nat
    PROVE  Used(fs, k) \in Nat
<1>1. IsFiniteSet(1..k)
  BY FS_Interval, SMT
<1>2. [i \in 1..k |-> fs[i].used] \in [1..k -> Nat]
  OBVIOUS
<1> QED BY <1>1, <1>2, SumNat DEF Used

LEMMA UsedNext ==
    ASSUME NEW fs, NEW k \in Nat, \A i \in 1..k + 1 : fs[i].used \in Nat
    PROVE  Used(fs, k + 1) = fs[k + 1].used + Used(fs, k)
<1>1. PICK a, B, D, f, e :
         /\ a = k + 1 /\ B = 1..k + 1 /\ D = 1..k
         /\ f = [i \in 1..k + 1 |-> fs[i].used] /\ e = [i \in 1..k |-> fs[i].used]
  OBVIOUS
<1>2. OneMore(f, B, e, D, a)
  <2>1. IsFiniteSet(1..k + 1)
    BY FS_Interval, SMT
  <2>2. k + 1 \in 1..k + 1 /\ 1..k = (1..k + 1) \ {k + 1}
    BY SMT
  <2>3. /\ [i \in 1..k + 1 |-> fs[i].used] \in [1..k + 1 -> Int]
        /\ [i \in 1..k |-> fs[i].used] \in [1..k -> Int]
        /\ \A x \in 1..k : [i \in 1..k |-> fs[i].used][x] = [i \in 1..k + 1 |-> fs[i].used][x]
    BY SMT
  <2> QED BY <1>1, <2>1, <2>2, <2>3 DEF OneMore
<1>3. SumFunction(f) = f[a] + SumFunction(e)
  BY <1>2, SumGrow, SMT
<1>4. f[a] = fs[k + 1].used
  BY <1>1, SMT
<1> QED BY <1>1, <1>3, <1>4 DEF Used

\* The gas of the first frames depends on them only.
LEMMA UsedAgree ==
    ASSUME NEW fs, NEW gs, NEW k \in Nat, \A i \in 1..k : fs[i] = gs[i]
    PROVE  Used(fs, k) = Used(gs, k)
<1>1. [i \in 1..k |-> fs[i].used] = [i \in 1..k |-> gs[i].used]
  OBVIOUS
<1> QED BY <1>1 DEF Used

\* What the callers have left for the running frame covers its budget.
LEMMA UsedBounded ==
    ASSUME NEW fs, TreeOK(fs), fs # <<>>
    PROVE  Used(fs, Len(fs)) <= fs[1].gas
<1> DEFINE n == Len(fs)
           P(k) == k + 1 <= n => Used(fs, k) + fs[k + 1].gas <= fs[1].gas
           S == {k \in Nat : P(k)}
<1>1. n \in Nat \ {0}
  BY SMT DEF TreeOK
<1>2. \A i \in 1..n : /\ fs[i].used \in Nat /\ fs[i].gas \in Nat
                      /\ fs[i].used <= fs[i].gas
  BY DEF TreeOK, FrameOK
<1>3. \A i \in 1..n - 1 : fs[i].used + fs[i + 1].gas <= fs[i].gas
  BY DEF TreeOK
<1> HIDE DEF n
<1>4. ASSUME NEW k \in Nat, k <= n PROVE Used(fs, k) \in Nat
  <2>1. \A i \in 1..k : fs[i].used \in Nat
    BY <1>1, <1>2, <1>4, SMT
  <2> QED BY <2>1, UsedSum
<1>5. ASSUME NEW k \in Nat, k + 1 <= n
      PROVE  Used(fs, k + 1) = fs[k + 1].used + Used(fs, k)
  <2>1. \A i \in 1..k + 1 : fs[i].used \in Nat
    BY <1>1, <1>2, <1>5, SMT
  <2> QED BY <2>1, UsedNext
<1>6. 0 \in S
  <2>1. Used(fs, 0) = 0
    <3>1. 1..0 = {}
      BY SMT
    <3>2. [i \in {} |-> fs[i].used] \in [{} -> Int]
      OBVIOUS
    <3>3. SumFunction([i \in {} |-> fs[i].used]) = 0
      BY <3>2, SumEmpty
    <3> QED BY <3>1, <3>3 DEF Used
  <2>2. 1 \in 1..n
    BY <1>1, SMT
  <2>3. fs[1].gas \in Nat
    BY <1>2, <2>2
  <2> QED BY <2>1, <2>3, SMT
<1>7. ASSUME NEW k \in Nat, k \in S PROVE k + 1 \in S
  <2> SUFFICES ASSUME (k + 1) + 1 <= n
               PROVE  Used(fs, k + 1) + fs[(k + 1) + 1].gas <= fs[1].gas
    BY SMT
  <2>1. k + 1 <= n /\ k <= n /\ k + 1 \in 1..n - 1 /\ k + 1 \in 1..n
        /\ (k + 1) + 1 \in 1..n /\ 1 \in 1..n
    BY <1>1, SMT
  <2> DEFINE u == Used(fs, k)
             v == fs[k + 1].used
             b == fs[k + 1].gas
             c == fs[1].gas
             d == fs[(k + 1) + 1].gas
  <2>2. u + b <= c
    BY <1>7, <2>1
  <2>3. v + d <= b
    BY <1>3, <2>1
  <2>4. u \in Nat /\ Used(fs, k + 1) = v + u
    BY <1>4, <1>5, <2>1
  <2>5. v \in Nat /\ b \in Nat /\ c \in Nat /\ d \in Nat
    BY <1>2, <2>1
  <2> HIDE DEF u, v, b, c, d
  <2>6. Used(fs, k + 1) + d <= c
    BY <2>2, <2>3, <2>4, <2>5, SMT
  <2> QED BY <2>6 DEF c, d
<1>8. n - 1 \in S
  <2> HIDE DEF S
  <2>1. Nat \subseteq S
    BY <1>6, <1>7, Induction
  <2> QED BY <1>1, <2>1, SMT
<1>9. Used(fs, n) = fs[n].used + Used(fs, n - 1) /\ Used(fs, n - 1) \in Nat
  <2>1. n - 1 \in Nat /\ (n - 1) + 1 = n /\ n - 1 <= n
    BY <1>1, SMT
  <2> QED BY <1>4, <1>5, <2>1, SMT
<1>10. n \in 1..n /\ 1 \in 1..n /\ (n - 1) + 1 = n
  BY <1>1, SMT
<1>11. Used(fs, n - 1) + fs[n].gas <= fs[1].gas
  BY <1>1, <1>8, <1>10, SMT
<1>12. Used(fs, n) <= fs[1].gas
  BY <1>2, <1>9, <1>10, <1>11, SMT
<1> QED BY <1>12 DEF n

\* What grows, of a tree of calls.
Rank(fs) == 2 * Used(fs, Len(fs)) - Len(fs)

LEMMA CostIsPositive ==
    ASSUME NEW f, FrameOK(f)
    PROVE  Cost(f) \in Nat /\ Cost(f) >= 1
<1>1. Arg(f, 1) \in Nat
  BY ArgIsWord, SMT
<1>2. gasCost(Cell(f).op) \in Nat /\ gasCost(Cell(f).op) >= 1
  BY SMT DEF gasCost
<1> QED BY <1>1, <1>2, SMT DEF Cost

LEMMA SpentOnTop ==
    ASSUME NEW fs, NEW n \in Nat \ {0}, Len(fs) = n, \A i \in 1..n : fs[i].used \in Nat
    PROVE  /\ Used(fs, n - 1) \in Nat
           /\ Used(fs, n) = fs[n].used + Used(fs, n - 1)
           /\ Rank(fs) = 2 * Used(fs, n) - n
<1>1. n - 1 \in Nat /\ (n - 1) + 1 = n /\ \A i \in 1..n - 1 : i \in 1..n
  BY SMT
<1>2. Used(fs, n - 1) \in Nat
  BY <1>1, UsedSum
<1>3. Used(fs, (n - 1) + 1) = fs[(n - 1) + 1].used + Used(fs, n - 1)
  BY <1>1, UsedNext
<1> QED BY <1>1, <1>2, <1>3 DEF Rank

\* The gas of an instruction that stays in the running frame.
LEMMA AdvanceSpends ==
    ASSUME TreeOK(frames), frames # <<>>, NEW g, g.used = Top.used + Cost(Top)
    PROVE  /\ Rank(SetTop(g)) > Rank(frames) + 1
           /\ Rank(frames) \in Int /\ Rank(SetTop(g)) \in Int
           /\ \A i \in 1..Len(frames) : SetTop(g)[i].used \in Nat
<1> DEFINE n == Len(frames)
           fs == SetTop(g)
           u == Used(frames, n - 1)
           a == frames[n].used
           c == Cost(Top)
<1>1. /\ n \in Nat \ {0} /\ Len(fs) = n
      /\ \A i \in 1..n : fs[i] = IF i = n THEN g ELSE frames[i]
  BY SetTopFrames
<1>2. FrameOK(Top) /\ Top = frames[n]
  BY TopIsFrame DEF Top
<1>3. c \in Nat /\ c >= 1
  BY <1>2, CostIsPositive
<1>4. \A i \in 1..n : frames[i].used \in Nat
  BY DEF TreeOK, FrameOK
<1>5. g.used = a + c /\ a \in Nat
  BY <1>2 DEF FrameOK
<1> HIDE DEF n, fs, a, c
<1>6. fs[n] = g /\ \A i \in 1..n - 1 : fs[i] = frames[i] /\ i \in 1..n
  BY <1>1, SMT
<1>7. \A i \in 1..n : fs[i].used \in Nat
  BY <1>1, <1>3, <1>4, <1>5, SMT
<1>8. u \in Nat /\ Rank(frames) = 2 * (a + u) - n
  BY <1>1, <1>4, SpentOnTop DEF a, n
<1>9. Used(fs, n - 1) = u
  <2>1. n - 1 \in Nat
    BY <1>1, SMT
  <2> QED BY <1>6, <2>1, UsedAgree
<1>10. Rank(fs) = 2 * (g.used + u) - n
  BY <1>1, <1>6, <1>7, <1>9, SpentOnTop, SMT
<1> HIDE DEF u
<1>11. Rank(fs) = 2 * ((a + c) + u) - n
  BY <1>5, <1>10
<1>12. Rank(fs) > Rank(frames) + 1 /\ Rank(frames) \in Int /\ Rank(fs) \in Int
  BY <1>1, <1>3, <1>5, <1>8, <1>11, SMT
<1> QED BY <1>7, <1>12 DEF fs, n

\* A nested call that ends reports at least the gas it used.
LEMMA ResumeSpends ==
    ASSUME TreeOK(frames), frames # <<>>, Callers # <<>>,
           NEW used \in Nat, Top.used <= used, NEW v
    PROVE  Rank(Resume(used, v)) > Rank(frames)
<1> DEFINE n == Len(frames) - 1
           f == frames[n]
           g == [f EXCEPT !.used = f.used + used, !.stack = Append(f.stack, v)]
           fs == Resume(used, v)
           a == f.used
           b == frames[n + 1].used
           u == Used(frames, n - 1)
<1>1. PICK S : frames \in Seq(S)
  BY DEF TreeOK
<1>2. Len(frames) \in Nat /\ Len(frames) # 0
  BY <1>1, SMT
<1>3. /\ Callers \in Seq(S) /\ Len(Callers) = n
      /\ \A i \in 1..n : Callers[i] = frames[i]
  BY <1>1, <1>2, SMT DEF Callers
<1>4. n \in Nat \ {0}
  BY <1>2, <1>3, SMT
<1>5. Callers \in Seq(S \cup {g})
  BY <1>3, SMT
<1>6. fs = [Callers EXCEPT ![n] = g]
  <2>1. n \in 1..n /\ Len(Callers) = n
    BY <1>3, <1>4, SMT
  <2>2. Callers[Len(Callers)] = f
    BY <1>3, <2>1
  <2> HIDE DEF n, f
  <2> QED BY <2>1, <2>2 DEF Resume
<1>7. /\ Len(fs) = n
      /\ \A i \in 1..n : fs[i] = IF i = n THEN g ELSE frames[i]
  <2> HIDE DEF g, fs, n
  <2> QED BY <1>3, <1>4, <1>5, <1>6, SMT
<1>8. \A i \in 1..Len(frames) : FrameOK(frames[i])
  BY DEF TreeOK
<1>9. Len(frames) = n + 1 /\ Top = frames[n + 1]
  BY <1>2, SMT DEF Top
<1> HIDE DEF n
<1>10. \A i \in 1..n + 1 : FrameOK(frames[i]) /\ frames[i].used \in Nat
  BY <1>8, <1>9 DEF FrameOK
<1>11. g.used = a + used
  <2>1. n \in 1..n + 1
    BY <1>4, SMT
  <2>2. IsRecord(f)
    BY <1>10, <2>1 DEF FrameOK
  <2> HIDE DEF f
  <2> QED BY <2>2 DEF IsRecord, Fields
<1> HIDE DEF g, fs
<1>12. /\ n \in 1..n + 1 /\ n + 1 \in 1..n + 1 /\ n \in 1..n
       /\ \A i \in 1..n : i \in 1..n + 1
       /\ \A i \in 1..n - 1 : i \in 1..n /\ i # n
  BY <1>4, SMT
<1>13. a \in Nat /\ b \in Nat
  BY <1>10, <1>12
<1>14. \A i \in 1..n : fs[i].used \in Nat
  BY <1>7, <1>10, <1>11, <1>12, <1>13, SMT
<1>15. Used(frames, n) = a + u /\ u \in Nat
  <2>1. n - 1 \in Nat /\ (n - 1) + 1 = n /\ \A i \in 1..n - 1 : frames[i].used \in Nat
    BY <1>4, <1>10, <1>12, SMT
  <2>2. \A i \in 1..(n - 1) + 1 : frames[i].used \in Nat
    BY <1>10, <1>12, <2>1
  <2>3. Used(frames, (n - 1) + 1) = frames[(n - 1) + 1].used + Used(frames, n - 1)
    BY <2>1, <2>2, UsedNext
  <2> QED BY <2>1, <2>3, UsedSum
<1>16. Rank(frames) = 2 * (b + Used(frames, n)) - (n + 1)
  <2>1. n + 1 \in Nat \ {0} /\ (n + 1) - 1 = n
    BY <1>4, SMT
  <2> QED BY <1>9, <1>10, <2>1, SpentOnTop, SMT
<1>17. Used(fs, n - 1) = u
  <2>1. n - 1 \in Nat
    BY <1>4, SMT
  <2>2. \A i \in 1..n - 1 : fs[i] = frames[i]
    BY <1>7, <1>12
  <2> QED BY <2>1, <2>2, UsedAgree
<1>18. Rank(fs) = 2 * (g.used + u) - n
  BY <1>4, <1>7, <1>12, <1>14, <1>17, SpentOnTop, SMT
<1>19. b <= used
  BY <1>9
<1> HIDE DEF a, b, u
<1>20. Rank(fs) > Rank(frames)
  <2>1. Rank(fs) = 2 * ((a + used) + u) - n
    BY <1>11, <1>18
  <2>2. Rank(frames) = 2 * (b + (a + u)) - (n + 1)
    BY <1>15, <1>16
  <2> QED BY <1>4, <1>13, <1>15, <1>19, <2>1, <2>2, SMT
<1> QED BY <1>20 DEF fs

\* The instructions that replace the running frame.
LEMMA StayingSpends ==
    ASSUME VInv, Operate \/ Store \/ Jump \/ Log \/ CallRefused
    PROVE  Rank(frames') > Rank(frames)
<1> DEFINE f == Top
<1>1. frames # <<>> /\ TreeOK(frames)
  BY DEF Operate, Store, Jump, Log, CallRefused, Fetch, VInv
<1>2. FrameOK(f)
  BY <1>1, TopIsFrame
<1>3. \A p : IsRecord(Step(f, p)) /\ Step(f, p).used = f.used + Cost(f)
  BY <1>2, StepFields
<1>4. ASSUME NEW g, g.used = f.used + Cost(f), frames' = SetTop(g)
      PROVE  Rank(frames') > Rank(frames)
  <2>1. /\ Rank(SetTop(g)) > Rank(frames) + 1
        /\ Rank(frames) \in Int /\ Rank(SetTop(g)) \in Int
    BY <1>1, <1>4, AdvanceSpends
  <2>2. Rank(SetTop(g)) > Rank(frames)
    BY <2>1, SMT
  <2> QED BY <1>4, <2>2
<1>5. CASE Operate
  BY <1>3, <1>4, <1>5 DEF Operate
<1>6. CASE CallRefused
  BY <1>3, <1>4, <1>6 DEF CallRefused
<1>7. CASE Store
  <2> DEFINE op == Cell(f).op
             blob == CASE op = "BSTORE" -> Slice(f.input, Arg(f, 2), Arg(f, 3))
                       [] op = "CALLERB" -> f.from
                       [] OTHER -> AddressBytes(f.self)
             g == Step(f, <<>>)
             w == With(f.work, Arg(f, 2), Arg(f, 1))
             bw == With(f.bwork, Arg(f, 1), blob)
             h == IF op = "SSTORE" THEN [g EXCEPT !.work = w] ELSE [g EXCEPT !.bwork = bw]
  <2>1. frames' = SetTop(h)
    BY <1>7 DEF Store
  <2>2. IsRecord(g) /\ g.used = f.used + Cost(f)
    BY <1>3
  <2>3. h.used = f.used + Cost(f)
    <3> HIDE DEF g, f, op, w, bw
    <3> QED BY <2>2 DEF IsRecord, Fields
  <2> HIDE DEF h, f
  <2> QED BY <1>4, <2>1, <2>3
<1>8. CASE Jump
  <2> DEFINE g == Step(f, <<>>)
             pc == IF Cell(f).op = "JUMP" \/ Arg(f, 2) # 0 THEN int(Arg(f, 1)) ELSE f.pc + 1
             h == [g EXCEPT !.pc = pc]
  <2>1. frames' = SetTop(h)
    BY <1>8 DEF Jump
  <2>2. IsRecord(g) /\ g.used = f.used + Cost(f)
    BY <1>3
  <2>3. h.used = f.used + Cost(f)
    <3> HIDE DEF g, f, pc
    <3> QED BY <2>2 DEF IsRecord, Fields
  <2> HIDE DEF h, f
  <2> QED BY <1>4, <2>1, <2>3
<1>9. CASE Log
  <2> DEFINE g == Step(f, <<>>)
             n == Arg(f, 1)
             topics == SubSeq(f.stack, Len(f.stack) - n, Len(f.stack) - 1)
             s == Below(f, n + 1)
             l == Append(f.logs, topics)
             h == [g EXCEPT !.stack = s, !.logs = l]
  <2>1. frames' = SetTop(h)
    BY <1>9 DEF Log
  <2>2. IsRecord(g) /\ g.used = f.used + Cost(f)
    BY <1>3
  <2>3. h.used = f.used + Cost(f)
    <3> HIDE DEF g, f, s, l
    <3> QED BY <2>2 DEF IsRecord, Fields
  <2> HIDE DEF h, f
  <2> QED BY <1>4, <2>1, <2>3
<1> QED BY <1>5, <1>6, <1>7, <1>8, <1>9

\* CALL pays before the new frame, which has used nothing, is there.
LEMMA CallOutSpends ==
    ASSUME VInv, CallOut
    PROVE  Rank(frames') > Rank(frames)
<1> DEFINE f == Top
           g == Step(f, <<>>)
           new == Frame(Arg(f, 3), f.self, <<>>, <<Arg(f, 2)>>, 0, Forward(f))
           up == SetTop(g)
           n == Len(frames)
           fs == Append(up, new)
<1>1. frames # <<>> /\ frames' = fs /\ TreeOK(frames)
  BY DEF CallOut, Fetch, VInv
<1>2. FrameOK(f)
  BY <1>1, TopIsFrame
<1>3. g.used = f.used + Cost(f)
  BY <1>2, StepFields
<1>4. new.used = 0
  BY DEF Frame
<1>5. n \in Nat \ {0} /\ Len(up) = n
  BY <1>1, SetTopFrames
<1>6. PICK S : up \in Seq(S)
  <2>1. PICK R : frames \in Seq(R)
    BY <1>1 DEF TreeOK
  <2>2. frames \in Seq(R \cup {g})
    BY <2>1, SMT
  <2>3. up \in Seq(R \cup {g})
    <3> HIDE DEF g, n
    <3> QED BY <1>5, <2>2, SMT DEF SetTop, n
  <2> QED BY <2>3
<1>7. /\ Rank(up) > Rank(frames) + 1
      /\ Rank(frames) \in Int /\ Rank(up) \in Int
      /\ \A i \in 1..n : up[i].used \in Nat
  BY <1>1, <1>3, AdvanceSpends
<1> HIDE DEF new, up, n, g, f
<1>8. Len(fs) = n + 1 /\ fs[n + 1] = new /\ \A i \in 1..n : fs[i] = up[i]
  BY <1>5, <1>6, SMT
<1> HIDE DEF fs
<1>9. \A i \in 1..n + 1 : fs[i].used \in Nat
  BY <1>4, <1>5, <1>7, <1>8, SMT
<1>10. Used(fs, n) = Used(up, n) /\ Used(up, n) \in Nat
  <2>1. n \in Nat
    BY <1>5
  <2>2. Used(fs, n) = Used(up, n)
    BY <1>8, <2>1, UsedAgree
  <2>3. Used(up, n) \in Nat
    BY <1>7, <2>1, UsedSum
  <2> QED BY <2>2, <2>3
<1>11. Rank(fs) = 2 * Used(fs, n + 1) - (n + 1) /\ Used(fs, n + 1) = 0 + Used(fs, n)
  <2>1. n \in Nat
    BY <1>5
  <2>2. Used(fs, n + 1) = fs[n + 1].used + Used(fs, n)
    BY <1>9, <2>1, UsedNext
  <2>3. fs[n + 1].used = 0
    BY <1>4, <1>8
  <2>4. Rank(fs) = 2 * Used(fs, n + 1) - (n + 1)
    BY <1>8 DEF Rank
  <2> QED BY <2>2, <2>3, <2>4
<1>12. Rank(up) = 2 * Used(up, n) - n
  BY <1>5 DEF Rank
<1>13. Rank(fs) > Rank(frames)
  BY <1>5, <1>7, <1>10, <1>11, <1>12, SMT
<1> QED BY <1>1, <1>13

LEMMA ReturnsSpend ==
    ASSUME VInv, Halt \/ EndOfCode \/ Abort, frames' # <<>>
    PROVE  Rank(frames') > Rank(frames)
<1> DEFINE f == Top
<1>1. frames # <<>> /\ TreeOK(frames)
  BY DEF Halt, EndOfCode, Abort, Fetch, VInv
<1>2. FrameOK(f)
  BY <1>1, TopIsFrame
<1>3. f.used \in Nat /\ f.gas \in Nat /\ f.used <= f.gas
  BY <1>2 DEF FrameOK
<1>4. Cost(f) \in Nat
  BY <1>2, CostIsPositive
<1>5. \E used \in Nat : /\ f.used <= used /\ Callers # <<>>
                         /\ \E v : frames' = Resume(used, v)
  <2>1. CASE Halt
    <3> DEFINE used == f.used + Cost(f)
               ret == IF Cell(f).op = "RETURN" THEN Arg(f, 1) ELSE 0
               bytes == IF Cell(f).op = "RETURNB" THEN At(f.bwork, Arg(f, 1), <<>>)
                        ELSE <<>>
    <3>1. Commit(f, used, ret, bytes)
      BY <2>1 DEF Halt
    <3>2. used \in Nat /\ f.used <= used
      BY <1>3, <1>4, SMT
    <3> HIDE DEF f, used, ret, bytes
    <3>3. Callers # <<>> /\ frames' = Resume(used, ret)
      BY <3>1 DEF Commit
    <3> QED BY <3>2, <3>3
  <2>2. CASE EndOfCode
    <3>1. Commit(f, f.used, 0, <<>>)
      BY <2>2 DEF EndOfCode
    <3>2. f.used <= f.used
      BY <1>3, SMT
    <3> HIDE DEF f
    <3>3. Callers # <<>> /\ frames' = Resume(f.used, 0)
      BY <3>1 DEF Commit
    <3> QED BY <1>3, <3>2, <3>3
  <2>3. CASE Abort
    <3>1. Callers # <<>> /\ frames' = Resume(f.gas, 0)
      BY <2>3 DEF Abort
    <3> QED BY <1>3, <3>1
  <2> QED BY <2>1, <2>2, <2>3
<1>6. PICK used \in Nat : /\ f.used <= used /\ Callers # <<>>
                          /\ \E v : frames' = Resume(used, v)
  BY <1>5
<1>7. PICK v : frames' = Resume(used, v)
  BY <1>6
<1>8. Rank(Resume(used, v)) > Rank(frames)
  BY <1>1, <1>6, ResumeSpends
<1> QED BY <1>7, <1>8

\* Every instruction of a call brings it nearer to its end: the gas used by
\* the call and the calls it makes, counted twice, less the depth of calls,
\* grows with each step of vm.ExecuteB, whatever the code and whatever it calls.
THEOREM CallsMakeProgress ==
    ASSUME WordsAreNumbers
    PROVE  Spec => Progress
<1>1. ASSUME VInv, [Next]_vars
      PROVE  [frames # <<>> /\ frames' # <<>> =>
                2 * Spent' - Len(frames') > 2 * Spent - Len(frames)]_vars
  <2> SUFFICES ASSUME ~ UNCHANGED vars, frames # <<>>, frames' # <<>>
               PROVE  2 * Spent' - Len(frames') > 2 * Spent - Len(frames)
    OBVIOUS
  <2>1. Rank(frames') > Rank(frames)
    <3>1. CASE Operate \/ Store \/ Jump \/ Log \/ CallRefused
      BY <1>1, <3>1, StayingSpends
    <3>2. CASE CallOut
      BY <1>1, <3>2, CallOutSpends
    <3>3. CASE Halt \/ EndOfCode \/ Abort
      BY <1>1, <3>3, ReturnsSpend
    <3>4. ASSUME NEW r \in Requests, Invoke(r) PROVE FALSE
      BY <3>4 DEF Invoke
    <3> QED BY <1>1, <3>1, <3>2, <3>3, <3>4 DEF Next, Instruction
  <2> QED BY <2>1 DEF Rank, Spent
<1> QED BY <1>1, VInvAlways, PTL DEF Spec, Progress

\* And the end is not far: the frames of a call never use more gas together
\* than the first one was given, so that with CallsMakeProgress a call ends
\* after at most 2 * gas + 1 instructions (the gas test of vm.ExecuteB, and the
\* clamp on what CALL forwards).
THEOREM SpentAlwaysBounded ==
    ASSUME WordsAreNumbers
    PROVE  Spec => []SpentBounded
<1>1. VInv => SpentBounded
  BY UsedBounded DEF VInv, SpentBounded, Spent
<1> QED BY <1>1, VInvAlways, PTL

=============================================================================
