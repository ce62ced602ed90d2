--------------------------------- MODULE Vm ---------------------------------
(***************************************************************************)
(* The contract machine: vm.ExecuteB, as state.execContract enters it for a *)
(* call transaction, vmHost.Call for a call from a contract to a contract   *)
(* and QueryContractRaw for a read-only query.                              *)
(*                                                                          *)
(* A running call is a frame; the frames of nested calls are a stack whose  *)
(* last element runs.  Abstractions: the eight bytes after PUSH are one     *)
(* DATA cell; a word is a number below Word; the digests (MIX, BHASH) are   *)
(* constant operators, without collisions; a contract, a caller and its     *)
(* digest are the same word; byte j of the word w is the pair <<w, j>>.     *)
(*                                                                          *)
(* Go panics on an index out of range: a pc below zero, after a jump whose  *)
(* destination is negative as an int, or a calldata offset that wrapped.    *)
(* Here no action is enabled in such a state, so that Halts fails.          *)
(***************************************************************************)
EXTENDS Integers, Sequences

CONSTANTS
    Contracts,       \* the words that name a contract
    Code,            \* contract -> the cells [op, v] of Account.Code
    Balance(_),      \* Balance(c): Account.Balance
    Requests,        \* the calls and queries that may be made
    Word,            \* 2^64
    WordBytes,       \* 8
    MaxStack, MaxSteps, MaxDepth, MaxTopics,
    QueryGas,        \* the budget of a query that names none
    MaxCalls,        \* bound: calls of a behaviour
    BitAnd(_, _), BitOr(_, _),
    Mix(_, _), Digest(_)

ASSUME MachineAssumption ==
    /\ Word \in Nat \ {0}
    /\ WordBytes \in Nat \ {0}
    /\ MaxStack \in Nat \ {0}
    /\ MaxSteps \in Nat
    /\ MaxDepth \in Nat
    /\ MaxTopics \in Nat
    /\ MaxCalls \in Nat
    /\ QueryGas \in Nat
    /\ \A r \in Requests : r.to \in Contracts /\ r.gas \in Nat

VARIABLES
    storage,    \* Account.Storage of every contract
    bstorage,   \* Account.BStorage
    logs,       \* blockLogs: the events of the block so far
    frames,     \* the active calls, the outermost first
    request,    \* history: the outermost call, with what it found
    outcome,    \* what the outermost call returned
    calls

vars == <<storage, bstorage, logs, frames, request, outcome, calls>>

\* A read of a Go map, which gives the zero value of a missing key.
At(m, k, zero) == IF k \in DOMAIN m THEN m[k] ELSE zero

With(m, k, v) == [x \in DOMAIN m \cup {k} |-> IF x = k THEN v ELSE m[x]]

None == [ok |-> FALSE, ret |-> 0, bytes |-> <<>>, used |-> 0]

-----------------------------------------------------------------------------
(* Opcodes *)

Binary == {"ADD", "SUB", "MUL", "DIV", "MOD", "EQ", "LT", "GT", "AND", "OR",
           "ADDC", "SUBC", "MULC", "MIX", "BEQ"}

Context == {"CALLER", "VALUE", "BAL", "SELF", "CDLEN"}

Unary == {"ISZERO", "NOT", "SLOAD", "CDLOAD", "BLEN", "BHASH"}

\* The opcodes that only work on the stack.
Simple == Binary \cup Context \cup Unary \cup {"PUSH", "POP", "DUP", "SWAP"}

Stores == {"SSTORE", "BSTORE", "CALLERB", "SELFB"}

Ends == {"STOP", "RETURN", "RETURNB"}

Opcodes == Simple \cup Stores \cup Ends
             \cup {"JUMP", "JUMPI", "CALL", "LOG", "REVERT"}

gasCost(op) ==
    CASE op \in Stores -> 100
      [] op = "LOG" -> 50
      [] op \in {"SLOAD", "BEQ", "BHASH", "MIX"} -> 20
      [] op = "PUSH" -> 3
      [] OTHER -> 1

\* How many words an opcode pops (LOG pops its topics too).
Pops(op) ==
    CASE op \in {"CALL", "BSTORE"} -> 3
      [] op \in Binary \cup {"SWAP", "JUMPI", "SSTORE"} -> 2
      [] op \in Unary \cup {"POP", "DUP", "JUMP", "LOG", "CALLERB", "SELFB",
                            "RETURN", "RETURNB"} -> 1
      [] OTHER -> 0

b2u(b) == IF b THEN 1 ELSE 0

-----------------------------------------------------------------------------
(* The running frame *)

Top == frames[Len(frames)]

Callers == SubSeq(frames, 1, Len(frames) - 1)

SetTop(f) == [frames EXCEPT ![Len(frames)] = f]

Cell(f) == f.code[f.pc + 1]

\* The i-th word an opcode pops, the top of the stack first.
Arg(f, i) == IF i <= Len(f.stack) THEN f.stack[Len(f.stack) - i + 1] ELSE 0

Below(f, n) == SubSeq(f.stack, 1, Len(f.stack) - n)

\* The operand of PUSH is in the cell after it.
HasOperand(f) == f.pc + 2 <= Len(f.code)

Operand(f) == IF HasOperand(f) THEN f.code[f.pc + 2].v ELSE 0

\* The conversion int(dest): the upper half of the words is negative.
int(d) == IF d >= Word \div 2 THEN d - Word ELSE d

\* word(): the product and the sum wrap around.
Offset(i) == (i * WordBytes) % Word

\* Mutant: only the first byte of the word is tested.
OutOfBoundsLate(input, i) == Offset(i) > WordBytes * Len(input)

OutOfBounds(input, i) == (Offset(i) + WordBytes) % Word > WordBytes * Len(input)

Readable(input, i) ==
    OutOfBounds(input, i) \/ Offset(i) \div WordBytes < Len(input)

word(input, i) == IF OutOfBounds(input, i) THEN 0
                  ELSE input[Offset(i) \div WordBytes + 1]

\* The bytes off .. off + n - 1 of the calldata.
Slice(input, off, n) ==
    [i \in 1..n |-> <<input[(off + i - 1) \div WordBytes + 1],
                      (off + i - 1) % WordBytes>>]

\* The bytes of an address.
AddressBytes(a) == [i \in 1..WordBytes |-> <<a, i - 1>>]

binop(op, a, b) ==
    CASE op \in {"ADD", "ADDC"} -> (a + b) % Word
      [] op \in {"SUB", "SUBC"} -> (a - b) % Word
      [] op \in {"MUL", "MULC"} -> (a * b) % Word
      [] op = "DIV" -> a \div b
      [] op = "MOD" -> a % b
      [] op = "EQ" -> b2u(a = b)
      [] op = "LT" -> b2u(a < b)
      [] op = "GT" -> b2u(a > b)
      [] op = "AND" -> BitAnd(a, b)
      [] op = "OR" -> BitOr(a, b)
      [] op = "MIX" -> Mix(a, b)

\* Whether a binary opcode aborts the call: a zero divisor, or an overflow
\* that a checked opcode detects on the wrapped result.
Overflows(op, a, b) ==
    CASE op \in {"DIV", "MOD"} -> b = 0
      [] op = "ADDC" -> (a + b) % Word < a
      [] op = "SUBC" -> b > a
      [] op = "MULC" -> a # 0 /\ ((a * b) % Word) \div a # b
      [] OTHER -> FALSE

\* The words a simple opcode pushes.
Result(f) ==
    LET op == Cell(f).op
        b == Arg(f, 1)
        a == Arg(f, 2)
    IN  CASE op = "PUSH" -> <<Operand(f)>>
          [] op = "POP" -> <<>>
          [] op = "DUP" -> <<b, b>>
          [] op = "SWAP" -> <<b, a>>
          [] op = "ISZERO" -> <<b2u(b = 0)>>
          [] op = "NOT" -> <<(Word - 1 - b) % Word>>
          [] op = "SLOAD" -> <<At(f.work, b, 0)>>
          [] op = "CDLOAD" -> <<word(f.input, b)>>
          [] op = "BLEN" -> <<Len(At(f.bwork, b, <<>>))>>
          [] op = "BHASH" -> <<Digest(At(f.bwork, b, <<>>))>>
          [] op = "BEQ" -> <<b2u(At(f.bwork, a, <<>>) = At(f.bwork, b, <<>>))>>
          [] op = "CALLER" -> <<f.caller>>
          [] op = "VALUE" -> <<f.value>>
          [] op = "BAL" -> <<Balance(f.self)>>
          [] op = "SELF" -> <<f.self>>
          [] op = "CDLEN" -> <<WordBytes * Len(f.input)>>
          [] OTHER -> <<binop(op, a, b)>>

\* How the stack grows.
Pushes(op) == CASE op = "DUP" -> 2
                [] op \in Context \cup {"PUSH"} -> 1
                [] OTHER -> 0

-----------------------------------------------------------------------------
(* Steps *)

\* The gas of the instruction at pc; LOG pays for its topics too.
Cost(f) == gasCost(Cell(f).op)
             + (IF Cell(f).op = "LOG" THEN 8 * Arg(f, 1) ELSE 0)

\* The instruction at pc runs: ExecuteB has no error to return for it.
Runs(f) ==
    LET op == Cell(f).op
        n == Len(f.stack)
    IN  /\ f.steps < MaxSteps
        /\ op \in Opcodes \ {"REVERT"}
        /\ f.used + Cost(f) <= f.gas
        /\ n >= Pops(op)
        /\ n - Pops(op) + Pushes(op) <= MaxStack
        /\ op = "PUSH" => HasOperand(f)
        /\ op \in Binary => ~ Overflows(op, Arg(f, 2), Arg(f, 1))
        /\ op = "JUMP" => int(Arg(f, 1)) < Len(f.code)
        /\ op = "JUMPI" /\ Arg(f, 2) # 0 => int(Arg(f, 1)) < Len(f.code)
        /\ op = "LOG" => Arg(f, 1) <= MaxTopics /\ n > Arg(f, 1)
        /\ op = "BSTORE" =>
              LET end == (Arg(f, 2) + Arg(f, 3)) % Word
              IN  end <= WordBytes * Len(f.input) /\ end >= Arg(f, 2)

InCode(f) == 0 <= f.pc /\ f.pc < Len(f.code)

\* The running frame is at an instruction of `ops` that runs.
Fetch(ops) == /\ frames # <<>>
            /\ InCode(Top)
            /\ Cell(Top).op \in ops
            /\ Runs(Top)

\* The frame after fetching and paying for its instruction, its operands
\* popped and `pushed` on the stack.
Step(f, pushed) ==
    [f EXCEPT !.steps = f.steps + 1,
              !.used = f.used + Cost(f),
              !.pc = f.pc + (IF Cell(f).op = "PUSH" THEN 2 ELSE 1),
              !.stack = Below(f, Pops(Cell(f).op)) \o pushed]

outside == <<storage, bstorage, logs, request, outcome, calls>>

Operate ==
    /\ Fetch(Simple)
    /\ Cell(Top).op = "CDLOAD" => Readable(Top.input, Arg(Top, 1))
    /\ frames' = SetTop(Step(Top, Result(Top)))
    /\ UNCHANGED outside

\* SSTORE and the byte stores write the working copy.
Store ==
    LET f == Top
        op == Cell(f).op
        blob == CASE op = "BSTORE" -> Slice(f.input, Arg(f, 2), Arg(f, 3))
                  [] op = "CALLERB" -> f.from
                  [] OTHER -> AddressBytes(f.self)
    IN  /\ Fetch(Stores)
        /\ frames' = SetTop(
              IF op = "SSTORE"
              THEN [Step(f, <<>>) EXCEPT !.work = With(f.work, Arg(f, 2), Arg(f, 1))]
              ELSE [Step(f, <<>>) EXCEPT !.bwork = With(f.bwork, Arg(f, 1), blob)])
        /\ UNCHANGED outside

\* Mutant: the pc is incremented after a jump that is taken.
JumpPast ==
    LET f == Top
        taken == Cell(f).op = "JUMP" \/ Arg(f, 2) # 0
    IN  /\ Fetch({"JUMP", "JUMPI"})
        /\ frames' = SetTop([Step(f, <<>>) EXCEPT
                               !.pc = IF taken THEN int(Arg(f, 1)) + 1 ELSE f.pc + 1])
        /\ UNCHANGED outside

Jump ==
    LET f == Top
        taken == Cell(f).op = "JUMP" \/ Arg(f, 2) # 0
    IN  /\ Fetch({"JUMP", "JUMPI"})
        /\ frames' = SetTop([Step(f, <<>>) EXCEPT
                               !.pc = IF taken THEN int(Arg(f, 1)) ELSE f.pc + 1])
        /\ UNCHANGED outside

\* The topics are popped in reverse, which restores their order.
Log ==
    LET f == Top
        n == Arg(f, 1)
        topics == SubSeq(f.stack, Len(f.stack) - n, Len(f.stack) - 1)
    IN  /\ Fetch({"LOG"})
        /\ frames' = SetTop([Step(f, <<>>) EXCEPT
                               !.stack = Below(f, n + 1),
                               !.logs = Append(f.logs, topics)])
        /\ UNCHANGED outside

-----------------------------------------------------------------------------
(* Calls *)

\* execContract, and QueryContractRaw, work on a copy of what is stored.
Frame(c, caller, from, input, value, gas) ==
    [self |-> c, code |-> Code[c], caller |-> caller, from |-> from,
     input |-> input, value |-> value, gas |-> gas, used |-> 0, steps |-> 0,
     pc |-> 0, stack |-> <<>>, work |-> storage[c], bwork |-> bstorage[c], logs |-> <<>>]

\* A call transaction of a block, or a query, reaches a contract.  A query
\* has no full caller address and, with gas 0, a default budget.
Invoke(r) ==
    /\ frames = <<>>
    /\ calls < MaxCalls
    /\ calls' = calls + 1
    /\ frames' = <<IF r.query
                   THEN Frame(r.to, r.caller, <<>>, r.input, 0,
                              IF r.gas = 0 THEN QueryGas ELSE r.gas)
                   ELSE Frame(r.to, r.caller, AddressBytes(r.caller), r.input,
                              r.value, r.gas)>>
    /\ request' = [call |-> r, storage |-> storage, bstorage |-> bstorage,
                   logs |-> logs]
    /\ outcome' = None
    /\ UNCHANGED <<storage, bstorage, logs>>

\* The host resolves the target; a query has no host.
Callable(f) == /\ ~ request.call.query
               /\ Len(frames) <= MaxDepth
               /\ Arg(f, 3) \in Contracts

\* Mutant: all of the requested gas is forwarded.
ForwardAll(f) == Arg(f, 1)

\* What CALL forwards: at most the gas that remains.
Forward(f) == LET rest == f.gas - f.used - Cost(f)
              IN  IF Arg(f, 1) > rest THEN rest ELSE Arg(f, 1)

CallOut ==
    LET f == Top
    IN  /\ Fetch({"CALL"})
        /\ Callable(f)
        /\ frames' = Append(SetTop(Step(f, <<>>)),
                            Frame(Arg(f, 3), f.self, <<>>, <<Arg(f, 2)>>, 0,
                                  Forward(f)))
        /\ UNCHANGED outside

CallRefused ==
    /\ Fetch({"CALL"})
    /\ ~ Callable(Top)
    /\ frames' = SetTop(Step(Top, <<0>>))
    /\ UNCHANGED outside

\* The caller goes on with the callee's gas charged and `v` pushed.  The test
\* used > gas that follows in the code is never true (GasBounded).
Resume(used, v) ==
    LET f == Callers[Len(Callers)]
    IN  [Callers EXCEPT ![Len(Callers)] =
            [f EXCEPT !.used = f.used + used, !.stack = Append(f.stack, v)]]

\* commitB, then execContract's write-back and the caller's next step.
Commit(f, used, ret, bytes) ==
    /\ IF request.call.query
       THEN UNCHANGED <<storage, bstorage, logs>>
       ELSE /\ storage' = [storage EXCEPT ![f.self] = f.work]
            /\ bstorage' = [bstorage EXCEPT ![f.self] = f.bwork]
            /\ logs' = logs \o [i \in 1..Len(f.logs) |->
                                   [contract |-> f.self, topics |-> f.logs[i]]]
    /\ IF Callers = <<>>
       THEN /\ frames' = <<>>
            /\ outcome' = [ok |-> TRUE, ret |-> ret, bytes |-> bytes, used |-> used]
       ELSE /\ frames' = Resume(used, ret)
            /\ UNCHANGED outcome
    /\ UNCHANGED <<request, calls>>

Halt ==
    LET f == Top
        op == Cell(f).op
    IN  /\ Fetch(Ends)
        /\ Commit(f, f.used + Cost(f),
                  IF op = "RETURN" THEN Arg(f, 1) ELSE 0,
                  IF op = "RETURNB" THEN At(f.bwork, Arg(f, 1), <<>>) ELSE <<>>)

\* The pc ran past the last instruction.
EndOfCode ==
    /\ frames # <<>>
    /\ Top.pc >= Len(Top.code)
    /\ Commit(Top, Top.used, 0, <<>>)

\* Any error: the working copies are dropped and all of the gas is charged.
Abort ==
    /\ frames # <<>>
    /\ InCode(Top)
    /\ ~ Runs(Top)
    /\ IF Callers = <<>>
       THEN frames' = <<>> /\ outcome' = [None EXCEPT !.used = Top.gas]
       ELSE frames' = Resume(Top.gas, 0) /\ UNCHANGED outcome
    /\ UNCHANGED <<storage, bstorage, logs, request, calls>>

-----------------------------------------------------------------------------
NoRequest == [call |-> [query |-> FALSE], storage |-> <<>>, bstorage |-> <<>>,
              logs |-> <<>>]

Init ==
    /\ storage = [c \in Contracts |-> <<>>]
    /\ bstorage = [c \in Contracts |-> <<>>]
    /\ logs = <<>>
    /\ frames = <<>>
    /\ request = NoRequest
    /\ outcome = None
    /\ calls = 0

Instruction == Operate \/ Store \/ Jump \/ Log \/ CallOut \/ CallRefused
                 \/ Halt \/ EndOfCode \/ Abort

Next == (\E r \in Requests : Invoke(r)) \/ Instruction

Spec == Init /\ [][Next]_vars

\* A call runs to its end under the lock of the state.
FairSpec == Spec /\ WF_vars(Instruction)

-----------------------------------------------------------------------------
(* Properties *)

Words == Nat

\* The call stack respects the depth, stack and step limits of ExecuteB, and
\* storage belongs to contracts only.
TypeOK ==
    /\ DOMAIN storage = Contracts
    /\ DOMAIN bstorage = Contracts
    /\ \A c \in Contracts : \A k \in DOMAIN storage[c] : storage[c][k] \in Words
    /\ calls \in 0..MaxCalls
    /\ Len(frames) <= MaxDepth + 1
    /\ \A i \in 1..Len(frames) :
          /\ frames[i].self \in Contracts
          /\ frames[i].steps <= MaxSteps
          /\ frames[i].used \in Nat
          /\ Len(frames[i].stack) <= MaxStack

\* Gas bounds the whole tree of calls: a call never uses more than it was
\* given, and what it gives to a callee it still has itself
\* (vm.ExecuteB, the clamp of CALL and the charge after it).
GasBounded ==
    /\ \A i \in 1..Len(frames) : frames[i].used <= frames[i].gas
    /\ \A i \in 1..Len(frames) - 1 :
          frames[i].used + frames[i + 1].gas <= frames[i].gas
    /\ frames = <<>> /\ calls > 0 =>
          outcome.used <= request.call.gas \/ request.call.gas = 0

\* A call that fails leaves no storage, bytes or events behind, its nested
\* calls included (SMART-CONTRACTS.md: "Nested storage changes commit only if
\* the whole transaction succeeds").
FailedCallChangesNothing ==
    frames = <<>> /\ calls > 0 /\ ~ outcome.ok =>
       /\ storage = request.storage
       /\ bstorage = request.bstorage
       /\ logs = request.logs

\* A query changes nothing, whatever the contract does (QueryContractRaw).
QueriesReadOnly ==
    [][request'.call.query => UNCHANGED <<storage, bstorage, logs>>]_vars

\* Every call halts: gas and the step limit bound loops and recursion.
Halts == [](frames # <<>> => <>(frames = <<>>))

=============================================================================
