-------------------------------- MODULE MCVm --------------------------------
(***************************************************************************)
(* The contract machine on compiled SHL programs and on a few contracts     *)
(* assembled by hand, for what the compiler does not emit.                  *)
(***************************************************************************)
EXTENDS ShlOnVm, Bitwise, TLC

MCAnd(a, b) == a & b

MCOr(a, b) == a | b

\* The digests are numbers above the words, one for every argument.
MCMix(base, k) == Word + base * Word + k

MCDigest(blob) == IF blob = <<>> THEN 0 ELSE blob[1][1]

MCSelector(name) == CASE name = "init" -> 1
                      [] name = "transfer" -> 2
                      [] name = "balanceOf" -> 3
                      [] name = "bump" -> 4

-----------------------------------------------------------------------------
(* Programs *)

Num(v) == [k |-> "Num", v |-> v]
Var(n) == [k |-> "Var", name |-> n]
Arg_(i) == [k |-> "Builtin", name |-> "arg", arg |-> Num(i)]
Of(n) == [k |-> "Builtin", name |-> n]
Sender == Of("caller")
Load(e) == [k |-> "Load", key |-> e]
Index(n, e) == [k |-> "Index", name |-> n, key |-> e]
Bin(op, l, r) == [k |-> "Binary", op |-> op, l |-> l, r |-> r]
Neg(x) == [k |-> "Unary", x |-> x]
Let(n, e) == [k |-> "Let", name |-> n, val |-> e]
Set(n, key, e) == [k |-> "IndexStore", name |-> n, key |-> key, val |-> e]
Raw(key, e) == [k |-> "Store", key |-> key, val |-> e]
Require(e) == [k |-> "Require", cond |-> e]
If(c, t, e) == [k |-> "If", cond |-> c, then |-> t, els |-> e]
While(c, b) == [k |-> "While", cond |-> c, body |-> b]
Emit(as) == [k |-> "Emit", args |-> as]
Return(e) == [k |-> "Return", val |-> e]
Stop == [k |-> "Stop"]
Revert == [k |-> "Revert"]
State(n) == [k |-> "State", name |-> n]
Fn(n, ps, b) == [k |-> "Fn", name |-> n, params |-> ps, body |-> b]

\* contracts/token.shl, with a small supply.
Token ==
    << State("balances"), State("supply"),
       Fn("init", <<>>,
          << Require(Bin("==", Var("supply"), Num(0))),
             Let("supply", Num(9)),
             Set("balances", Sender, Num(9)),
             Emit(<<Num(0), Sender, Num(9)>>) >>),
       Fn("transfer", <<"to", "amount">>,
          << Require(Bin(">=", Index("balances", Sender), Var("amount"))),
             Set("balances", Sender, Bin("-", Index("balances", Sender), Var("amount"))),
             Set("balances", Var("to"), Bin("+", Index("balances", Var("to")), Var("amount"))),
             Emit(<<Num(1), Sender, Var("to"), Var("amount")>>) >>),
       Fn("balanceOf", <<"who">>, << Return(Index("balances", Var("who"))) >>) >>

\* Loops, branches and the logical operators.
Loop ==
    << Let("i", Num(0)), Let("s", Num(0)),
       While(Bin("<", Var("i"), Arg_(0)),
             << Let("i", Bin("+", Var("i"), Num(1))),
                Let("s", Bin("+", Var("s"), Var("i"))),
                If(Bin("&&", Bin(">", Var("s"), Num(1)), Neg(Bin("==", Var("i"), Num(3)))),
                   << Raw(Var("i"), Var("s")) >>,
                   << Raw(Num(0), Var("i")),
                      If(Bin("||", Bin("!=", Var("i"), Num(3)), Bin("<=", Arg_(0), Num(3))),
                         <<>>, << Stop >>) >>) >>),
       If(Bin("==", Arg_(0), Num(4)), << Revert >>, <<>>),
       Return(Bin("*", Var("s"), Arg_(1))) >>

\* A prelude that every call runs, before the functions.
Bump ==
    << State("n"), Let("n", Bin("+", Var("n"), Num(7))),
       Fn("bump", <<"by">>, << Raw(Var("by"), Bin("%", Var("n"), Var("by"))),
                               Return(Bin("/", Var("n"), Load(Var("by")))) >>) >>

Contextual == << Return(Bin("+", Bin("+", Of("self"), Of("value")),
                            Bin("-", Of("balance"), Of("caller")))) >>

Mapped == << State("m"), Set("m", Arg_(0), Arg_(1)),
             Emit(<<Index("m", Arg_(0)), Num(1)>>), Return(Index("m", Arg_(0))) >>

\* Straight-line programs, one for each operator.
Ops == <<"+", "-", "*", "/", "%", "==", "!=", "<", ">", "<=", ">=">>

Straight == [i \in 1..Len(Ops) |-> << Return(Bin(Ops[i], Arg_(0), Arg_(1))) >>]

MCPrograms == Straight \o << Contextual, Mapped, Token, Loop, Bump >>

-----------------------------------------------------------------------------
(* Contracts assembled by hand *)

P(v) == <<[op |-> "PUSH", v |-> 0], [op |-> "DATA", v |-> v]>>
I(op) == <<[op |-> op, v |-> 0]>>

\* Their names: the contract that runs programs[i] is the word i.
Counter == Len(Programs) + 1
Bytes == Len(Programs) + 2
Bits == Len(Programs) + 3
Spin == Len(Programs) + 4
Deep == Len(Programs) + 5
Rollback == Len(Programs) + 6

\* storage[arg(0)] += 1, an event, and the new value: called by the others.
CounterCode == P(0) \o I("CDLOAD") \o I("DUP") \o I("SLOAD") \o P(1) \o I("ADD")
                 \o P(0) \o I("CDLOAD") \o I("SLOAD") \o P(1) \o I("ADD")
                 \o P(1) \o I("LOG") \o I("SSTORE")
                 \o P(0) \o I("CDLOAD") \o I("SLOAD") \o I("RETURN")

\* The caller's address against the address in the calldata.
BytesCode == P(1) \o I("CALLERB") \o I("CDLEN") \o P(0) \o P(2) \o I("BSTORE")
               \o P(1) \o P(2) \o I("BEQ") \o P(1) \o I("BLEN") \o I("ADD")
               \o P(2) \o I("BHASH") \o I("SWAP") \o I("SSTORE")
               \o P(3) \o I("SELFB") \o P(3) \o I("RETURNB")

BitsCode == P(6) \o I("NOT") \o P(3) \o I("SUB") \o P(7) \o I("MUL") \o P(5)
              \o I("AND") \o P(2) \o I("OR") \o I("DUP") \o I("POP")

\* A loop that only the gas ends.
SpinCode == P(0) \o I("JUMP")

\* Calls the counter and then itself, as deep as it may.
DeepCode == P(Counter) \o P(1) \o P(400) \o I("CALL")
              \o P(Deep) \o P(2) \o P(511) \o I("CALL") \o I("ADD") \o I("RETURN")

\* Calls the counter and reverts.
RollbackCode == P(Counter) \o P(1) \o P(400) \o I("CALL") \o I("REVERT")

Assembled == << CounterCode, BytesCode, BitsCode, SpinCode, DeepCode, RollbackCode >>

MCContracts == 1..(Len(Programs) + Len(Assembled))

MCCode == Compiled \o Assembled

MCBalance(c) == 30

-----------------------------------------------------------------------------
(* Calls *)

User == 31

Plenty == 3000

Tx(c, in) == [to |-> c, caller |-> User, input |-> in, value |-> 5, gas |-> Plenty,
              query |-> FALSE]
Ask(c, in) == [Tx(c, in) EXCEPT !.query = TRUE, !.gas = 0]

MappedId == Len(Straight) + 2
TokenId == Len(Straight) + 3
LoopId == Len(Straight) + 4
BumpId == Len(Straight) + 5

\* One call of a straight-line program, on words at the edges.
OperatorCalls == {Tx(c, <<a, b>>) : c \in 1..(Len(Straight) + 1),
                                    a \in {0, 7, 256, 511}, b \in {0, 2, 7, 256}}

ProgramCalls ==
    {Tx(TokenId, in) : in \in {<<1>>, <<2, 3, 4>>, <<2, User, 9>>, <<2, 3>>, <<9>>, <<>>}}
    \cup {[Tx(TokenId, <<2, 3, 4>>) EXCEPT !.gas = 300], Ask(TokenId, <<3, 3>>),
          Ask(TokenId, <<2, 3, 4>>)}
    \cup {Tx(LoopId, <<n, 3>>) : n \in 0..5}
    \cup {Tx(MappedId, <<3, 4>>)}
    \cup {Tx(BumpId, in) : in \in {<<4, 4>>, <<4, 7>>, <<4, 0>>}}

AssembledCalls ==
    {Tx(c, <<User>>) : c \in {Counter, Bytes, Bits, Spin, Deep}}
    \cup {Tx(Bytes, <<>>), Ask(Deep, <<0>>), [Tx(Deep, <<1>>) EXCEPT !.gas = 400]}

PassCalls == OperatorCalls \cup ProgramCalls \cup AssembledCalls

NestedCalls == {Tx(Rollback, <<>>)}

=============================================================================
