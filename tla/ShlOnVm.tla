------------------------------- MODULE ShlOnVm -------------------------------
(***************************************************************************)
(* SHL programs on the contract machine: the contract named by the word i    *)
(* holds the code compiled from the text of Programs[i], and what a call of  *)
(* it does is compared with what the program means.                          *)
(***************************************************************************)
EXTENDS ShlCode

CONSTANTS
    Programs,               \* a sequence of syntax trees
    AmpleGas,               \* enough for any call of a program
    localBase, stateBase, Selector(_)

Shl == INSTANCE Shl

Text == INSTANCE ShlText

Source == INSTANCE ShlSemantics

\* What shl.Parse makes of the text of a program.
Parsed == [i \in 1..Len(Programs) |-> Text!Parse(Text!WriteAll(Programs[i])).n]

Generated == [i \in 1..Len(Programs) |-> Shl!Generate(Parsed[i])]

Compiled == [i \in 1..Len(Programs) |-> Shl!Compile(Parsed[i])]

\* The compiler emits code of the shape.
ASSUME ProgramsCompile ==
    \A i \in 1..Len(Programs) : i \in Contracts /\ Code[i] = Compiled[i]
                                                /\ Generated[i].ok
                                                /\ Shaped(Compiled[i])

-----------------------------------------------------------------------------
(* The machine's storage and the locations of the source *)

KeyOf(g, loc) == CASE loc[1] = "state" -> g.state[loc[2]]
                   [] loc[1] = "map" -> Mix(g.state[loc[2]], loc[3])
                   [] OTHER -> loc[2]

Locations(g) == {<<"state", n>> : n \in DOMAIN g.state}
                  \cup {<<"raw", k>> : k \in 0..Word - 1}
                  \cup {<<"map", n, k>> : n \in DOMAIN g.state, k \in 0..Word - 1}

\* What the source says of the finished call.
Meaning(g) ==
    LET r == request.call
        call == [caller |-> r.caller, value |-> IF r.query THEN 0 ELSE r.value,
                 balance |-> Balance(r.to), self |-> r.to, input |-> r.input]
        before == [loc \in Locations(g) |->
                      At(request.storage[r.to], KeyOf(g, loc), 0)]
    IN  Source!Call(Programs[r.to],
                    [call |-> call, state |-> DOMAIN g.state, before |-> before],
                    Selector)

Finished == frames = <<>> /\ calls > 0 /\ request.call.to \in 1..Len(Programs)

\* The keys of locals, which the source does not see.
Hidden(k) == localBase <= k /\ k < Word

-----------------------------------------------------------------------------
(* Properties *)

\* The compiled code does what the program means (shl.Compile on
\* vm.ExecuteB): the same result, events and storage when the call succeeds,
\* a revert exactly when the program faults, if the gas is ample, and nothing
\* changed by a call that fails.
CompiledIsSource ==
    Finished =>
       \E g \in {Generated[request.call.to]} : \E m \in {Meaning(g)} :
       LET r == request.call
           now == storage[r.to]
           was == request.storage[r.to]
           written == {loc \in DOMAIN m.mem : loc[1] # "local"}
       IN  /\ m.status = "fault" => ~ outcome.ok
           /\ m.status # "fault" /\ (r.query \/ r.gas >= AmpleGas) => outcome.ok
           /\ outcome.ok => outcome.ret = m.ret
           /\ outcome.ok /\ ~ r.query =>
                /\ \A loc \in written : At(now, KeyOf(g, loc), 0) = m.mem[loc]
                /\ \A k \in DOMAIN now :
                      Hidden(k) \/ At(was, k, 0) = now[k]
                                \/ \E loc \in written : KeyOf(g, loc) = k
                /\ logs = request.logs \o [i \in 1..Len(m.logs) |->
                                              [contract |-> r.to, topics |-> m.logs[i]]]
           /\ ~ outcome.ok => storage = request.storage /\ logs = request.logs

=============================================================================
