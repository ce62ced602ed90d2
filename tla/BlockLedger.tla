---------------------------- MODULE BlockLedger -----------------------------
(***************************************************************************)
(* What the ledger promises to the chain above it, without saying how      *)
(* blocks are applied: a block is applied entirely or not at all, supply   *)
(* grows only by the emission schedule, and some facts never go back.      *)
(* Ledger.tla is shown to implement this specification.                    *)
(***************************************************************************)
EXTENDS Integers

CONSTANTS Addr, GenesisVal, Treasury, Premine, Reward(_, _)

VARIABLES acct, validators, minted, height

absVars == <<acct, validators, minted, height>>

Init ==
    /\ height = 0
    /\ minted = Premine
    /\ \A a \in Addr :
          /\ acct[a].nonce = 0
          /\ acct[a].bal = IF a = Treasury THEN Premine ELSE 0
          /\ validators[a].active = (a = GenesisVal)
          /\ ~ validators[a].slashed

\* Nonces only grow (no transaction is accepted twice), a contract keeps its
\* code and never loses a committed run, a slashed validator stays slashed.
ApplyBlock ==
    /\ height' = height + 1
    /\ minted' \in {minted, minted + Reward(height + 1, minted)}
    /\ \A a \in Addr :
          /\ acct'[a].nonce >= acct[a].nonce
          /\ acct'[a].store >= acct[a].store
          /\ acct[a].code => acct'[a].code
          /\ validators[a].slashed => validators'[a] = validators[a]

Spec == Init /\ [][ApplyBlock]_absVars

=============================================================================
