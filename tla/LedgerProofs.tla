---------------------------- MODULE LedgerProofs ----------------------------
(***************************************************************************)
(* Proofs about Ledger for any set of addresses, transactions and economic *)
(* parameters: types and the supply cap, the soundness of the validator    *)
(* registry, that ApplyBlock implements BlockLedger, that money is         *)
(* conserved, that only signers pay, and that faucet claims are paced.     *)
(***************************************************************************)
EXTENDS Ledger, DataLemmas

\* Most steps are first-order; the few that calculate name SMT.
USE Zenon

-----------------------------------------------------------------------------
(* Amounts *)

\* A uint64 sum of two words is a word.
LEMMA WrapType ==
    ASSUME NEW x \in Amounts, NEW y \in Amounts
    PROVE  Wrap(x + y) \in Amounts
BY EconomyAssumption, SMT DEF Wrap, Amounts

\* economy.BlockReward never lets the total minted exceed the cap.
LEMMA RewardWithinCap ==
    ASSUME NEW h \in Nat, NEW m \in 0 .. MaxSupply
    PROVE  /\ BlockReward(h, m) \in Nat
           /\ m + BlockReward(h, m) \in 0 .. MaxSupply
<1>1. h \div HalvingInterval \in Nat
  BY EconomyAssumption, SMT
<1>2. CASE m >= MaxSupply \/ h \div HalvingInterval >= 64
  BY <1>2, EconomyAssumption, SMT DEF BlockReward
<1>3. CASE ~ (m >= MaxSupply \/ h \div HalvingInterval >= 64)
  <2>1. h \div HalvingInterval \in 0 .. 63
    BY <1>1, <1>3, SMT
  <2>2. Subsidy[h \div HalvingInterval] \in Nat
    BY <2>1, EconomyAssumption
  <2>3. QED
    BY <1>3, <2>2, EconomyAssumption, SMT DEF BlockReward
<1>4. QED
  BY <1>2, <1>3

-----------------------------------------------------------------------------
(* Accounts *)

Accounts == [Addr -> Account]

\* Nonces and contracts only move forward from `old` to `new`.
Grows(old, new) ==
    \A a \in Addr : /\ new[a].nonce >= old[a].nonce
                    /\ new[a].store >= old[a].store
                    /\ old[a].code => new[a].code

\* `new` differs from `old` only on S.
OnlyOn(S, old, new) == \A a \in Addr \ S : new[a] = old[a]

\* Crediting an account changes that account's balance and nothing else.
LEMMA CreditEffect ==
    ASSUME NEW ac \in Accounts, NEW b \in Addr, NEW n \in Amounts
    PROVE  /\ Credit(ac, b, n) \in Accounts
           /\ Grows(ac, Credit(ac, b, n))
           /\ OnlyOn({b}, ac, Credit(ac, b, n))
<1> DEFINE new == [ac[b] EXCEPT !.bal = Wrap(ac[b].bal + n)]
<1>1. ac[b] \in Account
  BY DEF Accounts
<1>2. Wrap(ac[b].bal + n) \in Amounts
  BY <1>1, WrapType DEF Account
<1>3. /\ new \in Account
      /\ new.nonce = ac[b].nonce /\ new.store = ac[b].store
      /\ new.code = ac[b].code
  BY <1>1, <1>2 DEF Account
<1>4. Credit(ac, b, n) = [ac EXCEPT ![b] = new]
  BY DEF Credit
<1>5. \A a \in Addr : ac[a].nonce \in Nat /\ ac[a].store \in Nat
  BY DEF Accounts, Account
<1> HIDE DEF new
<1>6. QED
  BY <1>3, <1>4, <1>5, SMT DEF Accounts, Grows, OnlyOn

\* Debiting the sender of a payable transaction stays in range, bumps the
\* nonce and touches nobody else.
LEMMA DebitEffect ==
    ASSUME acct \in Accounts, NEW t \in Txs, Payable(t)
    PROVE  /\ Debit(t) \in Accounts
           /\ Grows(acct, Debit(t))
           /\ OnlyOn({t.from}, acct, Debit(t))
<1> DEFINE new == [bal |-> acct[t.from].bal - Total(t),
                   nonce |-> acct[t.from].nonce + 1,
                   code |-> acct[t.from].code, store |-> acct[t.from].store]
<1>1. t \in TxType /\ t.from \in Addr
  BY AddrAssumption DEF TxType
<1>2. acct[t.from] \in Account
  BY <1>1 DEF Accounts
<1>3. Total(t) \in Amounts
  BY <1>1, WrapType DEF Total, TxType
<1>4. acct[t.from].bal - Total(t) \in Amounts
  BY <1>2, <1>3, EconomyAssumption, SMT DEF Payable, Amounts, Account
<1>5. /\ new \in Account
      /\ new.nonce >= acct[t.from].nonce /\ new.store = acct[t.from].store
      /\ new.code = acct[t.from].code
  BY <1>2, <1>4, SMT DEF Account
<1>6. Debit(t) = [acct EXCEPT ![t.from] = new]
  BY <1>1, <1>2, SMT DEF Debit, Accounts, Account
<1>7. \A a \in Addr : acct[a].nonce \in Nat /\ acct[a].store \in Nat
  BY DEF Accounts, Account
<1> HIDE DEF new
<1>8. QED
  BY <1>1, <1>5, <1>6, <1>7, SMT DEF Accounts, Grows, OnlyOn

\* Forward movement composes.
LEMMA GrowsTrans ==
    ASSUME NEW x \in Accounts, NEW y \in Accounts, NEW z \in Accounts,
           Grows(x, y), Grows(y, z)
    PROVE  Grows(x, z)
<1>1. \A a \in Addr : /\ x[a].nonce \in Nat /\ x[a].store \in Nat
                      /\ y[a].nonce \in Nat /\ y[a].store \in Nat
                      /\ z[a].nonce \in Nat /\ z[a].store \in Nat
  BY DEF Accounts, Account
<1>2. QED
  BY <1>1, SMT DEF Grows

\* The heart of rollback(): as long as every account a step changes is
\* snapped in that step, the snapshot still restores the same accounts.
LEMMA SnapKeepsUndo ==
    ASSUME acct \in Accounts, saved \in [DOMAIN saved -> Account],
           DOMAIN saved \subseteq Addr,
           NEW S \in SUBSET Addr, NEW ac \in Accounts, OnlyOn(S, acct, ac)
    PROVE  /\ Restore(ac, Snap(S)) = Restore(acct, saved)
           /\ DOMAIN Snap(S) \subseteq Addr
           /\ Snap(S) \in [DOMAIN Snap(S) -> Account]
<1>1. DOMAIN Snap(S) = DOMAIN saved \cup S
  BY DEF Snap
<1>2. \A a \in DOMAIN saved \cup S :
         Snap(S)[a] = IF a \in DOMAIN saved THEN saved[a] ELSE acct[a]
  BY DEF Snap
<1>3. Snap(S) \in [DOMAIN saved \cup S -> Account]
  BY DEF Snap, Accounts
<1>4. \A a \in Addr : Restore(ac, Snap(S))[a] = Restore(acct, saved)[a]
  BY <1>1, <1>2 DEF Restore, OnlyOn
<1>5. Restore(ac, Snap(S)) = Restore(acct, saved)
  BY <1>4 DEF Restore
<1>6. QED
  BY <1>1, <1>3, <1>5

-----------------------------------------------------------------------------
(* What one transaction does to the accounts *)

\* The accounts move within S, which the step snaps, and forward only.
AccountsMove(S) ==
    /\ saved' = Snap(S)
    /\ acct' \in Accounts
    /\ OnlyOn(S, acct, acct')
    /\ Grows(acct, acct')

\* A debit of the sender followed by a credit.
LEMMA PayEffect ==
    ASSUME acct \in Accounts, NEW t \in Txs, Payable(t),
           NEW b \in Addr, NEW n \in Amounts
    PROVE  /\ Credit(Debit(t), b, n) \in Accounts
           /\ Grows(acct, Credit(Debit(t), b, n))
           /\ OnlyOn({t.from, b}, acct, Credit(Debit(t), b, n))
<1> DEFINE mid == Debit(t)
           new == Credit(mid, b, n)
<1>1. mid \in Accounts /\ Grows(acct, mid) /\ OnlyOn({t.from}, acct, mid)
  BY DebitEffect
<1> HIDE DEF mid
<1>2. new \in Accounts /\ Grows(mid, new) /\ OnlyOn({b}, mid, new)
  BY <1>1, CreditEffect
<1> HIDE DEF new
<1>3. Grows(acct, new)
  BY <1>1, <1>2, GrowsTrans
<1>4. OnlyOn({t.from, b}, acct, new)
  BY <1>1, <1>2 DEF OnlyOn
<1>5. QED
  BY <1>2, <1>3, <1>4 DEF new, mid

\* The bounty of a slash is a word.
LEMMA BountyType ==
    ASSUME validators \in [Addr -> Validator], NEW t \in Txs
    PROVE  Bounty(t) \in Amounts
<1>1. validators[t.accused].bond \in Amounts
  BY AddrAssumption DEF TxType, Validator
<1>2. QED
  BY <1>1, EconomyAssumption, SMT DEF Bounty, Amounts

\* Running contracts changes only the storage of the contracts committed.
LEMMA RunEffect ==
    ASSUME NEW ac \in Accounts, NEW t \in Txs
    PROVE  /\ RunContracts(ac, t) \in Accounts
           /\ Grows(ac, RunContracts(ac, t))
           /\ OnlyOn(Committed(t), ac, RunContracts(ac, t))
<1> DEFINE new(a) == [bal |-> ac[a].bal, nonce |-> ac[a].nonce,
                      code |-> ac[a].code, store |-> ac[a].store + 1]
<1>1. \A a \in Addr : [ac[a] EXCEPT !.store = ac[a].store + 1] = new(a)
  BY SMT DEF Accounts, Account
<1>2. \A a \in Addr : ac[a] \in Account
  BY DEF Accounts
<1>3. \A a \in Addr : new(a) \in Account
  BY <1>2, SMT DEF Account
<1>4. \A a \in Addr : RunContracts(ac, t)[a] =
                        IF a \in Committed(t) THEN new(a) ELSE ac[a]
  BY <1>1 DEF RunContracts
<1>5. RunContracts(ac, t) \in Accounts
  BY <1>2, <1>3, <1>4 DEF RunContracts, Accounts
<1>6. \A a \in Addr : ac[a].nonce \in Nat /\ ac[a].store \in Nat
  BY <1>2 DEF Account
<1>7. \A a \in Addr : /\ new(a).nonce = ac[a].nonce
                      /\ new(a).store = ac[a].store + 1
                      /\ new(a).code = ac[a].code
  OBVIOUS
<1> HIDE DEF new
<1>8. Grows(ac, RunContracts(ac, t))
  BY <1>4, <1>6, <1>7, SMT DEF Grows
<1>9. OnlyOn(Committed(t), ac, RunContracts(ac, t))
  BY <1>4 DEF OnlyOn
<1>10. QED
  BY <1>5, <1>8, <1>9

\* Every accepted transaction snaps every account it changes, and moves
\* nonces, code and storage forward only.
LEMMA StepMovesAccounts ==
    ASSUME TypeOK, NEW t \in Txs, Step(t)
    PROVE  \E S \in SUBSET Addr : AccountsMove(S)
<1>1. acct \in Accounts /\ validators \in [Addr -> Validator]
  BY DEF TypeOK, Accounts
<1>2. /\ t.from \in Addr /\ t.to \in Addr /\ t.accused \in Addr
      /\ t.created \in Addr /\ t.enters \subseteq Addr
      /\ t.amount \in Amounts /\ t.commits \subseteq t.enters
  BY AddrAssumption DEF TxType
<1>3. Payable(t)
  BY DEF Step, Transfer, Deploy, CallPlain, CallContract, Register, Slash,
         Unregister, Faucet, StorageProof, Take, Allowed
<1>4. CASE Transfer(t) \/ CallPlain(t)
  <2>1. AccountsMove({t.from, t.to})
    BY <1>1, <1>2, <1>3, <1>4, PayEffect DEF Transfer, CallPlain, AccountsMove
  <2>2. QED
    BY <1>2, <2>1
<1>5. CASE Deploy(t)
  <2> DEFINE mid == Credit(Debit(t), t.created, t.amount)
             new == [mid[t.created] EXCEPT !.code = TRUE]
  <2>1. /\ mid \in Accounts /\ Grows(acct, mid)
        /\ OnlyOn({t.from, t.created}, acct, mid)
    BY <1>1, <1>2, <1>3, PayEffect
  <2>2. acct' = [mid EXCEPT ![t.created].code = TRUE]
    BY <1>5 DEF Deploy
  <2>3. saved' = Snap({t.from, t.created})
    BY <1>5 DEF Deploy
  <2> HIDE DEF mid
  <2>4. mid[t.created] \in Account
    BY <1>2, <2>1 DEF Accounts
  <2>5. acct' = [mid EXCEPT ![t.created] = new]
    BY <2>2
  <2>6. /\ new \in Account
        /\ new.nonce = mid[t.created].nonce /\ new.store = mid[t.created].store
        /\ new.code
    BY <2>4 DEF Account
  <2>7. \A a \in Addr : mid[a].nonce \in Nat /\ mid[a].store \in Nat
    BY <2>1 DEF Accounts, Account
  <2> HIDE DEF new
  <2>8. acct' \in Accounts /\ OnlyOn({t.created}, mid, acct')
    BY <1>2, <2>1, <2>5, <2>6 DEF Accounts, OnlyOn
  <2>9. Grows(mid, acct')
    BY <1>2, <2>1, <2>5, <2>6, <2>7, SMT DEF Accounts, Grows
  <2>10. Grows(acct, acct')
    BY <1>1, <2>1, <2>8, <2>9, GrowsTrans
  <2>11. OnlyOn({t.from, t.created}, acct, acct')
    BY <2>1, <2>8 DEF OnlyOn
  <2>12. AccountsMove({t.from, t.created})
    BY <2>3, <2>8, <2>10, <2>11 DEF AccountsMove
  <2>13. QED
    BY <1>2, <2>12
<1>6. CASE CallContract(t)
  <2> DEFINE b == IF t.reverts THEN t.from ELSE t.to
             mid == Credit(Debit(t), b, t.amount)
  <2>1. /\ mid \in Accounts /\ Grows(acct, mid)
        /\ OnlyOn({t.from, b}, acct, mid)
    BY <1>1, <1>2, <1>3, PayEffect
  <2>2. acct' = RunContracts(mid, t) /\ saved' = Snap(CallSnaps(t))
    BY <1>6 DEF CallContract
  <2>3. /\ CallSnaps(t) \in SUBSET Addr
        /\ Committed(t) \subseteq CallSnaps(t)
        /\ {t.from, b} \subseteq CallSnaps(t)
    BY <1>2 DEF CallSnaps, Committed, Entered
  <2> HIDE DEF mid, b
  <2>4. /\ acct' \in Accounts /\ Grows(mid, acct')
        /\ OnlyOn(Committed(t), mid, acct')
    BY <2>1, <2>2, RunEffect
  <2>5. Grows(acct, acct')
    BY <1>1, <2>1, <2>4, GrowsTrans
  <2>6. OnlyOn(CallSnaps(t), acct, acct')
    BY <2>1, <2>3, <2>4 DEF OnlyOn
  <2>7. AccountsMove(CallSnaps(t))
    BY <2>2, <2>4, <2>5, <2>6 DEF AccountsMove
  <2>8. QED
    BY <2>3, <2>7
<1>7. CASE Register(t) \/ StorageProof(t)
  <2>1. AccountsMove({t.from})
    BY <1>1, <1>3, <1>7, DebitEffect, SMT DEF Register, StorageProof, AccountsMove
  <2>2. QED
    BY <1>2, <2>1
<1>8. CASE Slash(t)
  <2>1. Bounty(t) \in Amounts
    BY <1>1, BountyType
  <2>2. AccountsMove({t.from})
    BY <1>1, <1>2, <1>3, <1>8, <2>1, PayEffect, SMT DEF Slash, AccountsMove, OnlyOn
  <2>3. QED
    BY <1>2, <2>2
<1>9. CASE Unregister(t)
  <2>1. validators[t.from].bond \in Amounts
    BY <1>1, <1>2 DEF Validator
  <2>2. Wrap(validators[t.from].bond + t.amount) \in Amounts
    BY <1>2, <2>1, WrapType
  <2>3. AccountsMove({t.from})
    BY <1>1, <1>2, <1>3, <1>9, <2>2, PayEffect, SMT
       DEF Unregister, AccountsMove, OnlyOn
  <2>4. QED
    BY <1>2, <2>3
<1>10. CASE Faucet(t)
  <2> DEFINE mid == Debit(t)
             new == [bal |-> mid[Treasury].bal - FaucetAmount,
                     nonce |-> mid[Treasury].nonce,
                     code |-> mid[Treasury].code, store |-> mid[Treasury].store]
             low == [mid EXCEPT ![Treasury] = new]
  <2>1. mid \in Accounts /\ Grows(acct, mid) /\ OnlyOn({t.from}, acct, mid)
    BY <1>1, <1>3, DebitEffect
  <2>2. mid[Treasury].bal >= FaucetAmount
    BY <1>10 DEF Faucet, Take, Allowed, FaucetAllowed
  <2>3. /\ acct' = Credit([mid EXCEPT ![Treasury].bal = @ - FaucetAmount],
                          t.from, FaucetAmount)
        /\ saved' = Snap({t.from, Treasury})
    BY <1>10 DEF Faucet
  <2> HIDE DEF mid
  <2>4. mid[Treasury] \in Account
    BY <2>1, AddrAssumption DEF Accounts
  <2>5. FaucetAmount \in Amounts /\ mid[Treasury].bal - FaucetAmount \in Amounts
    BY <2>2, <2>4, ParamsAssumption, EconomyAssumption, SMT DEF Account, Amounts
  <2>6. [mid EXCEPT ![Treasury].bal = @ - FaucetAmount] = low
    <3>1. [mid[Treasury] EXCEPT !.bal = mid[Treasury].bal - FaucetAmount] = new
      BY <2>4, SMT DEF Account
    <3>2. QED
      BY <3>1
  <2>7. /\ new \in Account
        /\ new.nonce = mid[Treasury].nonce /\ new.store = mid[Treasury].store
        /\ new.code = mid[Treasury].code
    BY <2>4, <2>5 DEF Account
  <2>8. \A a \in Addr : mid[a].nonce \in Nat /\ mid[a].store \in Nat
    BY <2>1 DEF Accounts, Account
  <2> HIDE DEF new
  <2>9. low \in Accounts /\ OnlyOn({Treasury}, mid, low) /\ Grows(mid, low)
    BY <2>1, <2>7, <2>8, AddrAssumption, SMT DEF Accounts, OnlyOn, Grows
  <2> HIDE DEF low
  <2>10. /\ acct' \in Accounts /\ Grows(low, acct')
         /\ OnlyOn({t.from}, low, acct')
    BY <1>2, <2>3, <2>5, <2>6, <2>9, CreditEffect
  <2>11. Grows(acct, acct')
    BY <1>1, <2>1, <2>9, <2>10, GrowsTrans
  <2>12. OnlyOn({t.from, Treasury}, acct, acct')
    BY <2>1, <2>9, <2>10 DEF OnlyOn
  <2>13. AccountsMove({t.from, Treasury})
    BY <2>3, <2>10, <2>11, <2>12 DEF AccountsMove
  <2>14. QED
    BY <1>2, <2>13, AddrAssumption
<1>11. QED
  BY <1>4, <1>5, <1>6, <1>7, <1>8, <1>9, <1>10 DEF Step

-----------------------------------------------------------------------------
(* What one transaction does to the registry *)

\* A slashed validator's record is never touched again.
SlashedStay(old, new) ==
    \A a \in Addr : old[a].slashed => new[a] = old[a]

\* Replacing one seat by a sound one keeps the registry sound.
LEMMA SeatUpdate ==
    ASSUME NEW vs \in [Addr -> Validator], SoundRegistry(vs, H),
           NEW b \in Addr, ~ vs[b].slashed,
           NEW v \in Validator, SoundSeat(b, v, H)
    PROVE  /\ [vs EXCEPT ![b] = v] \in [Addr -> Validator]
           /\ SoundRegistry([vs EXCEPT ![b] = v], H)
           /\ SlashedStay(vs, [vs EXCEPT ![b] = v])
<1> DEFINE new == [vs EXCEPT ![b] = v]
<1>1. \A a \in Addr : new[a] = IF a = b THEN v ELSE vs[a]
  OBVIOUS
<1>2. new \in [Addr -> Validator]
  OBVIOUS
<1> HIDE DEF new
<1>3. SoundRegistry(new, H)
  BY <1>1 DEF SoundRegistry
<1>4. SlashedStay(vs, new)
  BY <1>1 DEF SlashedStay
<1>5. QED
  BY <1>2, <1>3, <1>4 DEF new

\* Every accepted transaction keeps the registry sound.
LEMMA StepKeepsRegistry ==
    ASSUME TypeOK, RegistrySound, NEW t \in Txs, Step(t)
    PROVE  /\ validators' \in [Addr -> Validator]
           /\ SoundRegistry(validators', H)
           /\ SlashedStay(validators, validators')
<1>1. /\ validators \in [Addr -> Validator] /\ SoundRegistry(validators, H)
      /\ H \in Nat \ {0} /\ height \in Nat
  BY SMT DEF TypeOK, RegistrySound, H
<1>2. t.from \in Addr /\ t.accused \in Addr /\ t.amount \in Amounts
  BY AddrAssumption DEF TxType
<1>3. CASE UNCHANGED validators
  BY <1>1, <1>3 DEF SlashedStay
<1>4. CASE Register(t)
  <2> DEFINE v == [NoValidator EXCEPT !.bond = t.amount, !.active = TRUE,
                                      !.since = H]
  <2>1. validators' = [validators EXCEPT ![t.from] = v]
    BY <1>4 DEF Register
  <2>2. t.amount >= MinBond /\ ~ validators[t.from].slashed
    BY <1>4 DEF Register, Take, Allowed, RegisterAllowed
  <2>3. /\ v.bond = t.amount /\ v.active /\ v.since = H
        /\ ~ v.slashed /\ v.score = 0 /\ v.lastProof = 0
    BY DEF NoValidator
  <2>4. v \in Validator
    BY <1>1, <1>2, EconomyAssumption DEF Validator, NoValidator, Amounts
  <2> HIDE DEF v
  <2>5. SoundSeat(t.from, v, H)
    BY <1>1, <2>2, <2>3, ParamsAssumption, SMT DEF SoundSeat
  <2>6. QED
    BY <1>1, <1>2, <2>1, <2>2, <2>4, <2>5, SeatUpdate
<1>5. CASE Slash(t)
  <2> DEFINE old == validators[t.accused]
             v == SlashedRecord(old)
  <2>1. validators' = [validators EXCEPT ![t.accused] = v]
    BY <1>5 DEF Slash
  <2>2. old \in Validator /\ SoundSeat(t.accused, old, H) /\ old.active
    BY <1>1, <1>2, <1>5
       DEF Slash, Take, Allowed, SlashAllowed, SoundRegistry
  <2>3. /\ v.bond = 0 /\ ~ v.active /\ v.since = old.since
        /\ v.score = 0 /\ v.lastProof = 0
    BY DEF NoValidator, SlashedRecord
  <2>4. ~ old.slashed
    BY <2>2 DEF SoundSeat
  <2>5. v \in Validator
    <3>1. old.since \in Nat
      BY <2>2 DEF Validator
    <3> HIDE DEF old
    <3>2. QED
      BY <3>1, EconomyAssumption, SMT
         DEF Validator, Amounts, NoValidator, SlashedRecord
  <2> HIDE DEF v
  <2>6. SoundSeat(t.accused, v, H)
    BY <1>1, <2>2, <2>3, ParamsAssumption, SMT DEF SoundSeat
  <2>7. QED
    BY <1>1, <1>2, <2>1, <2>4, <2>5, <2>6, SeatUpdate
<1>6. CASE Unregister(t)
  <2>1. validators' = [validators EXCEPT ![t.from] = NoValidator]
    BY <1>6 DEF Unregister
  <2>2. validators[t.from].active /\ SoundSeat(t.from, validators[t.from], H)
    BY <1>1, <1>2, <1>6
       DEF Unregister, Take, Allowed, UnregisterAllowed, SoundRegistry
  <2>3. ~ validators[t.from].slashed
    BY <2>2 DEF SoundSeat
  <2>4. NoValidator \in Validator
    BY EconomyAssumption, SMT DEF NoValidator, Validator, Amounts
  <2>5. SoundSeat(t.from, NoValidator, H)
    BY <1>1, ParamsAssumption, SMT DEF SoundSeat, NoValidator
  <2>6. QED
    BY <1>1, <1>2, <2>1, <2>3, <2>4, <2>5, SeatUpdate
<1>7. CASE StorageProof(t)
  <2> DEFINE old == validators[t.from]
             n == IF old.score < StorageCap THEN old.score + 1 ELSE old.score
             v == [[old EXCEPT !.score = n] EXCEPT !.lastProof = H]
  <2>1. old \in Validator /\ SoundSeat(t.from, old, H) /\ old.active
    BY <1>1, <1>2, <1>7
       DEF StorageProof, Take, Allowed, StorageProofAllowed, SoundRegistry
  <2>2. validators' = [validators EXCEPT
                          ![t.from].score = IF @ < StorageCap THEN @ + 1 ELSE @,
                          ![t.from].lastProof = H]
    BY <1>7 DEF StorageProof
  <2>3. validators' = [validators EXCEPT ![t.from] = v]
    BY <1>1, <1>2, <2>2
  <2>4. ~ old.slashed
    BY <2>1 DEF SoundSeat
  <2>5. n \in Nat /\ n <= StorageCap
    BY <2>1, ParamsAssumption, SMT DEF SoundSeat, Validator
  <2> HIDE DEF n, old
  <2>6. v \in Validator
    BY <1>1, <2>1, <2>5 DEF Validator
  <2>7. /\ v.bond = old.bond /\ (v.active <=> old.active)
        /\ v.since = old.since /\ (v.slashed <=> old.slashed)
        /\ v.score = n /\ v.lastProof = H
    BY <1>1, <2>1, <2>5 DEF Validator
  <2> HIDE DEF v
  <2>8. SoundSeat(t.from, v, H)
    BY <1>1, <2>1, <2>5, <2>7, SMT DEF SoundSeat
  <2>9. QED
    BY <1>1, <1>2, <2>3, <2>4, <2>6, <2>8, SeatUpdate DEF old
<1>8. QED
  BY <1>3, <1>4, <1>5, <1>6, <1>7
     DEF Step, Transfer, Deploy, CallPlain, CallContract, Faucet

-----------------------------------------------------------------------------
(* The inductive invariant *)

LedgerInv == TypeOK /\ RegistrySound /\ Undoable

\* The genesis ledger satisfies the invariant.
LEMMA InitInv == Init => LedgerInv
<1> SUFFICES ASSUME Init PROVE LedgerInv
  OBVIOUS
<1>1. [EmptyAccount EXCEPT !.bal = Premine] \in Account /\ EmptyAccount \in Account
  <2>1. EmptyAccount \in Account
    BY EconomyAssumption, SMT DEF EmptyAccount, Account, Amounts
  <2>2. Premine \in Amounts
    BY EconomyAssumption, SMT DEF Amounts
  <2>3. QED
    BY <2>1, <2>2 DEF Account
<1>2. acct \in [Addr -> Account]
  BY <1>1 DEF Init
<1>3. /\ [NoValidator EXCEPT !.active = TRUE] \in Validator
      /\ NoValidator \in Validator
  <2>1. NoValidator \in Validator
    BY EconomyAssumption, SMT DEF NoValidator, Validator, Amounts
  <2>2. QED
    BY <2>1 DEF Validator
<1>4. validators \in [Addr -> Validator]
  BY <1>3 DEF Init
<1>5. /\ DOMAIN saved = {} /\ saved \in [DOMAIN saved -> Account]
      /\ faucetClaims \in [Addr -> Nat \cup {Never}]
      /\ minted \in 0 .. MaxSupply /\ height = 0 /\ fees = 0 /\ ntx = 0
      /\ phase = "idle" /\ valBackup = validators
  BY EconomyAssumption DEF Init
<1>6. TypeOK
  <2>1. 0 \in Amounts
    BY EconomyAssumption, SMT DEF Amounts
  <2>2. DOMAIN saved \subseteq Addr
    BY <1>5
  <2>3. QED
    BY <1>2, <1>4, <1>5, <2>1, <2>2 DEF TypeOK
<1>7. SoundSeat(GenesisVal, [NoValidator EXCEPT !.active = TRUE], H)
  BY <1>5, ParamsAssumption, SMT DEF SoundSeat, NoValidator, H
<1>8. \A a \in Addr : SoundSeat(a, NoValidator, H)
  BY <1>5, ParamsAssumption, SMT DEF SoundSeat, NoValidator, H
<1>9. RegistrySound
  BY <1>7, <1>8 DEF Init, RegistrySound, SoundRegistry
<1>10. QED
  BY <1>5, <1>6, <1>9 DEF LedgerInv, Undoable

\* Soundness of a registry does not depend on the height except upwards.
LEMMA SoundLater ==
    ASSUME NEW vs \in [Addr -> Validator], NEW h \in Nat, NEW k \in Nat,
           h <= k, SoundRegistry(vs, h)
    PROVE  SoundRegistry(vs, k)
<1>1. \A a \in Addr : vs[a].since \in Nat /\ vs[a].lastProof \in Nat
  BY DEF Validator
<1>2. QED
  BY <1>1, SMT DEF SoundRegistry, SoundSeat

\* Every accepted transaction keeps the invariant.
LEMMA StepKeepsInv ==
    ASSUME LedgerInv, NEW t \in Txs, Step(t)
    PROVE  LedgerInv'
<1>1. /\ TypeOK /\ RegistrySound /\ Undoable /\ acct \in Accounts
      /\ t.fee \in Amounts /\ H \in Nat /\ t.from \in Addr
  BY AddrAssumption, SMT DEF LedgerInv, TypeOK, Accounts, TxType, H
<1>2. /\ phase = "apply" /\ fees' = Wrap(fees + t.fee) /\ ntx' = ntx + 1
      /\ UNCHANGED <<minted, height, phase, valBackup, pre>>
  BY DEF Step, Transfer, Deploy, CallPlain, CallContract, Register, Slash,
         Unregister, Faucet, StorageProof, Take
<1>3. PICK S \in SUBSET Addr : AccountsMove(S)
  BY <1>1, StepMovesAccounts
<1>4. /\ validators' \in [Addr -> Validator] /\ SoundRegistry(validators', H)
      /\ SlashedStay(validators, validators')
  BY <1>1, StepKeepsRegistry
<1>5. /\ Restore(acct', saved') = Restore(acct, saved)
      /\ DOMAIN saved' \subseteq Addr /\ saved' \in [DOMAIN saved' -> Account]
  BY <1>1, <1>3, SnapKeepsUndo DEF AccountsMove, TypeOK
<1>6. faucetClaims' \in [Addr -> Nat \cup {Never}]
  <2>1. \/ UNCHANGED faucetClaims
        \/ faucetClaims' = [faucetClaims EXCEPT ![t.from] = H]
    BY DEF Step, Transfer, Deploy, CallPlain, CallContract, Register, Slash,
           Unregister, Faucet, StorageProof
  <2>2. QED
    BY <1>1, <2>1 DEF TypeOK
<1>7. TypeOK'
  BY <1>1, <1>2, <1>3, <1>4, <1>5, <1>6, WrapType, SMT
     DEF TypeOK, AccountsMove, Accounts
<1>8. RegistrySound'
  BY <1>2, <1>4 DEF RegistrySound, H
<1>9. Undoable'
  <2>1. /\ pre.acct \in Accounts /\ Restore(acct, saved) = pre.acct
        /\ valBackup = pre.validators /\ SoundRegistry(valBackup, H)
        /\ Grows(pre.acct, acct)
        /\ SlashedStay(pre.validators, validators)
    BY <1>1, <1>2 DEF Undoable, Accounts, Grows, SlashedStay
  <2>2. Grows(pre.acct, acct')
    BY <1>1, <1>3, <2>1, GrowsTrans DEF AccountsMove
  <2>3. SlashedStay(pre.validators, validators')
    BY <1>4, <2>1 DEF SlashedStay
  <2>4. SoundRegistry(valBackup, H)'
    BY <1>2, <2>1 DEF H
  <2>5. Restore(acct, saved)' = pre.acct
    BY <1>5, <2>1 DEF Restore
  <2>6. QED
    BY <1>2, <2>1, <2>2, <2>3, <2>4, <2>5
       DEF Undoable, Grows, SlashedStay, Accounts
<1>10. QED
  BY <1>7, <1>8, <1>9 DEF LedgerInv

\* rollback() gives the accounts and the registry back as the block found
\* them, and keeps the invariant.
LEMMA RollbackRestores ==
    ASSUME LedgerInv, phase = "apply", NEW ac, NEW sv,
           Restore(ac, sv) = Restore(acct, saved), Rollback(ac, sv)
    PROVE  LedgerInv' /\ acct' = pre.acct /\ validators' = pre.validators
<1>1. TypeOK /\ RegistrySound /\ Undoable
  BY DEF LedgerInv
<1>2. /\ acct' = Restore(ac, sv) /\ validators' = valBackup /\ phase' = "idle"
      /\ UNCHANGED <<minted, height, faucetClaims, saved, valBackup, fees, ntx,
                     pre>>
  BY DEF Rollback
<1>3. /\ pre.acct \in [Addr -> Account] /\ Restore(acct, saved) = pre.acct
      /\ valBackup = pre.validators /\ SoundRegistry(valBackup, H)
  BY <1>1 DEF Undoable
<1>4. TypeOK'
  BY <1>1, <1>2, <1>3 DEF TypeOK
<1>5. RegistrySound'
  BY <1>2, <1>3 DEF RegistrySound, H
<1>6. Undoable'
  BY <1>2 DEF Undoable
<1>7. QED
  BY <1>2, <1>3, <1>4, <1>5, <1>6 DEF LedgerInv

\* A rejected transaction is rolled back after its sender was debited.
LEMMA RejectTxRestores ==
    ASSUME LedgerInv, NEW t \in Txs, RejectTx(t)
    PROVE  LedgerInv' /\ acct' = pre.acct /\ validators' = pre.validators
<1> DEFINE ac == IF Payable(t) THEN Debit(t) ELSE acct
<1>1. /\ acct \in Accounts /\ saved \in [DOMAIN saved -> Account]
      /\ DOMAIN saved \subseteq Addr
  BY DEF LedgerInv, TypeOK, Accounts
<1>2. t.from \in Addr
  BY AddrAssumption DEF TxType
<1>3. ac \in Accounts /\ OnlyOn({t.from}, acct, ac)
  BY <1>1, DebitEffect DEF OnlyOn
<1>4. phase = "apply" /\ Rollback(ac, Snap({t.from}))
  BY DEF RejectTx
<1> HIDE DEF ac
<1>5. Restore(ac, Snap({t.from})) = Restore(acct, saved)
  BY <1>1, <1>2, <1>3, SnapKeepsUndo
<1>6. QED
  BY <1>4, <1>5, RollbackRestores

\* Paying the validator of a committed block keeps the invariant and moves
\* no nonce, code or storage.
LEMMA CommitKeepsInv ==
    ASSUME LedgerInv, NEW v \in Addr, CommitCoinbase(v) \/ CommitNoCoinbase(v)
    PROVE  /\ LedgerInv' /\ phase = "apply" /\ phase' = "idle"
           /\ height' = height + 1 /\ Grows(acct, acct')
           /\ minted' \in {minted, minted + BlockReward(height + 1, minted)}
           /\ UNCHANGED validators
<1> DEFINE reward == BlockReward(H, minted)
<1>1. TypeOK /\ RegistrySound /\ Undoable
  BY DEF LedgerInv
<1>2. /\ acct \in Accounts /\ height \in Nat /\ minted \in 0 .. MaxSupply
      /\ fees \in Amounts /\ saved \in [DOMAIN saved -> Account]
      /\ DOMAIN saved \subseteq Addr /\ validators \in [Addr -> Validator]
  BY <1>1 DEF TypeOK, Accounts
<1>3. H \in Nat /\ H = height + 1
  BY <1>2, SMT DEF H
<1>4. reward \in Nat /\ minted + reward \in 0 .. MaxSupply
  BY <1>2, <1>3, RewardWithinCap
<1>5. reward \in Amounts /\ Wrap(minted + reward) = minted + reward
  BY <1>2, <1>4, EconomyAssumption, SMT DEF Amounts, Wrap
<1>6. PICK n \in Amounts : acct' = Credit(acct, v, n)
  BY <1>2, <1>5, WrapType DEF CommitCoinbase, CommitNoCoinbase
<1>7. minted' \in {minted, minted + reward}
  BY <1>5 DEF CommitCoinbase, CommitNoCoinbase
<1>8. /\ phase = "apply" /\ phase' = "idle" /\ height' = H
      /\ saved' \in {saved, Snap({v})}
      /\ UNCHANGED <<validators, faucetClaims, valBackup, fees, ntx>>
  BY DEF CommitCoinbase, CommitNoCoinbase
<1> HIDE DEF reward
<1>9. acct' \in Accounts /\ Grows(acct, acct')
  BY <1>2, <1>6, CreditEffect
<1>10. DOMAIN saved' \subseteq Addr /\ saved' \in [DOMAIN saved' -> Account]
  <2>1. OnlyOn({v}, acct, acct)
    BY DEF OnlyOn
  <2>2. /\ DOMAIN Snap({v}) \subseteq Addr
        /\ Snap({v}) \in [DOMAIN Snap({v}) -> Account]
    BY <1>2, <2>1, SnapKeepsUndo
  <2>3. QED
    BY <1>2, <1>8, <2>2
<1>11. TypeOK'
  BY <1>1, <1>2, <1>3, <1>4, <1>7, <1>8, <1>9, <1>10 DEF TypeOK, Accounts
<1>12. RegistrySound'
  <2>1. H' = H + 1 /\ SoundRegistry(validators, H)
    BY <1>1, <1>8 DEF H, RegistrySound
  <2>2. SoundRegistry(validators, H + 1)
    BY <1>2, <1>3, <2>1, SoundLater, SMT
  <2>3. QED
    BY <1>8, <2>1, <2>2 DEF RegistrySound
<1>13. Undoable'
  BY <1>8 DEF Undoable
<1>14. QED
  BY <1>3, <1>7, <1>8, <1>9, <1>11, <1>12, <1>13 DEF LedgerInv, reward

\* Starting a block takes the validator backup and an empty snapshot.
LEMMA BeginKeepsInv == LedgerInv /\ BeginBlock => LedgerInv'
<1> SUFFICES ASSUME LedgerInv, BeginBlock PROVE LedgerInv'
  OBVIOUS
<1>1. TypeOK /\ RegistrySound
  BY DEF LedgerInv
<1>2. /\ phase' = "apply" /\ valBackup' = validators /\ fees' = 0 /\ ntx' = 0
      /\ UNCHANGED <<acct, validators, minted, height, faucetClaims>>
      /\ DOMAIN saved' = {} /\ saved' \in [DOMAIN saved' -> Account]
  BY DEF BeginBlock, ledger
<1>3. pre'.acct = acct /\ pre'.validators = validators
  BY DEF BeginBlock, Snapshot
<1>4. 0 \in Amounts
  BY EconomyAssumption, SMT DEF Amounts
<1>5. TypeOK'
  BY <1>1, <1>2, <1>4 DEF TypeOK
<1>6. RegistrySound' /\ SoundRegistry(valBackup, H)'
  BY <1>1, <1>2 DEF RegistrySound, H
<1>7. Restore(acct, saved)' = acct
  BY <1>1, <1>2 DEF Restore, TypeOK
<1>8. \A a \in Addr : acct[a].nonce \in Nat /\ acct[a].store \in Nat
  BY <1>1 DEF TypeOK, Account
<1>9. Undoable'
  BY <1>1, <1>2, <1>3, <1>6, <1>7, <1>8, SMT DEF Undoable, TypeOK
<1>10. QED
  BY <1>5, <1>6, <1>9 DEF LedgerInv

-----------------------------------------------------------------------------
(* Theorems *)

\* Every step of ApplyBlock keeps the invariant.
LEMMA NextInv == LedgerInv /\ [Next]_vars => LedgerInv'
<1> SUFFICES ASSUME LedgerInv, [Next]_vars PROVE LedgerInv'
  OBVIOUS
<1>1. CASE BeginBlock
  BY <1>1, BeginKeepsInv
<1>2. ASSUME NEW t \in Txs, Step(t) PROVE LedgerInv'
  BY <1>2, StepKeepsInv
<1>3. ASSUME NEW t \in Txs, RejectTx(t) PROVE LedgerInv'
  BY <1>3, RejectTxRestores
<1>4. CASE RejectCoinbase
  BY <1>4, RollbackRestores DEF RejectCoinbase
<1>5. ASSUME NEW v \in Addr, CommitCoinbase(v) \/ CommitNoCoinbase(v)
      PROVE  LedgerInv'
  BY <1>5, CommitKeepsInv
<1>6. CASE UNCHANGED vars
  BY <1>6 DEF vars, ledger, LedgerInv, TypeOK, RegistrySound, Undoable, H,
              SoundRegistry, SoundSeat, Restore
<1>7. QED
  BY <1>1, <1>2, <1>3, <1>4, <1>5, <1>6 DEF Next

\* Balances and fees stay within uint64 and the total minted within
\* economy.MaxSupply at every point of every block, for any economy.
THEOREM LedgerTypes == Spec => []TypeOK
<1>1. Spec => []LedgerInv
  BY InitInv, NextInv, PTL DEF Spec
<1>2. LedgerInv => TypeOK
  BY DEF LedgerInv
<1>3. QED
  BY <1>1, <1>2, PTL

\* The validator registry of ApplyBlock is sound at every point of every
\* block: seats are paid for, slashed validators hold none, scores are capped.
THEOREM RegistryAlwaysSound == Spec => []RegistrySound
<1>1. Spec => []LedgerInv
  BY InitInv, NextInv, PTL DEF Spec
<1>2. LedgerInv => RegistrySound
  BY DEF LedgerInv
<1>3. QED
  BY <1>1, <1>2, PTL

\* At every point of a block, rollback() would restore exactly the accounts
\* and the registry the block found.
THEOREM AlwaysUndoable == Spec => []Undoable
<1>1. Spec => []LedgerInv
  BY InitInv, NextInv, PTL DEF Spec
<1>2. LedgerInv => Undoable
  BY DEF LedgerInv
<1>3. QED
  BY <1>1, <1>2, PTL

\* The genesis ledger is an initial state of BlockLedger.
LEMMA InitRefines == Init => BL!Init
<1> SUFFICES ASSUME Init PROVE BL!Init
  OBVIOUS
<1>1. Settled(acct, pre.acct) = acct /\ Settled(validators, pre.validators) = validators
  BY DEF Init, Settled
<1>2. \A a \in Addr : /\ acct[a].nonce = 0
                      /\ acct[a].bal = IF a = Treasury THEN Premine ELSE 0
  BY DEF Init, EmptyAccount
<1>3. \A a \in Addr : /\ validators[a].active = (a = GenesisVal)
                      /\ ~ validators[a].slashed
  BY DEF Init, NoValidator
<1>4. height = 0 /\ minted = Premine
  BY DEF Init
<1>5. QED
  BY <1>1, <1>2, <1>3, <1>4 DEF BL!Init

\* Every step of ApplyBlock is a step of BlockLedger or invisible to it.
LEMMA NextRefines == LedgerInv /\ [Next]_vars => [BL!ApplyBlock]_BL!absVars
<1> SUFFICES ASSUME LedgerInv, [Next]_vars
             PROVE  \/ BL!ApplyBlock
                    \/ UNCHANGED <<Settled(acct, pre.acct),
                                   Settled(validators, pre.validators),
                                   minted, height>>
  BY DEF BL!absVars
<1>1. CASE BeginBlock
  BY <1>1 DEF BeginBlock, Settled, Snapshot, ledger
<1>2. ASSUME NEW t \in Txs, Step(t)
      PROVE  UNCHANGED <<Settled(acct, pre.acct),
                         Settled(validators, pre.validators), minted, height>>
  BY <1>2 DEF Step, Transfer, Deploy, CallPlain, CallContract, Register, Slash,
              Unregister, Faucet, StorageProof, Take, Settled
<1>3. ASSUME NEW t \in Txs, RejectTx(t)
      PROVE  UNCHANGED <<Settled(acct, pre.acct),
                         Settled(validators, pre.validators), minted, height>>
  BY <1>3, RejectTxRestores DEF RejectTx, Rollback, Settled
<1>4. CASE RejectCoinbase
  BY <1>4, RollbackRestores DEF RejectCoinbase, Rollback, Settled
<1>5. ASSUME NEW v \in Addr, CommitCoinbase(v) \/ CommitNoCoinbase(v)
      PROVE  BL!ApplyBlock
  <2>1. /\ phase = "apply" /\ phase' = "idle"
        /\ height' = height + 1 /\ Grows(acct, acct')
        /\ minted' \in {minted, minted + BlockReward(height + 1, minted)}
        /\ UNCHANGED validators /\ LedgerInv'
    BY <1>5, CommitKeepsInv
  <2>2. /\ Settled(acct, pre.acct) = pre.acct
        /\ Settled(validators, pre.validators) = pre.validators
        /\ Settled(acct, pre.acct)' = acct'
        /\ Settled(validators, pre.validators)' = validators'
    BY <2>1 DEF Settled
  <2>3. /\ acct \in Accounts /\ acct' \in Accounts /\ pre.acct \in Accounts
        /\ Grows(pre.acct, acct)
        /\ SlashedStay(pre.validators, validators)
    BY <2>1 DEF LedgerInv, TypeOK, Accounts, Undoable, Grows, SlashedStay
  <2>4. Grows(pre.acct, acct')
    BY <2>1, <2>3, GrowsTrans
  <2>5. QED
    BY <2>1, <2>2, <2>3, <2>4 DEF BL!ApplyBlock, Grows, SlashedStay
<1>6. CASE UNCHANGED vars
  BY <1>6 DEF vars, ledger, Settled
<1>7. QED
  BY <1>1, <1>2, <1>3, <1>4, <1>5, <1>6 DEF Next

\* ApplyBlock, with its partial snapshot, implements the all-or-nothing
\* BlockLedger for any addresses, transactions and economy.
THEOREM LedgerImplementsBlockLedger == Spec => AtomicBlocks
<1>1. Spec => []LedgerInv
  BY InitInv, NextInv, PTL DEF Spec
<1>2. QED
  BY <1>1, InitRefines, NextRefines, PTL DEF Spec, AtomicBlocks, BL!Spec

-----------------------------------------------------------------------------
(* Money *)

Balances(ac) == SumFunction([a \in Addr |-> ac[a].bal])
Bonds(vs) == SumFunction([a \in Addr |-> vs[a].bond])

\* No balance is above the sum of all of them.
LEMMA BalancesNat ==
    ASSUME NEW ac \in Accounts
    PROVE  Balances(ac) \in Nat /\ \A a \in Addr : ac[a].bal <= Balances(ac)
<1> DEFINE f == [a \in Addr |-> ac[a].bal]
<1>1. \A a \in Addr : ac[a].bal \in Nat
  BY EconomyAssumption, SMT DEF Accounts, Account, Amounts
<1>2. f \in [Addr -> Nat] /\ \A a \in Addr : f[a] = ac[a].bal
  BY <1>1
<1> HIDE DEF f
<1>3. SumFunction(f) \in Nat /\ \A a \in Addr : f[a] <= SumFunction(f)
  BY <1>2, SumNat, AddrAssumption
<1> QED
  BY <1>2, <1>3 DEF Balances, f

LEMMA BalancesAreInts ==
    ASSUME NEW ac \in Accounts
    PROVE  \A a \in Addr : ac[a].bal \in Int
BY EconomyAssumption, SMT DEF Accounts, Account, Amounts

LEMMA BondsNat ==
    ASSUME NEW vs \in [Addr -> Validator]
    PROVE  Bonds(vs) \in Nat /\ \A a \in Addr : vs[a].bond <= Bonds(vs)
<1> DEFINE f == [a \in Addr |-> vs[a].bond]
<1>1. \A a \in Addr : vs[a].bond \in Nat
  BY EconomyAssumption, SMT DEF Validator, Amounts
<1>2. f \in [Addr -> Nat] /\ \A a \in Addr : f[a] = vs[a].bond
  BY <1>1
<1> HIDE DEF f
<1>3. SumFunction(f) \in Nat /\ \A a \in Addr : f[a] <= SumFunction(f)
  BY <1>2, SumNat, AddrAssumption
<1> QED
  BY <1>2, <1>3 DEF Bonds, f

\* Changing one account changes the sum of balances by the difference.
LEMMA BalancesUpdate ==
    ASSUME NEW ac \in Accounts, NEW new \in Accounts, NEW b \in Addr,
           OnlyOn({b}, ac, new)
    PROVE  Balances(new) = Balances(ac) - ac[b].bal + new[b].bal
<1> DEFINE f == [a \in Addr |-> ac[a].bal]
           e == [a \in Addr |-> new[a].bal]
<1>1. \A a \in Addr : ac[a].bal \in Int /\ new[a].bal \in Int
  BY EconomyAssumption, SMT DEF Accounts, Account, Amounts
<1>2. /\ f \in [Addr -> Int] /\ e \in [Addr -> Int]
      /\ \A a \in Addr : f[a] = ac[a].bal /\ e[a] = new[a].bal
  BY <1>1
<1> HIDE DEF f, e
<1>3. \A a \in Addr \ {b} : e[a] = f[a]
  BY <1>2 DEF OnlyOn
<1>4. SumFunction(e) = SumFunction(f) - f[b] + e[b]
  BY <1>2, <1>3, SumUpdate, AddrAssumption, SMT
<1> QED
  BY <1>2, <1>4 DEF Balances, f, e

LEMMA BondsUpdate ==
    ASSUME NEW vs \in [Addr -> Validator], NEW b \in Addr, NEW v,
           v.bond \in Int
    PROVE  Bonds([vs EXCEPT ![b] = v]) = Bonds(vs) - vs[b].bond + v.bond
<1> DEFINE new == [vs EXCEPT ![b] = v]
           f == [a \in Addr |-> vs[a].bond]
           e == [a \in Addr |-> new[a].bond]
<1>1. \A a \in Addr : vs[a].bond \in Int
  BY EconomyAssumption, SMT DEF Validator, Amounts
<1>2. \A a \in Addr : new[a] = IF a = b THEN v ELSE vs[a]
  OBVIOUS
<1> HIDE DEF new
<1>3. /\ f \in [Addr -> Int] /\ e \in [Addr -> Int]
      /\ \A a \in Addr : f[a] = vs[a].bond /\ e[a] = new[a].bond
  BY <1>1, <1>2
<1> HIDE DEF f, e
<1>4. \A a \in Addr \ {b} : e[a] = f[a]
  BY <1>2, <1>3
<1>5. SumFunction(e) = SumFunction(f) - f[b] + e[b]
  BY <1>3, <1>4, SumUpdate, AddrAssumption, SMT
<1>6. f[b] = vs[b].bond /\ e[b] = v.bond
  BY <1>2, <1>3
<1> QED
  BY <1>5, <1>6 DEF Bonds, f, e, new

\* Accounts that differ in no balance have the same sum.
LEMMA BalancesSame ==
    ASSUME NEW ac, NEW new, \A a \in Addr : new[a].bal = ac[a].bal
    PROVE  Balances(new) = Balances(ac)
<1>1. [a \in Addr |-> new[a].bal] = [a \in Addr |-> ac[a].bal]
  OBVIOUS
<1> QED
  BY <1>1 DEF Balances

\* A credit that fits a word adds its amount and lowers no balance.
LEMMA CreditMoney ==
    ASSUME NEW ac \in Accounts, NEW b \in Addr, NEW n \in Nat,
           Balances(ac) + n < Word
    PROVE  /\ Credit(ac, b, n) \in Accounts
           /\ Balances(Credit(ac, b, n)) = Balances(ac) + n
           /\ \A a \in Addr : /\ Credit(ac, b, n)[a].bal >= ac[a].bal
                              /\ Credit(ac, b, n)[a].nonce = ac[a].nonce
<1> DEFINE new == Credit(ac, b, n)
<1>1. /\ Balances(ac) \in Nat /\ ac[b].bal <= Balances(ac)
      /\ \A a \in Addr : ac[a].bal \in Nat
  BY BalancesNat, EconomyAssumption, SMT DEF Accounts, Account, Amounts
<1>2. n \in Amounts
  BY <1>1, EconomyAssumption, SMT DEF Amounts
<1>3. Wrap(ac[b].bal + n) = ac[b].bal + n
  BY <1>1, EconomyAssumption, SMT DEF Wrap
<1>4. new \in Accounts /\ OnlyOn({b}, ac, new)
  BY <1>2, CreditEffect
<1>5. ac[b] \in Account /\ DOMAIN ac = Addr
  BY DEF Accounts
<1>6. new[b].bal = ac[b].bal + n /\ new[b].nonce = ac[b].nonce
  BY <1>3, <1>5 DEF Credit, Account
<1> HIDE DEF new
<1>7. Balances(new) = Balances(ac) + n
  BY <1>1, <1>4, <1>6, BalancesUpdate, SMT
<1>8. \A a \in Addr : new[a].bal >= ac[a].bal /\ new[a].nonce = ac[a].nonce
  BY <1>1, <1>4, <1>6, SMT DEF OnlyOn
<1> QED
  BY <1>4, <1>7, <1>8 DEF new

\* The overflow test of ApplyBlock: a payable transaction costs Amount + Fee,
\* no more than its sender has.
LEMMA DebitMoney ==
    ASSUME acct \in Accounts, NEW t \in Txs, Payable(t)
    PROVE  /\ Debit(t) \in Accounts
           /\ t.amount \in Nat /\ t.fee \in Nat
           /\ t.amount + t.fee <= Balances(acct)
           /\ Balances(Debit(t)) = Balances(acct) - (t.amount + t.fee)
           /\ Debit(t)[t.from].nonce = acct[t.from].nonce + 1
           /\ \A a \in Addr \ {t.from} : Debit(t)[a] = acct[a]
<1> DEFINE new == Debit(t)
<1>1. /\ t.from \in Addr /\ t.amount \in Amounts /\ t.fee \in Amounts
  BY AddrAssumption DEF TxType
<1>2. t.amount \in Nat /\ t.fee \in Nat /\ Word \in Nat
  BY <1>1, EconomyAssumption, SMT DEF Amounts
<1>3. Total(t) = t.amount + t.fee
  BY <1>1, <1>2, SMT DEF Payable, Total, Wrap, Amounts
<1>4. /\ acct[t.from].bal >= Total(t) /\ acct[t.from].bal \in Nat
      /\ acct[t.from].bal <= Balances(acct) /\ Balances(acct) \in Nat
  BY <1>1, BalancesNat, EconomyAssumption, SMT DEF Payable, Accounts, Account, Amounts
<1>5. new \in Accounts /\ OnlyOn({t.from}, acct, new)
  BY DebitEffect
<1>6. acct[t.from] \in Account /\ DOMAIN acct = Addr
  BY <1>1 DEF Accounts
<1>7. /\ new[t.from].bal = acct[t.from].bal - Total(t)
      /\ new[t.from].nonce = acct[t.from].nonce + 1
  BY <1>1, <1>6 DEF Debit, Account
<1> HIDE DEF new
<1>8. Balances(new) = Balances(acct) - acct[t.from].bal + new[t.from].bal
  BY <1>1, <1>5, BalancesUpdate
<1>9. Balances(new) = Balances(acct) - (t.amount + t.fee)
  BY <1>2, <1>3, <1>4, <1>7, <1>8, SMT
<1> QED
  BY <1>2, <1>3, <1>4, <1>5, <1>7, <1>9, SMT DEF new, OnlyOn

\* What a block in progress holds: balances, bonds, the fees collected so far
\* and what was destroyed are what was minted.
Balanced == /\ burned \in Nat
            /\ Balances(acct) + Bonds(validators) + fees + burned = minted

\* A transaction keeps the books, lets its sender sign once and lowers no
\* other balance than the sender's and the treasury's.
Fair(t) ==
    /\ burned' \in Nat
    /\ Balances(acct') + Bonds(validators') + fees' + burned' = minted
    /\ acct'[t.from].nonce = acct[t.from].nonce + 1
    /\ \A a \in Addr \ {t.from, Treasury} : acct'[a].bal >= acct[a].bal

\* A share of a bond is not above it.
LEMMA ShareBelow ==
    ASSUME NEW x \in Nat, NEW d \in Nat \ {0}
    PROVE  x \div d \in Nat /\ x \div d <= x
BY SMT

\* What the step of every transaction has in common.
LEMMA TakeMoney ==
    ASSUME TypeOK, Balanced, NEW t \in Txs, Take(t)
    PROVE  /\ Payable(t) /\ t.from \in Addr
           /\ acct \in Accounts /\ validators \in [Addr -> Validator]
           /\ Balances(acct) \in Nat /\ Bonds(validators) \in Nat
           /\ fees \in Nat /\ minted \in Nat /\ minted < Word
           /\ fees' = fees + t.fee
           /\ burned' = burned + Burn(t)
           /\ Balances(Debit(t)) = Balances(acct) - (t.amount + t.fee)
           /\ t.amount \in Nat /\ t.fee \in Nat
           /\ t.amount + t.fee <= Balances(acct)
<1>1. /\ acct \in Accounts /\ validators \in [Addr -> Validator]
      /\ fees \in Nat /\ minted \in Nat /\ minted < Word /\ Word \in Nat
  BY EconomyAssumption, SMT DEF TypeOK, Accounts, Amounts
<1>2. Balances(acct) \in Nat /\ Bonds(validators) \in Nat
  BY <1>1, BalancesNat, BondsNat
<1>3. /\ Payable(t) /\ fees' = Wrap(fees + t.fee) /\ burned' = burned + Burn(t)
  BY DEF Take, Allowed
<1>4. t.from \in Addr
  BY AddrAssumption DEF TxType
<1>5. /\ t.amount \in Nat /\ t.fee \in Nat
      /\ t.amount + t.fee <= Balances(acct)
      /\ Balances(Debit(t)) = Balances(acct) - (t.amount + t.fee)
  BY <1>1, <1>3, DebitMoney
<1>6. fees + t.fee < Word
  BY <1>1, <1>2, <1>5, SMT DEF Balanced
<1>7. fees' = fees + t.fee
  BY <1>3, <1>6 DEF Wrap
<1> QED
  BY <1>1, <1>2, <1>3, <1>4, <1>5, <1>7

\* A transaction that pays its value, or n in its place, to b.
LEMMA PayMoney ==
    ASSUME TypeOK, Balanced, NEW t \in Txs, Take(t), NEW b \in Addr,
           NEW n \in Nat, n <= t.amount + Bonds(validators)
    PROVE  LET new == Credit(Debit(t), b, n)
           IN  /\ new \in Accounts
               /\ Balances(new) = Balances(acct) - (t.amount + t.fee) + n
               /\ new[t.from].nonce = acct[t.from].nonce + 1
               /\ \A a \in Addr \ {t.from} : new[a].bal >= acct[a].bal
<1> DEFINE mid == Debit(t)
           new == Credit(mid, b, n)
<1>1. /\ Payable(t) /\ acct \in Accounts /\ t.from \in Addr
      /\ Balances(acct) \in Nat /\ Bonds(validators) \in Nat
      /\ fees \in Nat /\ minted \in Nat /\ minted < Word
      /\ Balances(mid) = Balances(acct) - (t.amount + t.fee)
      /\ t.amount \in Nat /\ t.fee \in Nat
      /\ t.amount + t.fee <= Balances(acct)
  BY TakeMoney
<1>2. /\ mid \in Accounts
      /\ mid[t.from].nonce = acct[t.from].nonce + 1
      /\ \A a \in Addr \ {t.from} : mid[a] = acct[a]
  BY <1>1, DebitMoney
<1> HIDE DEF mid
<1>3. Balances(mid) + n < Word
  BY <1>1, EconomyAssumption, SMT DEF Balanced
<1>4. /\ new \in Accounts
      /\ Balances(new) = Balances(mid) + n
      /\ \A a \in Addr : new[a].bal >= mid[a].bal /\ new[a].nonce = mid[a].nonce
  BY <1>2, <1>3, CreditMoney
<1> HIDE DEF new
<1>5. \A a \in Addr \ {t.from} : new[a].bal >= acct[a].bal
  BY <1>2, <1>4
<1>6. Balances(new) = Balances(acct) - (t.amount + t.fee) + n
  BY <1>1, <1>4
<1>7. new[t.from].nonce = acct[t.from].nonce + 1
  BY <1>1, <1>2, <1>4
<1> QED
  BY <1>4, <1>5, <1>6, <1>7 DEF mid, new

\* Transactions that move their value from the sender to b and leave the
\* registry alone: transfers, deployments and calls, reverted ones included.
LEMMA TransferFair ==
    ASSUME TypeOK, Balanced, NEW t \in Txs, Take(t), NEW b \in Addr,
           t.kind \in {"Transfer", "Deploy", "Call"}, UNCHANGED validators,
           \A a \in Addr :
              /\ acct'[a].bal = Credit(Debit(t), b, t.amount)[a].bal
              /\ acct'[a].nonce = Credit(Debit(t), b, t.amount)[a].nonce
    PROVE  Fair(t)
<1> DEFINE new == Credit(Debit(t), b, t.amount)
<1>1. /\ t.from \in Addr /\ t.amount \in Nat /\ t.fee \in Nat
      /\ Balances(acct) \in Nat /\ Bonds(validators) \in Nat
      /\ fees \in Nat /\ minted \in Nat
      /\ fees' = fees + t.fee /\ burned' = burned + Burn(t)
  BY TakeMoney
<1>2. Burn(t) = 0
  BY SMT DEF Burn
<1>3. /\ Balances(new) = Balances(acct) - (t.amount + t.fee) + t.amount
      /\ new[t.from].nonce = acct[t.from].nonce + 1
      /\ \A a \in Addr \ {t.from} : new[a].bal >= acct[a].bal
  BY <1>1, PayMoney, SMT
<1>4. Balances(acct') = Balances(new)
  BY BalancesSame
<1>5. \A a \in Addr : acct'[a].bal = new[a].bal /\ acct'[a].nonce = new[a].nonce
  OBVIOUS
<1> HIDE DEF new
<1>6. Balances(acct') + Bonds(validators') + fees' + burned' = minted
  <2>1. burned \in Nat /\ Balances(acct) + Bonds(validators) + fees + burned = minted
    BY DEF Balanced
  <2>2. Bonds(validators') = Bonds(validators)
    OBVIOUS
  <2>3. Balances(acct') = Balances(acct) - (t.amount + t.fee) + t.amount
    BY <1>3, <1>4
  <2> QED BY <1>1, <1>2, <2>1, <2>2, <2>3, SMT
<1>7. burned' \in Nat
  BY <1>1, <1>2, SMT DEF Balanced
<1>8. \A a \in Addr \ {t.from} : acct'[a].bal >= acct[a].bal
  BY <1>3, <1>5
<1> QED
  BY <1>1, <1>3, <1>5, <1>6, <1>7, <1>8 DEF Fair

\* Registering locks the value as the bond; the seat it replaces holds none.
LEMMA RegisterFair ==
    ASSUME TypeOK, RegistrySound, Balanced, NEW t \in Txs, Register(t)
    PROVE  Fair(t)
<1>1. Take(t) /\ t.kind = "Register" /\ acct' = Debit(t)
  BY DEF Register
<1>2. /\ Payable(t) /\ t.from \in Addr /\ acct \in Accounts
      /\ validators \in [Addr -> Validator]
      /\ t.amount \in Nat /\ t.fee \in Nat
      /\ Balances(acct) \in Nat /\ Bonds(validators) \in Nat
      /\ fees \in Nat /\ minted \in Nat
      /\ fees' = fees + t.fee /\ burned' = burned + Burn(t)
      /\ Balances(acct') = Balances(acct) - (t.amount + t.fee)
  BY <1>1, TakeMoney
<1>3. Burn(t) = 0
  BY <1>1, SMT DEF Burn
<1> DEFINE v == [NoValidator EXCEPT !.bond = t.amount, !.active = TRUE,
                                    !.since = H]
<1>4. validators' = [validators EXCEPT ![t.from] = v] /\ v.bond = t.amount
  BY DEF Register, NoValidator
<1>5. validators[t.from].bond = 0
  BY <1>1, <1>2
     DEF Take, Allowed, RegisterAllowed, RegistrySound, SoundRegistry, SoundSeat
<1> HIDE DEF v
<1>6. Bonds(validators') = Bonds(validators) + t.amount
  <2>1. v.bond \in Int
    BY <1>2, <1>4, SMT
  <2>2. Bonds([validators EXCEPT ![t.from] = v])
           = Bonds(validators) - validators[t.from].bond + v.bond
    BY <1>2, <2>1, BondsUpdate
  <2>3. Bonds(validators') = Bonds([validators EXCEPT ![t.from] = v])
    BY <1>4
  <2> QED
    BY <1>2, <1>4, <1>5, <2>2, <2>3, SMT
<1>7. /\ acct'[t.from].nonce = acct[t.from].nonce + 1
      /\ \A a \in Addr \ {t.from} : acct'[a] = acct[a]
  BY <1>1, <1>2, DebitMoney
<1>8. \A a \in Addr : acct[a].bal \in Int
  BY <1>2, EconomyAssumption, SMT DEF Accounts, Account, Amounts
<1>9. Balances(acct') + Bonds(validators') + fees' + burned' = minted
  BY <1>2, <1>3, <1>6, SMT DEF Balanced
<1> QED
  BY <1>2, <1>3, <1>7, <1>8, <1>9, SMT DEF Fair, Balanced

\* A slash pays the bounty out of the bond and destroys the rest.
LEMMA SlashFair ==
    ASSUME TypeOK, Balanced, NEW t \in Txs, Slash(t)
    PROVE  Fair(t)
<1>1. /\ Take(t) /\ t.kind = "Slash"
      /\ acct' = Credit(Debit(t), t.from, Bounty(t))
      /\ validators' = [validators EXCEPT ![t.accused] =
                           SlashedRecord(validators[t.accused])]
  BY DEF Slash
<1>2. /\ t.from \in Addr /\ validators \in [Addr -> Validator]
      /\ t.amount \in Nat /\ t.fee \in Nat
      /\ Balances(acct) \in Nat /\ Bonds(validators) \in Nat
      /\ fees \in Nat /\ minted \in Nat
      /\ fees' = fees + t.fee /\ burned' = burned + Burn(t)
  BY <1>1, TakeMoney
<1>3. t.accused \in Addr
  BY AddrAssumption DEF TxType
<1> DEFINE bond == validators[t.accused].bond
<1>4. bond \in Nat /\ bond <= Bonds(validators)
  BY <1>2, <1>3, BondsNat, EconomyAssumption, SMT DEF Validator, Amounts
<1>5. Bounty(t) \in Nat /\ Bounty(t) <= bond
  BY <1>4, ShareBelow, EconomyAssumption DEF Bounty
<1>6. Burn(t) = t.amount + (bond - Bounty(t))
  BY <1>1 DEF Burn
<1>7. Bonds(validators') = Bonds(validators) - bond
  <2> DEFINE v == SlashedRecord(validators[t.accused])
  <2>1. v.bond = 0 /\ v.bond \in Int
    BY SMT DEF SlashedRecord
  <2>2. Bonds(validators') = Bonds([validators EXCEPT ![t.accused] = v])
    BY <1>1
  <2> HIDE DEF v
  <2>3. Bonds([validators EXCEPT ![t.accused] = v])
           = Bonds(validators) - validators[t.accused].bond + v.bond
    BY <1>2, <1>3, <2>1, BondsUpdate
  <2> QED
    BY <1>2, <1>4, <2>1, <2>2, <2>3, SMT
<1> HIDE DEF bond
<1>8. Bounty(t) <= t.amount + Bonds(validators)
  BY <1>2, <1>4, <1>5, SMT
<1>9. /\ Balances(acct') = Balances(acct) - (t.amount + t.fee) + Bounty(t)
      /\ acct'[t.from].nonce = acct[t.from].nonce + 1
      /\ \A a \in Addr \ {t.from} : acct'[a].bal >= acct[a].bal
  BY <1>1, <1>2, <1>5, <1>8, PayMoney
<1>10. Balances(acct') + Bonds(validators') + fees' + burned' = minted
  BY <1>2, <1>4, <1>5, <1>6, <1>7, <1>9, SMT DEF Balanced
<1>11. burned' \in Nat
  BY <1>2, <1>4, <1>5, <1>6, SMT DEF Balanced
<1> QED
  BY <1>9, <1>10, <1>11 DEF Fair

\* Leaving pays back the bond and the value.
LEMMA UnregisterFair ==
    ASSUME TypeOK, Balanced, NEW t \in Txs, Unregister(t)
    PROVE  Fair(t)
<1> DEFINE bond == validators[t.from].bond
<1>1. /\ Take(t) /\ t.kind = "Unregister"
      /\ acct' = Credit(Debit(t), t.from, Wrap(bond + t.amount))
      /\ validators' = [validators EXCEPT ![t.from] = NoValidator]
  BY DEF Unregister
<1>2. /\ t.from \in Addr /\ validators \in [Addr -> Validator]
      /\ t.amount \in Nat /\ t.fee \in Nat
      /\ t.amount + t.fee <= Balances(acct)
      /\ Balances(acct) \in Nat /\ Bonds(validators) \in Nat
      /\ fees \in Nat /\ minted \in Nat /\ minted < Word
      /\ fees' = fees + t.fee /\ burned' = burned + Burn(t)
  BY <1>1, TakeMoney
<1>3. Burn(t) = 0
  BY <1>1, SMT DEF Burn
<1>4. bond \in Nat /\ bond <= Bonds(validators)
  BY <1>2, BondsNat, EconomyAssumption, SMT DEF Validator, Amounts
<1>5. Bonds(validators') = Bonds(validators) - bond
  <2>1. NoValidator.bond = 0 /\ NoValidator.bond \in Int
    BY SMT DEF NoValidator
  <2>2. Bonds([validators EXCEPT ![t.from] = NoValidator])
           = Bonds(validators) - bond + NoValidator.bond
    BY <1>2, <2>1, BondsUpdate
  <2> QED
    BY <1>1, <1>2, <1>4, <2>1, <2>2, SMT
<1> HIDE DEF bond
<1>6. Wrap(bond + t.amount) = bond + t.amount
  BY <1>2, <1>4, EconomyAssumption, SMT DEF Wrap, Balanced
<1>7. bond + t.amount \in Nat /\ bond + t.amount <= t.amount + Bonds(validators)
  BY <1>2, <1>4, SMT
<1>8. acct' = Credit(Debit(t), t.from, bond + t.amount)
  BY <1>1, <1>6
<1>9. /\ Balances(acct')
            = Balances(acct) - (t.amount + t.fee) + (bond + t.amount)
      /\ acct'[t.from].nonce = acct[t.from].nonce + 1
      /\ \A a \in Addr \ {t.from} : acct'[a].bal >= acct[a].bal
  <2> DEFINE n == bond + t.amount
             new == Credit(Debit(t), t.from, n)
  <2>1. Take(t) /\ n \in Nat /\ n <= t.amount + Bonds(validators)
    BY <1>1, <1>7
  <2> HIDE DEF n
  <2>2. /\ Balances(new) = Balances(acct) - (t.amount + t.fee) + n
        /\ new[t.from].nonce = acct[t.from].nonce + 1
        /\ \A a \in Addr \ {t.from} : new[a].bal >= acct[a].bal
    BY <1>2, <2>1, PayMoney
  <2>3. acct' = new
    BY <1>8 DEF n
  <2> HIDE DEF new
  <2> QED
    BY <2>2, <2>3 DEF n
<1>10. Balances(acct') + Bonds(validators') + fees' + burned' = minted
  BY <1>2, <1>3, <1>4, <1>5, <1>9, SMT DEF Balanced
<1> QED
  BY <1>2, <1>3, <1>9, <1>10, SMT DEF Fair, Balanced

\* The faucet pays out of the treasury; the value of a claim is destroyed.
LEMMA FaucetFair ==
    ASSUME TypeOK, Balanced, NEW t \in Txs, Faucet(t)
    PROVE  Fair(t)
<1> DEFINE mid == Debit(t)
           low == [mid EXCEPT ![Treasury].bal = @ - FaucetAmount]
<1>1. /\ Take(t) /\ t.kind = "Faucet" /\ UNCHANGED validators
      /\ acct' = Credit(low, t.from, FaucetAmount)
  BY DEF Faucet
<1>2. /\ t.from \in Addr /\ acct \in Accounts /\ Payable(t)
      /\ t.amount \in Nat /\ t.fee \in Nat
      /\ t.amount + t.fee <= Balances(acct)
      /\ Balances(acct) \in Nat /\ Bonds(validators) \in Nat
      /\ fees \in Nat /\ minted \in Nat /\ minted < Word
      /\ fees' = fees + t.fee /\ burned' = burned + Burn(t)
      /\ Balances(mid) = Balances(acct) - (t.amount + t.fee)
  BY <1>1, TakeMoney
<1>3. Burn(t) = t.amount
  BY <1>1, <1>2, SMT DEF Burn
<1>4. /\ mid \in Accounts
      /\ mid[t.from].nonce = acct[t.from].nonce + 1
      /\ \A a \in Addr \ {t.from} : mid[a] = acct[a]
  BY <1>2, DebitMoney
<1>5. mid[Treasury].bal >= FaucetAmount
  BY <1>1 DEF Take, Allowed, FaucetAllowed
<1> HIDE DEF mid
<1>6. /\ Treasury \in Addr /\ mid[Treasury] \in Account /\ DOMAIN mid = Addr
      /\ FaucetAmount \in Nat /\ mid[Treasury].bal \in Nat
  BY <1>4, AddrAssumption, ParamsAssumption, EconomyAssumption, SMT
     DEF Accounts, Account, Amounts
<1>7. mid[Treasury].bal - FaucetAmount \in Amounts
  <2>1. mid[Treasury].bal \in Amounts /\ Word \in Nat
    BY <1>6, EconomyAssumption DEF Account
  <2> QED
    BY <1>5, <1>6, <2>1, SMT DEF Amounts
<1>8. /\ \A a \in Addr \ {Treasury} : low[a] = mid[a]
      /\ low[Treasury].bal = mid[Treasury].bal - FaucetAmount
      /\ low[Treasury].nonce = mid[Treasury].nonce
  BY <1>6 DEF Account
<1>9. low \in Accounts
  <2> DEFINE new == [mid[Treasury] EXCEPT !.bal = mid[Treasury].bal - FaucetAmount]
  <2>1. new \in Account
    BY <1>6, <1>7 DEF Account
  <2>2. low = [mid EXCEPT ![Treasury] = new]
    OBVIOUS
  <2> HIDE DEF new
  <2> QED
    BY <1>4, <2>1, <2>2 DEF Accounts
<1> HIDE DEF low
<1>10. OnlyOn({Treasury}, mid, low)
  BY <1>8 DEF OnlyOn
<1>11. Balances(low) = Balances(mid) - FaucetAmount
  <2>1. Balances(low) = Balances(mid) - mid[Treasury].bal + low[Treasury].bal
    BY <1>4, <1>6, <1>9, <1>10, BalancesUpdate
  <2> QED
    BY <1>2, <1>6, <1>8, <2>1, SMT
<1>12. Balances(low) \in Nat /\ Balances(low) + FaucetAmount < Word
  <2>1. Balances(low) \in Nat
    BY <1>9, BalancesNat
  <2>2. Balances(low) + FaucetAmount = Balances(mid)
    <3>1. Balances(mid) \in Int /\ FaucetAmount \in Int
      BY <1>2, <1>6, SMT
    <3> QED
      BY <1>11, <3>1, SMT
  <2> QED
    BY <1>2, <2>1, <2>2, EconomyAssumption, SMT DEF Balanced
<1>13. /\ Balances(acct') = Balances(low) + FaucetAmount
       /\ \A a \in Addr : acct'[a].bal >= low[a].bal /\ acct'[a].nonce = low[a].nonce
  <2> DEFINE new == Credit(low, t.from, FaucetAmount)
  <2>1. t.from \in Addr /\ FaucetAmount \in Nat
    BY <1>2, <1>6
  <2>2. /\ Balances(new) = Balances(low) + FaucetAmount
        /\ \A a \in Addr : new[a].bal >= low[a].bal /\ new[a].nonce = low[a].nonce
    BY <1>9, <1>12, <2>1, CreditMoney
  <2>3. acct' = new
    BY <1>1
  <2> HIDE DEF new
  <2> QED
    BY <2>2, <2>3
<1>14. Balances(acct') = Balances(acct) - (t.amount + t.fee)
  BY <1>2, <1>6, <1>11, <1>13, SMT
<1>15. Balances(acct') + Bonds(validators') + fees' + burned' = minted
  BY <1>1, <1>2, <1>3, <1>14, SMT DEF Balanced
<1>16. acct'[t.from].nonce = acct[t.from].nonce + 1
  BY <1>2, <1>4, <1>8, <1>13
<1>17. \A a \in Addr \ {t.from, Treasury} : acct'[a].bal >= acct[a].bal
  BY <1>4, <1>8, <1>13
<1> QED
  BY <1>2, <1>3, <1>15, <1>16, <1>17, SMT DEF Fair, Balanced

\* A storage proof destroys its value and moves no bond.
LEMMA StorageProofFair ==
    ASSUME TypeOK, Balanced, NEW t \in Txs, StorageProof(t)
    PROVE  Fair(t)
<1>1. Take(t) /\ t.kind = "StorageProof" /\ acct' = Debit(t)
  BY DEF StorageProof
<1>2. /\ Payable(t) /\ t.from \in Addr /\ acct \in Accounts
      /\ validators \in [Addr -> Validator]
      /\ t.amount \in Nat /\ t.fee \in Nat
      /\ Balances(acct) \in Nat /\ Bonds(validators) \in Nat
      /\ fees \in Nat /\ minted \in Nat
      /\ fees' = fees + t.fee /\ burned' = burned + Burn(t)
      /\ Balances(acct') = Balances(acct) - (t.amount + t.fee)
  BY <1>1, TakeMoney
<1>3. Burn(t) = t.amount
  BY <1>1, <1>2, SMT DEF Burn
<1>4. \A a \in Addr : validators'[a].bond = validators[a].bond
  <2>1. DOMAIN validators = Addr /\ validators[t.from] \in Validator
    BY <1>2
  <2> QED
    BY <2>1 DEF StorageProof, Validator
<1>5. Bonds(validators') = Bonds(validators)
  <2>1. [a \in Addr |-> validators'[a].bond] = [a \in Addr |-> validators[a].bond]
    BY <1>4
  <2> QED
    BY <2>1 DEF Bonds
<1>6. /\ acct'[t.from].nonce = acct[t.from].nonce + 1
      /\ \A a \in Addr \ {t.from} : acct'[a] = acct[a]
  BY <1>1, <1>2, DebitMoney
<1>7. \A a \in Addr : acct[a].bal \in Int
  BY <1>2, EconomyAssumption, SMT DEF Accounts, Account, Amounts
<1>8. Balances(acct') + Bonds(validators') + fees' + burned' = minted
  BY <1>2, <1>3, <1>5, SMT DEF Balanced
<1>9. burned' \in Nat
  BY <1>2, <1>3, SMT DEF Balanced
<1>10. \A a \in Addr \ {t.from, Treasury} : acct'[a].bal >= acct[a].bal
  BY <1>6, <1>7, SMT
<1> QED
  BY <1>6, <1>8, <1>9, <1>10 DEF Fair

\* Every accepted transaction is fair.
LEMMA StepFair ==
    ASSUME TypeOK, RegistrySound, Balanced, NEW t \in Txs, Step(t)
    PROVE  Fair(t)
<1>1. /\ t.from \in Addr /\ t.to \in Addr /\ t.created \in Addr
      /\ t.amount \in Amounts
  BY AddrAssumption DEF TxType
<1>2. acct \in Accounts
  BY DEF TypeOK, Accounts
<1>3. CASE Transfer(t) \/ CallPlain(t)
  <2>1. /\ Take(t) /\ t.kind \in {"Transfer", "Deploy", "Call"}
        /\ UNCHANGED validators /\ acct' = Credit(Debit(t), t.to, t.amount)
    BY <1>3 DEF Transfer, CallPlain
  <2> QED
    BY <1>1, <2>1, TransferFair
<1>4. CASE Deploy(t)
  <2> DEFINE mid == Credit(Debit(t), t.created, t.amount)
  <2>1. /\ Take(t) /\ t.kind \in {"Transfer", "Deploy", "Call"}
        /\ UNCHANGED validators
        /\ acct' = [mid EXCEPT ![t.created].code = TRUE]
    BY <1>4 DEF Deploy
  <2>2. Payable(t)
    BY <2>1 DEF Take, Allowed
  <2>3. mid \in Accounts
    BY <1>1, <1>2, <2>2, PayEffect
  <2> HIDE DEF mid
  <2>4. DOMAIN mid = Addr /\ mid[t.created] \in Account
    BY <1>1, <2>3 DEF Accounts
  <2>5. \A a \in Addr : acct'[a].bal = mid[a].bal /\ acct'[a].nonce = mid[a].nonce
    BY <2>1, <2>4 DEF Account
  <2> QED
    BY <1>1, <2>1, <2>5, TransferFair DEF mid
<1>5. CASE CallContract(t)
  <2> DEFINE b == IF t.reverts THEN t.from ELSE t.to
             mid == Credit(Debit(t), b, t.amount)
  <2>1. /\ Take(t) /\ t.kind \in {"Transfer", "Deploy", "Call"}
        /\ UNCHANGED validators /\ acct' = RunContracts(mid, t)
    BY <1>5 DEF CallContract
  <2>2. Payable(t) /\ b \in Addr
    BY <1>1, <2>1 DEF Take, Allowed
  <2>3. mid \in Accounts
    BY <1>1, <1>2, <2>2, PayEffect
  <2> HIDE DEF mid, b
  <2>4. \A a \in Addr : mid[a] \in Account
    BY <2>3 DEF Accounts
  <2>5. \A a \in Addr : acct'[a].bal = mid[a].bal /\ acct'[a].nonce = mid[a].nonce
    BY <2>1, <2>4 DEF RunContracts, Account
  <2> QED
    BY <2>1, <2>2, <2>5, TransferFair DEF mid
<1>6. CASE Register(t)
  BY <1>6, RegisterFair
<1>7. CASE Slash(t)
  BY <1>7, SlashFair
<1>8. CASE Unregister(t)
  BY <1>8, UnregisterFair
<1>9. CASE Faucet(t)
  BY <1>9, FaucetFair
<1>10. CASE StorageProof(t)
  BY <1>10, StorageProofFair
<1> QED
  BY <1>3, <1>4, <1>5, <1>6, <1>7, <1>8, <1>9, <1>10 DEF Step

-----------------------------------------------------------------------------
(* The books of a block *)

\* Who lost balance from `old` to `new` signed a transaction in between.
SignersPay(old, new) ==
    \A a \in Addr \ {Treasury} :
       new[a].bal < old[a].bal => new[a].nonce > old[a].nonce

\* Claims from `old` to `new` kept the cooldown.
Paced(old, new) ==
    \A a \in Addr : \/ new[a] = old[a]
                    \/ old[a] = Never
                    \/ new[a] >= old[a] + FaucetCooldown

\* The inductive invariant of the money: the books balance now, and those of
\* the ledger a rejected block goes back to balance as well.
BooksInv ==
    /\ burned \in Nat
    /\ Conservation
    /\ phase = "apply" =>
          /\ pre.burned \in Nat
          /\ Balances(pre.acct) + Bonds(pre.validators) + pre.burned = minted
          /\ SignersPay(pre.acct, acct)
          /\ pre.faucetClaims \in [Addr -> Nat \cup {Never}]
          /\ Paced(pre.faucetClaims, faucetClaims)

\* At genesis the premine is all there is.
LEMMA InitBooks == Init => BooksInv
<1> SUFFICES ASSUME Init PROVE BooksInv
  OBVIOUS
<1> DEFINE f == [a \in Addr |-> acct[a].bal]
           e == [a \in Addr |-> validators[a].bond]
<1>1. \A a \in Addr : f[a] = IF a = Treasury THEN Premine ELSE 0
  BY DEF Init, EmptyAccount
<1>2. \A a \in Addr : e[a] = 0
  BY DEF Init, NoValidator
<1>3. f \in [Addr -> Int] /\ e \in [Addr -> Int]
  <2>1. Premine \in Int
    BY EconomyAssumption, SMT
  <2>2. f = [a \in Addr |-> f[a]] /\ e = [a \in Addr |-> e[a]]
    OBVIOUS
  <2> HIDE DEF f, e
  <2> QED
    BY <1>1, <1>2, <2>1, <2>2, SMT
<1> HIDE DEF f, e
<1>4. SumFunction(f) = Premine
  <2>1. Treasury \in Addr /\ \A a \in Addr \ {Treasury} : f[a] = 0
    BY <1>1, AddrAssumption
  <2>2. SumFunction(f) = f[Treasury]
    BY <1>3, <2>1, SumOfOne, AddrAssumption, SMT
  <2> QED
    BY <1>1, <2>1, <2>2
<1>5. SumFunction(e) = 0
  <2>1. Treasury \in Addr /\ \A a \in Addr \ {Treasury} : e[a] = 0
    BY <1>2, AddrAssumption
  <2>2. SumFunction(e) = e[Treasury]
    BY <1>3, <2>1, SumOfOne, AddrAssumption, SMT
  <2> QED
    BY <1>2, <2>1, <2>2
<1>6. phase = "idle" /\ burned = 0 /\ minted = Premine /\ Premine \in Nat
  BY EconomyAssumption, SMT DEF Init
<1>7. Conservation
  BY <1>4, <1>5, <1>6, SMT DEF Conservation, Circulating, f, e
<1> QED
  BY <1>6, <1>7 DEF BooksInv

\* While a block is in progress the invariant says that the books balance.
LEMMA ConservationIsBalanced ==
    ASSUME phase = "apply", burned \in Nat
    PROVE  Conservation <=> Balanced
BY DEF Conservation, Circulating, Balanced, Balances, Bonds

\* A block starts with the books it found.
LEMMA BeginBooks ==
    ASSUME LedgerInv, BooksInv, BeginBlock
    PROVE  BooksInv'
<1>1. /\ phase = "idle" /\ phase' = "apply" /\ fees' = 0
      /\ UNCHANGED <<acct, validators, minted, faucetClaims, burned>>
      /\ pre'.acct = acct /\ pre'.validators = validators
      /\ pre'.burned = burned /\ pre'.faucetClaims = faucetClaims
  BY DEF BeginBlock, ledger, Snapshot
<1>2. /\ acct \in Accounts /\ validators \in [Addr -> Validator]
      /\ faucetClaims \in [Addr -> Nat \cup {Never}] /\ burned \in Nat
  BY DEF LedgerInv, TypeOK, Accounts, BooksInv
<1>3. Balances(acct) \in Nat /\ Bonds(validators) \in Nat
  BY <1>2, BalancesNat, BondsNat
<1>4. Balances(acct) + Bonds(validators) + 0 + burned = minted
  BY <1>1 DEF BooksInv, Conservation, Circulating, Balances, Bonds
<1>5. Balances(acct) + Bonds(validators) + burned = minted
  BY <1>2, <1>3, <1>4, SMT
<1>6. Conservation'
  BY <1>1, <1>4 DEF Conservation, Circulating, Balances, Bonds
<1>7. Balances(pre'.acct) + Bonds(pre'.validators) + pre'.burned = minted'
  BY <1>1, <1>5
<1>8. SignersPay(pre'.acct, acct')
  <2>1. \A a \in Addr : acct[a].bal \in Int
    BY <1>2, EconomyAssumption, SMT DEF Accounts, Account, Amounts
  <2> QED
    BY <1>1, <2>1, SMT DEF SignersPay
<1>9. Paced(pre'.faucetClaims, faucetClaims')
  BY <1>1 DEF Paced
<1> QED
  BY <1>1, <1>2, <1>6, <1>7, <1>8, <1>9
     DEF BooksInv, SignersPay, Paced, Balances, Bonds

\* Only a claim moves the faucet's rate limit, and only after the cooldown.
LEMMA StepPaced ==
    ASSUME TypeOK, NEW old \in [Addr -> Nat \cup {Never}],
           Paced(old, faucetClaims), NEW t \in Txs, Step(t)
    PROVE  Paced(old, faucetClaims')
<1>1. CASE UNCHANGED faucetClaims
  BY <1>1
<1>2. CASE Faucet(t)
  <2>1. /\ t.from \in Addr /\ H \in Nat /\ FaucetCooldown \in Nat
        /\ faucetClaims \in [Addr -> Nat \cup {Never}]
    BY AddrAssumption, ParamsAssumption, SMT DEF TxType, TypeOK, H
  <2>2. /\ faucetClaims' = [faucetClaims EXCEPT ![t.from] = H]
        /\ \/ faucetClaims[t.from] = Never
           \/ H >= faucetClaims[t.from] + FaucetCooldown
    BY <1>2 DEF Faucet, Take, Allowed, FaucetAllowed
  <2>3. \/ old[t.from] = Never
        \/ H >= old[t.from] + FaucetCooldown
    <3>1. CASE old[t.from] = Never
      BY <3>1
    <3>2. CASE old[t.from] # Never
      <4>1. old[t.from] \in Nat
        BY <2>1, <3>2
      <4>2. \/ faucetClaims[t.from] = old[t.from]
            \/ faucetClaims[t.from] >= old[t.from] + FaucetCooldown
        BY <2>1, <3>2 DEF Paced
      <4>3. faucetClaims[t.from] \in Nat \cup {Never} /\ Never = -1
        BY <2>1 DEF Never
      <4> QED
        BY <2>1, <2>2, <4>1, <4>2, <4>3, SMT
    <3> QED
      BY <3>1, <3>2
  <2>4. faucetClaims'[t.from] = H
    BY <2>1, <2>2
  <2>5. \A a \in Addr \ {t.from} : faucetClaims'[a] = faucetClaims[a]
    BY <2>1, <2>2
  <2> QED
    BY <2>3, <2>4, <2>5 DEF Paced
<1> QED
  BY <1>1, <1>2 DEF Step, Transfer, Deploy, CallPlain, CallContract, Register,
                    Slash, Unregister, StorageProof

\* A transaction keeps the books.
LEMMA StepBooks ==
    ASSUME LedgerInv, BooksInv, NEW t \in Txs, Step(t)
    PROVE  BooksInv'
<1>1. phase = "apply" /\ phase' = "apply" /\ UNCHANGED <<minted, pre>>
  BY DEF Step, Transfer, Deploy, CallPlain, CallContract, Register, Slash,
         Unregister, Faucet, StorageProof, Take
<1>2. /\ TypeOK /\ RegistrySound /\ TypeOK'
      /\ acct \in Accounts /\ acct' \in Accounts /\ pre.acct \in Accounts
      /\ Grows(pre.acct, acct) /\ Grows(acct, acct')
  <2>1. LedgerInv' /\ TypeOK
    BY StepKeepsInv DEF LedgerInv
  <2>2. Grows(acct, acct')
    BY <2>1, StepMovesAccounts DEF AccountsMove
  <2> QED
    BY <1>1, <2>1, <2>2 DEF LedgerInv, TypeOK, Undoable, Accounts, Grows
<1>3. Balanced
  BY <1>1, ConservationIsBalanced DEF BooksInv
<1>4. Fair(t)
  BY <1>2, <1>3, StepFair
<1>5. Conservation' /\ burned' \in Nat
  BY <1>1, <1>4 DEF Fair, Conservation, Circulating, Balances, Bonds
<1>6. SignersPay(pre.acct, acct')
  <2> SUFFICES ASSUME NEW a \in Addr \ {Treasury},
                      acct'[a].bal < pre.acct[a].bal
               PROVE  acct'[a].nonce > pre.acct[a].nonce
    BY DEF SignersPay
  <2>1. /\ acct[a].bal \in Int /\ acct'[a].bal \in Int /\ pre.acct[a].bal \in Int
        /\ acct[a].nonce \in Int /\ acct'[a].nonce \in Int
        /\ pre.acct[a].nonce \in Int
    BY <1>2, EconomyAssumption, SMT DEF Accounts, Account, Amounts
  <2>2. acct[a].nonce >= pre.acct[a].nonce /\ acct'[a].nonce >= acct[a].nonce
    BY <1>2 DEF Grows
  <2>3. CASE a = t.from
    BY <1>4, <2>1, <2>2, <2>3, SMT DEF Fair
  <2>4. CASE a # t.from
    <3>1. acct[a].bal < pre.acct[a].bal
      BY <1>4, <2>1, <2>4, SMT DEF Fair
    <3>2. acct[a].nonce > pre.acct[a].nonce
      BY <1>1, <3>1 DEF BooksInv, SignersPay
    <3> QED
      BY <2>1, <2>2, <3>2, SMT
  <2> QED
    BY <2>3, <2>4
<1>7. Paced(pre.faucetClaims, faucetClaims')
  BY <1>1, <1>2, StepPaced DEF BooksInv
<1> QED
  BY <1>1, <1>5, <1>6, <1>7 DEF BooksInv, SignersPay, Paced, Balances, Bonds

\* rollback() gives the books back as the block found them.
LEMMA RollbackBooks ==
    ASSUME BooksInv, phase = "apply", phase' = "idle",
           acct' = pre.acct, validators' = pre.validators,
           burned' = pre.burned, UNCHANGED minted,
           pre.acct \in Accounts, pre.validators \in [Addr -> Validator]
    PROVE  BooksInv'
<1>1. Balances(pre.acct) \in Nat /\ Bonds(pre.validators) \in Nat
  BY BalancesNat, BondsNat
<1>2. /\ pre.burned \in Nat
      /\ Balances(pre.acct) + Bonds(pre.validators) + pre.burned = minted
  BY DEF BooksInv
<1>3. Balances(acct') + Bonds(validators') + 0 + burned' = minted'
  BY <1>1, <1>2, SMT
<1>4. Conservation'
  BY <1>3 DEF Conservation, Circulating, Balances, Bonds
<1> QED
  BY <1>2, <1>4 DEF BooksInv

\* Paying the validator of a committed block neither wraps around nor takes
\* from anyone: what it gets beyond the fees is newly minted.
LEMMA CommitBooks ==
    ASSUME LedgerInv, BooksInv, NEW v \in Addr,
           CommitCoinbase(v) \/ CommitNoCoinbase(v)
    PROVE  /\ BooksInv'
           /\ SignersPay(pre.acct, acct')
           /\ Paced(pre.faucetClaims, faucetClaims')
<1>1. /\ phase = "apply" /\ phase' = "idle"
      /\ UNCHANGED <<validators, faucetClaims, burned>>
  BY DEF CommitCoinbase, CommitNoCoinbase
<1>2. /\ TypeOK /\ acct \in Accounts /\ validators \in [Addr -> Validator]
      /\ height \in Nat /\ minted \in 0 .. MaxSupply /\ fees \in Amounts
      /\ pre.acct \in Accounts
  BY <1>1 DEF LedgerInv, TypeOK, Accounts, Undoable
<1>3. Balanced
  BY <1>1, ConservationIsBalanced DEF BooksInv
<1>4. /\ Balances(acct) \in Nat /\ Bonds(validators) \in Nat
      /\ fees \in Nat /\ minted \in Nat /\ burned \in Nat
  BY <1>2, <1>3, BalancesNat, BondsNat, EconomyAssumption, SMT DEF Amounts, Balanced
<1>5. PICK reward \in Nat :
         /\ minted + reward \in 0 .. MaxSupply
         /\ acct' = Credit(acct, v, Wrap(reward + fees))
         /\ minted' = Wrap(minted + reward)
  <2>1. CASE CommitCoinbase(v)
    <3>1. H \in Nat
      BY <1>2, SMT DEF H
    <3> QED
      BY <1>2, <2>1, <3>1, RewardWithinCap DEF CommitCoinbase
  <2>2. CASE CommitNoCoinbase(v)
    <3>1. Wrap(0 + fees) = fees /\ Wrap(minted + 0) = minted
      BY <1>2, <1>4, EconomyAssumption, SMT DEF Wrap, Amounts
    <3>2. /\ acct' = Credit(acct, v, Wrap(0 + fees))
          /\ minted' = Wrap(minted + 0) /\ minted + 0 \in 0 .. MaxSupply
      BY <1>2, <1>4, <2>2, <3>1, SMT DEF CommitNoCoinbase
    <3> QED
      BY <3>2
  <2> QED
    BY <2>1, <2>2
<1>6. Balances(acct) + (reward + fees) < Word /\ minted + reward < Word
  BY <1>3, <1>4, <1>5, EconomyAssumption, SMT DEF Balanced
<1>7. Wrap(reward + fees) = reward + fees /\ Wrap(minted + reward) = minted + reward
  <2>1. reward + fees < Word
    BY <1>4, <1>6, EconomyAssumption, SMT
  <2> QED
    BY <1>6, <2>1 DEF Wrap
<1>8. /\ Balances(acct') = Balances(acct) + (reward + fees)
      /\ \A a \in Addr : acct'[a].bal >= acct[a].bal /\ acct'[a].nonce = acct[a].nonce
      /\ acct' \in Accounts
  <2> DEFINE n == reward + fees
             new == Credit(acct, v, n)
  <2>1. n \in Nat /\ Balances(acct) + n < Word
    BY <1>4, <1>6, SMT
  <2>2. acct' = new
    BY <1>5, <1>7
  <2> HIDE DEF n
  <2>3. /\ new \in Accounts
        /\ Balances(new) = Balances(acct) + n
        /\ \A a \in Addr : new[a].bal >= acct[a].bal /\ new[a].nonce = acct[a].nonce
    BY <1>2, <2>1, CreditMoney
  <2> HIDE DEF new
  <2> QED
    BY <2>2, <2>3 DEF n
<1>9. Balances(acct') + Bonds(validators') + 0 + burned' = minted'
  <2>1. minted' = minted + reward
    BY <1>5, <1>7
  <2>2. Balances(acct) + Bonds(validators) + fees + burned = minted
    BY <1>3 DEF Balanced
  <2>3. Balances(acct') + Bonds(validators') + 0 + burned'
           = Balances(acct) + (reward + fees) + Bonds(validators) + 0 + burned
    BY <1>1, <1>8
  <2> QED
    BY <1>4, <2>1, <2>2, <2>3, SMT
<1>10. Conservation'
  BY <1>1, <1>9 DEF Conservation, Circulating, Balances, Bonds
<1>11. SignersPay(pre.acct, acct')
  <2>1. \A a \in Addr : /\ acct[a].bal \in Int /\ acct'[a].bal \in Int
                        /\ pre.acct[a].bal \in Int
    BY <1>2, <1>8, BalancesAreInts
  <2>2. SignersPay(pre.acct, acct)
    BY <1>1 DEF BooksInv
  <2> QED
    BY <1>8, <2>1, <2>2, SMT DEF SignersPay
<1> QED
  BY <1>1, <1>10, <1>11 DEF BooksInv

\* Every step of ApplyBlock keeps the books.
LEMMA NextBooks == LedgerInv /\ BooksInv /\ [Next]_vars => BooksInv'
<1> SUFFICES ASSUME LedgerInv, BooksInv, [Next]_vars PROVE BooksInv'
  OBVIOUS
<1>1. CASE BeginBlock
  BY <1>1, BeginBooks
<1>2. ASSUME NEW t \in Txs, Step(t) PROVE BooksInv'
  BY <1>2, StepBooks
<1>3. ASSUME phase = "apply"
      PROVE  /\ pre.acct \in Accounts
             /\ pre.validators \in [Addr -> Validator]
  BY <1>3 DEF LedgerInv, Undoable, Accounts, TypeOK
<1>4. ASSUME NEW t \in Txs, RejectTx(t) PROVE BooksInv'
  <2>1. acct' = pre.acct /\ validators' = pre.validators
    BY <1>4, RejectTxRestores
  <2>2. /\ phase = "apply" /\ phase' = "idle" /\ burned' = pre.burned
        /\ UNCHANGED minted
    BY <1>4 DEF RejectTx, Rollback
  <2> QED
    BY <1>3, <2>1, <2>2, RollbackBooks
<1>5. CASE RejectCoinbase
  <2>1. acct' = pre.acct /\ validators' = pre.validators
    BY <1>5, RollbackRestores DEF RejectCoinbase
  <2>2. /\ phase = "apply" /\ phase' = "idle" /\ burned' = pre.burned
        /\ UNCHANGED minted
    BY <1>5 DEF RejectCoinbase, Rollback
  <2> QED
    BY <1>3, <2>1, <2>2, RollbackBooks
<1>6. ASSUME NEW v \in Addr, CommitCoinbase(v) \/ CommitNoCoinbase(v)
      PROVE  BooksInv'
  BY <1>6, CommitBooks
<1>7. CASE UNCHANGED vars
  BY <1>7 DEF vars, ledger, BooksInv, Conservation, Circulating, SignersPay,
              Paced, Balances, Bonds
<1> QED
  BY <1>1, <1>2, <1>4, <1>5, <1>6, <1>7 DEF Next

\* No step of ApplyBlock creates or loses money, for any addresses,
\* transactions and economy: transfers, refunds of reverted calls, bonds,
\* bounties, faucet payouts, the coinbase, rollbacks, and every uint64
\* addition on the way.
THEOREM SpecConservation == Spec => []Conservation
<1>1. Spec => []LedgerInv
  BY InitInv, NextInv, PTL DEF Spec
<1>2. Spec => []BooksInv
  BY <1>1, InitBooks, NextBooks, PTL DEF Spec
<1>3. BooksInv => Conservation
  BY DEF BooksInv
<1> QED
  BY <1>2, <1>3, PTL

\* A committed block lowers the balance of nobody but the treasury and those
\* who signed one of its transactions, whatever contracts ran in it.
THEOREM SpecOnlySignersPay == Spec => OnlySignersPay
<1>1. Spec => []LedgerInv
  BY InitInv, NextInv, PTL DEF Spec
<1>2. Spec => []BooksInv
  BY <1>1, InitBooks, NextBooks, PTL DEF Spec
<1> DEFINE P == Commits =>
                  \A a \in Addr \ {Treasury} :
                     acct'[a].bal < pre.acct[a].bal
                        => acct'[a].nonce > pre.acct[a].nonce
<1>3. LedgerInv /\ BooksInv /\ [Next]_vars => [P]_vars
  <2> SUFFICES ASSUME LedgerInv, BooksInv, Next, Commits
               PROVE  SignersPay(pre.acct, acct')
    BY DEF SignersPay
  <2>1. PICK v \in Addr : CommitCoinbase(v) \/ CommitNoCoinbase(v)
    BY DEF Next, Commits, BeginBlock, RejectTx, RejectCoinbase, Rollback, Step,
           Transfer, Deploy, CallPlain, CallContract, Register, Slash,
           Unregister, Faucet, StorageProof, Take
  <2> QED
    BY <2>1, CommitBooks
<1> QED
  BY <1>1, <1>2, <1>3, PTL DEF Spec, OnlySignersPay

\* Two claims of one address that committed blocks applied are FaucetCooldown
\* blocks apart, although rejected blocks leave their claims in the rate limit.
THEOREM SpecFaucetPaced == Spec => FaucetPaced
<1>1. Spec => []LedgerInv
  BY InitInv, NextInv, PTL DEF Spec
<1>2. Spec => []BooksInv
  BY <1>1, InitBooks, NextBooks, PTL DEF Spec
<1> DEFINE P == Commits =>
                  \A a \in Addr :
                     \/ faucetClaims'[a] = pre.faucetClaims[a]
                     \/ pre.faucetClaims[a] = Never
                     \/ faucetClaims'[a] >= pre.faucetClaims[a] + FaucetCooldown
<1>3. LedgerInv /\ BooksInv /\ [Next]_vars => [P]_vars
  <2> SUFFICES ASSUME LedgerInv, BooksInv, Next, Commits
               PROVE  Paced(pre.faucetClaims, faucetClaims')
    BY DEF Paced
  <2>1. PICK v \in Addr : CommitCoinbase(v) \/ CommitNoCoinbase(v)
    BY DEF Next, Commits, BeginBlock, RejectTx, RejectCoinbase, Rollback, Step,
           Transfer, Deploy, CallPlain, CallContract, Register, Slash,
           Unregister, Faucet, StorageProof, Take
  <2> QED
    BY <2>1, CommitBooks
<1> QED
  BY <1>1, <1>2, <1>3, PTL DEF Spec, FaucetPaced

=============================================================================
