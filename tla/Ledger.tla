------------------------------- MODULE Ledger -------------------------------
(***************************************************************************)
(* The account ledger of internal/state: balances, nonces, contracts, the  *)
(* on-chain validator registry and the faucet rate limit, changed only by  *)
(* State.ApplyBlock.                                                       *)
(*                                                                         *)
(* ApplyBlock runs under State.mu, so nothing else writes between its      *)
(* steps, but a block may fail after any of its transactions and is then   *)
(* undone from a PARTIAL snapshot: `saved` holds only the accounts the     *)
(* code remembered to snap.  The model therefore takes one step per        *)
(* transaction and keeps the snapshot explicit.  The transactions of a     *)
(* block and its coinbase are picked as the block goes, which is the same  *)
(* as picking the block first: ApplyBlock reads them in order, once.       *)
(*                                                                         *)
(* Abstractions.  An address missing from a Go map is the zero record (no  *)
(* operation tells them apart).  Signatures, proofs of work, shard proofs  *)
(* and evidence are the Booleans `valid` and `proof` of a transaction.  A  *)
(* contract's storage is the number of runs it committed; which contracts  *)
(* a call enters and which of those runs succeed is part of the            *)
(* transaction (`enters`, `commits`, `reverts`).  Event logs are left out. *)
(***************************************************************************)
EXTENDS Integers, FiniteSets, Functions

CONSTANTS
    Addr,            \* addresses: users, validators, contracts
    GenesisVal,      \* validators[0]: seated at genesis
    Treasury,        \* FaucetSource: the genesis premine recipient
    Premine,         \* genesis funding of the treasury
    Txs              \* transactions a block may carry

CONSTANTS            \* economy and chainparams
    Word,            \* 2^64: the width of an amount
    MaxSupply, InitialReward, HalvingInterval, MinBond,
    Subsidy,         \* Subsidy[k] = InitialReward >> k
    BountyDivisor,   \* a slash pays Bond / BountyDivisor to the reporter
    FaucetAmount, FaucetCooldown, FaucetDepth, FaucetRecent,
    StorageWindow, StorageMinDepth, StorageCap

CONSTANTS            \* bounds of the model
    MaxHeight, MaxTxs

Kinds == {"Transfer", "Deploy", "Call", "Register", "Slash", "Unregister",
          "Faucet", "StorageProof"}

Amounts == 0 .. (Word - 1)

\* `ref` is the anchor height of a faucet claim or the target height of a
\* storage proof, `accused` the validator named by slashing evidence,
\* `created` is ContractAddress(from, nonce).
TxType ==
    [kind : Kinds, from : Addr, to : Addr, nonce : Nat, amount : Amounts,
     fee : Amounts, valid : BOOLEAN, proof : BOOLEAN, ref : Nat,
     accused : Addr, created : Addr, enters : SUBSET Addr, commits : SUBSET Addr,
     reverts : BOOLEAN]

ASSUME AddrAssumption ==
    /\ IsFiniteSet(Addr)
    /\ GenesisVal \in Addr
    /\ Treasury \in Addr
    /\ Txs \subseteq TxType
    /\ \A t \in Txs : t.commits \subseteq t.enters
    /\ \A t, u \in Txs :
          t.from = u.from /\ t.nonce = u.nonce => t.created = u.created

\* Only the bound on MaxSupply relates the constants to each other: every
\* amount in circulation fits a word.
ASSUME EconomyAssumption ==
    /\ Word \in Nat \ {0}
    /\ MaxSupply \in Nat /\ 2 * MaxSupply < Word
    /\ Premine \in 0 .. MaxSupply
    /\ InitialReward \in Nat
    /\ HalvingInterval \in Nat \ {0}
    /\ MinBond \in Nat
    /\ BountyDivisor \in Nat \ {0}
    /\ Subsidy \in [0 .. 63 -> Nat]
    /\ Subsidy[0] = InitialReward
    /\ \A k \in 0 .. 62 : Subsidy[k + 1] = Subsidy[k] \div 2

ASSUME ParamsAssumption ==
    /\ FaucetAmount \in Nat /\ FaucetCooldown \in Nat
    /\ FaucetDepth \in Nat /\ FaucetRecent \in Nat
    /\ StorageWindow \in Nat /\ StorageMinDepth \in Nat /\ StorageCap \in Nat
    /\ MaxHeight \in Nat /\ MaxTxs \in Nat

VARIABLES
    acct,          \* State.Accounts
    validators,    \* State.Validators
    minted,        \* State.Minted
    height,        \* State.Height
    faucetClaims   \* State.FaucetClaims

VARIABLES          \* locals of the ApplyBlock in progress
    phase,         \* "idle", or "apply" while it holds State.mu
    saved,         \* full copies of the accounts snapped so far
    valBackup,     \* cloneValidators() taken at entry
    fees,          \* fees collected so far
    ntx            \* transactions applied so far (bounded by MaxTxs)

VARIABLES          \* history, read by the properties only
    burned,        \* amounts that left circulation
    pre            \* the ledger when the block began

ledger == <<acct, validators, minted, height, faucetClaims>>
vars == <<ledger, phase, saved, valBackup, fees, ntx, burned, pre>>

Account == [bal : Amounts, nonce : Nat, code : BOOLEAN, store : Nat]
EmptyAccount == [bal |-> 0, nonce |-> 0, code |-> FALSE, store |-> 0]

Validator == [bond : Amounts, active : BOOLEAN, since : Nat,
              slashed : BOOLEAN, score : Nat, lastProof : Nat]
NoValidator == [bond |-> 0, active |-> FALSE, since |-> 0,
                slashed |-> FALSE, score |-> 0, lastProof |-> 0]

Never == -1

Snapshot == [acct |-> acct, validators |-> validators, minted |-> minted,
             height |-> height, faucetClaims |-> faucetClaims,
             burned |-> burned]

-----------------------------------------------------------------------------
(* Amounts and the emission schedule *)

\* The sum of two words, as uint64 addition leaves it.
Wrap(n) == IF n < Word THEN n ELSE n - Word

\* Mutant: forgets the clamp to what is left of the cap.
BlockRewardNoClamp(h, m) ==
    IF m >= MaxSupply \/ h \div HalvingInterval >= 64
    THEN 0
    ELSE Subsidy[h \div HalvingInterval]

BlockReward(h, m) ==
    IF m >= MaxSupply \/ h \div HalvingInterval >= 64
    THEN 0
    ELSE LET reward == Subsidy[h \div HalvingInterval]
             remaining == MaxSupply - m
         IN  IF reward > remaining THEN remaining ELSE reward

Total(t) == Wrap(t.amount + t.fee)

Credit(ac, a, n) == [ac EXCEPT ![a].bal = Wrap(@ + n)]

\* Mutant: the nonce stays, so the transaction can be applied again.
DebitKeepsNonce(t) == [acct EXCEPT ![t.from].bal = @ - Total(t)]

Debit(t) ==
    [acct EXCEPT ![t.from].bal = @ - Total(t), ![t.from].nonce = @ + 1]

-----------------------------------------------------------------------------
(* Block-level snapshot and rollback *)

Snap(S) == [a \in DOMAIN saved \cup S |->
               IF a \in DOMAIN saved THEN saved[a] ELSE acct[a]]

\* rollback() of the accounts `ac` with the snapshot `sv`.
Restore(ac, sv) == [a \in Addr |-> IF a \in DOMAIN sv THEN sv[a] ELSE ac[a]]

-----------------------------------------------------------------------------
(* What ApplyBlock checks of a transaction *)

H == height + 1    \* Header.Height of the block being applied

\* Mutant: no overflow test of Amount + Fee.
PayableNoOverflowTest(t) ==
    /\ t.valid
    /\ t.nonce = acct[t.from].nonce
    /\ acct[t.from].bal >= Total(t)

\* Signature, chain id, nonce, overflow and balance.
Payable(t) ==
    /\ t.valid
    /\ t.nonce = acct[t.from].nonce
    /\ Total(t) >= t.amount
    /\ acct[t.from].bal >= Total(t)

\* Mutant: the minimum bond is not looked at.
RegisterAllowedAnyBond(t) ==
    /\ t.proof
    /\ ~ validators[t.from].active
    /\ ~ validators[t.from].slashed

RegisterAllowed(t) ==
    /\ t.proof
    /\ t.amount >= MinBond
    /\ ~ validators[t.from].active
    /\ ~ validators[t.from].slashed

SlashAllowed(t) == t.proof /\ validators[t.accused].active

UnregisterAllowed(t) == validators[t.from].active

\* Mutant: the cooldown boundary is off by one.
FaucetAllowedEarly(t) ==
    /\ FaucetAmount > 0
    /\ t.ref + FaucetDepth <= H
    /\ H <= t.ref + FaucetRecent
    /\ t.ref <= height
    /\ t.proof
    /\ \/ faucetClaims[t.from] = Never
       \/ H + 1 >= faucetClaims[t.from] + FaucetCooldown
    /\ Debit(t)[Treasury].bal >= FaucetAmount

\* AnchorBodyHash knows the heights of the stored headers, 0 .. height.  The
\* treasury is looked at after the sender was debited.
FaucetAllowed(t) ==
    /\ FaucetAmount > 0
    /\ t.ref + FaucetDepth <= H
    /\ H <= t.ref + FaucetRecent
    /\ t.ref <= height
    /\ t.proof
    /\ \/ faucetClaims[t.from] = Never
       \/ H >= faucetClaims[t.from] + FaucetCooldown
    /\ Debit(t)[Treasury].bal >= FaucetAmount

StorageProofAllowed(t) ==
    /\ validators[t.from].active
    /\ t.ref < H
    /\ H <= t.ref + StorageWindow
    /\ H - t.ref >= StorageMinDepth
    /\ t.proof

Allowed(t) ==
    /\ Payable(t)
    /\ t.kind = "Register" => RegisterAllowed(t)
    /\ t.kind = "Slash" => SlashAllowed(t)
    /\ t.kind = "Unregister" => UnregisterAllowed(t)
    /\ t.kind = "Faucet" => FaucetAllowed(t)
    /\ t.kind = "StorageProof" => StorageProofAllowed(t)

-----------------------------------------------------------------------------
(* One step per transaction of the block *)

Init ==
    /\ acct = [a \in Addr |-> IF a = Treasury
                              THEN [EmptyAccount EXCEPT !.bal = Premine]
                              ELSE EmptyAccount]
    /\ validators = [a \in Addr |-> IF a = GenesisVal
                                    THEN [NoValidator EXCEPT !.active = TRUE]
                                    ELSE NoValidator]
    /\ minted = Premine
    /\ height = 0
    /\ faucetClaims = [a \in Addr |-> Never]
    /\ phase = "idle"
    /\ saved = [a \in {} |-> EmptyAccount]
    /\ valBackup = validators
    /\ fees = 0
    /\ ntx = 0
    /\ burned = 0
    /\ pre = Snapshot

BeginBlock ==
    /\ phase = "idle"
    /\ height < MaxHeight
    /\ phase' = "apply"
    /\ saved' = [a \in {} |-> EmptyAccount]
    /\ valBackup' = validators
    /\ fees' = 0
    /\ ntx' = 0
    /\ pre' = Snapshot
    /\ UNCHANGED <<ledger, burned>>

\* The value field of these kinds is debited and credited to nobody; a slash
\* also destroys the bond less the bounty.
Bounty(t) == validators[t.accused].bond \div BountyDivisor

Burn(t) ==
    (IF t.kind \in {"Slash", "Faucet", "StorageProof"} THEN t.amount ELSE 0)
    + (IF t.kind = "Slash" THEN validators[t.accused].bond - Bounty(t) ELSE 0)

\* What every accepted transaction does besides its own effect.
Take(t) ==
    /\ phase = "apply"
    /\ ntx < MaxTxs
    /\ Allowed(t)
    /\ fees' = Wrap(fees + t.fee)
    /\ ntx' = ntx + 1
    /\ burned' = burned + Burn(t)
    /\ UNCHANGED <<minted, height, phase, valBackup, pre>>

Transfer(t) ==
    /\ t.kind = "Transfer"
    /\ Take(t)
    /\ saved' = Snap({t.from, t.to})
    /\ acct' = Credit(Debit(t), t.to, t.amount)
    /\ UNCHANGED <<validators, faucetClaims>>

Deploy(t) ==
    /\ t.kind = "Deploy"
    /\ Take(t)
    /\ saved' = Snap({t.from, t.created})
    /\ acct' = [Credit(Debit(t), t.created, t.amount)
                   EXCEPT ![t.created].code = TRUE]
    /\ UNCHANGED <<validators, faucetClaims>>

\* A call of an address without code is a transfer.
CallPlain(t) ==
    /\ t.kind = "Call"
    /\ Take(t)
    /\ ~ acct[t.to].code
    /\ saved' = Snap({t.from, t.to})
    /\ acct' = Credit(Debit(t), t.to, t.amount)
    /\ UNCHANGED <<validators, faucetClaims>>

\* The contracts a call enters by nested CALLs: only addresses with code.
Entered(t) == {c \in t.enters : acct[c].code}

\* execContract commits the storage of each run that succeeds; a nested run
\* that succeeded stays committed when the run that called it reverts.
Committed(t) ==
    (t.commits \cap Entered(t)) \cup (IF t.reverts THEN {} ELSE {t.to})

RunContracts(ac, t) ==
    [a \in Addr |-> IF a \in Committed(t)
                    THEN [ac[a] EXCEPT !.store = @ + 1]
                    ELSE ac[a]]

\* Mutant: nested calls do not snap the contract they enter.
CallSnapsOuter(t) == {t.from, t.to}

\* execContract snaps every contract it enters.
CallSnaps(t) == {t.from, t.to} \cup Entered(t)

\* On a revert the value goes back to the sender and the fee is kept.
CallContract(t) ==
    /\ t.kind = "Call"
    /\ Take(t)
    /\ acct[t.to].code
    /\ saved' = Snap(CallSnaps(t))
    /\ acct' = RunContracts(Credit(Debit(t),
                                   IF t.reverts THEN t.from ELSE t.to,
                                   t.amount), t)
    /\ UNCHANGED <<validators, faucetClaims>>

Register(t) ==
    /\ t.kind = "Register"
    /\ Take(t)
    /\ saved' = Snap({t.from})
    /\ acct' = Debit(t)
    /\ validators' = [validators EXCEPT ![t.from] =
                         [NoValidator EXCEPT !.bond = t.amount,
                                             !.active = TRUE, !.since = H]]
    /\ UNCHANGED faucetClaims

\* Mutant: the bond stays in the record after its bounty was paid.
SlashedRecordKeepsBond(v) == [v EXCEPT !.active = FALSE, !.slashed = TRUE]

SlashedRecord(v) == [bond |-> 0, active |-> FALSE, since |-> v.since,
                     slashed |-> TRUE, score |-> 0, lastProof |-> 0]

Slash(t) ==
    /\ t.kind = "Slash"
    /\ Take(t)
    /\ saved' = Snap({t.from})
    /\ acct' = Credit(Debit(t), t.from, Bounty(t))
    /\ validators' = [validators EXCEPT ![t.accused] = SlashedRecord(@)]
    /\ UNCHANGED faucetClaims

Unregister(t) ==
    /\ t.kind = "Unregister"
    /\ Take(t)
    /\ saved' = Snap({t.from})
    /\ acct' = Credit(Debit(t), t.from, Wrap(validators[t.from].bond + t.amount))
    /\ validators' = [validators EXCEPT ![t.from] = NoValidator]
    /\ UNCHANGED faucetClaims

Faucet(t) ==
    /\ t.kind = "Faucet"
    /\ Take(t)
    /\ saved' = Snap({t.from, Treasury})
    /\ acct' = Credit([Debit(t) EXCEPT ![Treasury].bal = @ - FaucetAmount],
                      t.from, FaucetAmount)
    /\ faucetClaims' = [faucetClaims EXCEPT ![t.from] = H]
    /\ UNCHANGED validators

StorageProof(t) ==
    /\ t.kind = "StorageProof"
    /\ Take(t)
    /\ saved' = Snap({t.from})
    /\ acct' = Debit(t)
    /\ validators' = [validators EXCEPT
                         ![t.from].score = IF @ < StorageCap THEN @ + 1 ELSE @,
                         ![t.from].lastProof = H]
    /\ UNCHANGED faucetClaims

-----------------------------------------------------------------------------
(* The end of a block *)

\* rollback(): the snapped accounts and the validators, and nothing else.
Rollback(ac, sv) ==
    /\ acct' = Restore(ac, sv)
    /\ validators' = valBackup
    /\ phase' = "idle"
    /\ burned' = pre.burned
    /\ UNCHANGED <<minted, height, faucetClaims, saved, valBackup, fees, ntx,
                   pre>>

\* A transaction fails one of its checks.  The kind-specific checks come
\* after the sender was snapped and debited.
RejectTx(t) ==
    /\ phase = "apply"
    /\ ntx < MaxTxs
    /\ ~ Allowed(t)
    /\ Rollback(IF Payable(t) THEN Debit(t) ELSE acct, Snap({t.from}))

\* The coinbase does not pay Header.Validator, or not reward + fees.
RejectCoinbase ==
    /\ phase = "apply"
    /\ Rollback(acct, saved)

\* Mutant: the subsidy is that of the block before.
CommitCoinbaseOldReward(v) ==
    LET reward == BlockReward(height, minted)
    IN  /\ phase = "apply"
        /\ acct' = Credit(acct, v, Wrap(reward + fees))
        /\ minted' = Wrap(minted + reward)
        /\ height' = H
        /\ phase' = "idle"
        /\ saved' = Snap({v})
        /\ UNCHANGED <<validators, faucetClaims, valBackup, fees, ntx, burned,
                       pre>>

\* The coinbase pays the validator `v` of the header reward + fees.
CommitCoinbase(v) ==
    LET reward == BlockReward(H, minted)
    IN  /\ phase = "apply"
        /\ acct' = Credit(acct, v, Wrap(reward + fees))
        /\ minted' = Wrap(minted + reward)
        /\ height' = H
        /\ phase' = "idle"
        /\ saved' = Snap({v})
        /\ UNCHANGED <<validators, faucetClaims, valBackup, fees, ntx, burned,
                       pre>>

\* Without a coinbase only the fees are paid and nothing is minted.
CommitNoCoinbase(v) ==
    /\ phase = "apply"
    /\ acct' = Credit(acct, v, fees)
    /\ height' = H
    /\ phase' = "idle"
    /\ saved' = IF BlockReward(H, minted) + fees > 0 THEN Snap({v}) ELSE saved
    /\ UNCHANGED <<validators, minted, faucetClaims, valBackup, fees, ntx,
                   burned, pre>>

Step(t) ==
    \/ Transfer(t) \/ Deploy(t) \/ CallPlain(t) \/ CallContract(t)
    \/ Register(t) \/ Slash(t) \/ Unregister(t) \/ Faucet(t)
    \/ StorageProof(t)

Next ==
    \/ BeginBlock
    \/ \E t \in Txs : Step(t) \/ RejectTx(t)
    \/ RejectCoinbase
    \/ \E v \in Addr : CommitCoinbase(v) \/ CommitNoCoinbase(v)

Spec == Init /\ [][Next]_vars

-----------------------------------------------------------------------------
(* Properties *)

\* Accounts, registry, supply (never above the cap, economy.MaxSupply) and
\* ApplyBlock's working variables keep their types; balances are uint64 words.
TypeOK ==
    /\ acct \in [Addr -> Account]
    /\ validators \in [Addr -> Validator]
    /\ minted \in 0 .. MaxSupply
    /\ height \in Nat
    /\ faucetClaims \in [Addr -> Nat \cup {Never}]
    /\ phase \in {"idle", "apply"}
    /\ DOMAIN saved \subseteq Addr
    /\ saved \in [DOMAIN saved -> Account]
    /\ valBackup \in [Addr -> Validator]
    /\ fees \in Amounts
    /\ ntx \in Nat

\* Balances, bonds and the fees in flight.
Circulating ==
    SumFunction([a \in Addr |-> acct[a].bal])
    + SumFunction([a \in Addr |-> validators[a].bond])
    + (IF phase = "apply" THEN fees ELSE 0)

\* No step of ApplyBlock creates or loses money: at every point of a block,
\* refunds, bonds, bounties, faucet payouts, uint64 wrap-around and rollback
\* included, what circulates and what was destroyed is what was minted.
Conservation == Circulating + burned = minted

SoundSeat(a, v, h) ==
    /\ v.active => \/ v.bond >= MinBond /\ v.since > 0
                   \/ v.bond = 0 /\ v.since = 0 /\ a = GenesisVal
    /\ ~ v.active => v.bond = 0 /\ v.score = 0
    /\ v.active => ~ v.slashed
    /\ v.score <= StorageCap
    /\ v.since <= h
    /\ v.lastProof <= h

SoundRegistry(vs, h) == \A a \in Addr : SoundSeat(a, vs[a], h)

\* The registry never holds a validator that did not pay for its seat: an
\* active validator has locked MinBond or is the genesis one with no bond,
\* an inactive record holds neither bond nor storage score, and a score is
\* capped and never dated after the block being applied.
RegistrySound == SoundRegistry(validators, H)

Commits == phase = "apply" /\ phase' = "idle" /\ height' # height
Rejects == phase = "apply" /\ phase' = "idle" /\ height' = height

\* A block lowers an account's balance only if the account signed a
\* transaction of the block; the treasury, which the faucet draws on, is the
\* exception.  Deploys, calls, reverts and slashes never debit a third party.
OnlySignersPay ==
    [][Commits =>
         \A a \in Addr \ {Treasury} :
            acct'[a].bal < pre.acct[a].bal => acct'[a].nonce > pre.acct[a].nonce
      ]_vars

\* Two claims of one address that the chain applied are FaucetCooldown
\* blocks apart, whatever happened to the blocks in between.
FaucetPaced ==
    [][Commits =>
         \A a \in Addr :
            \/ faucetClaims'[a] = pre.faucetClaims[a]
            \/ pre.faucetClaims[a] = Never
            \/ faucetClaims'[a] >= pre.faucetClaims[a] + FaucetCooldown
      ]_vars

\* The ledger as the rest of the node sees it once State.mu is free: the
\* block in progress has no effect until it is committed.
Settled(current, before) == IF phase = "idle" THEN current ELSE before

BL == INSTANCE BlockLedger WITH
         acct <- Settled(acct, pre.acct),
         validators <- Settled(validators, pre.validators),
         Reward <- BlockReward

\* ApplyBlock implements BlockLedger: a rejected block leaves the accounts
\* and the registry exactly as they were, from the partial snapshot alone; a
\* committed one mints by the schedule and takes nothing back.
AtomicBlocks == BL!Spec

\* What the proof of AtomicBlocks needs of a block in progress: the snapshot
\* undoes exactly what the block did so far, and the block has only moved
\* nonces, contracts and slashed validators forward.
Undoable ==
    phase = "apply" =>
       /\ pre.acct \in [Addr -> Account]
       /\ Restore(acct, saved) = pre.acct
       /\ valBackup = pre.validators
       /\ SoundRegistry(valBackup, H)
       /\ \A a \in Addr :
             /\ acct[a].nonce >= pre.acct[a].nonce
             /\ acct[a].store >= pre.acct[a].store
             /\ pre.acct[a].code => acct[a].code
             /\ pre.validators[a].slashed => validators[a] = pre.validators[a]

\* "ApplyBlock ... is atomic: on any error nothing is mutated"
\* (internal/state/state.go:428): the faucet rate limit included.
RejectMutatesNothing ==
    [][Rejects => /\ acct' = pre.acct
                  /\ validators' = pre.validators
                  /\ minted' = pre.minted
                  /\ faucetClaims' = pre.faucetClaims]_vars

=============================================================================
