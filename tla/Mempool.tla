------------------------------ MODULE Mempool -------------------------------
(***************************************************************************)
(* The transaction pool of one node (internal/mempool) between the HTTP    *)
(* handlers that feed it (internal/p2p/server.go: POST /tx, /gossip/tx and *)
(* /gossip/block), the block loop that drains it (node.maybeProduce) and   *)
(* fast sync.  The pool has its own mutex, the ledger another: Submit      *)
(* validates under one and inserts under the other, a block is applied     *)
(* under one and its transactions are removed under the other, and Reap    *)
(* holds the pool's mutex while it asks the ledger for one sender after    *)
(* the other.                                                              *)
(*                                                                         *)
(* The ledger is the canonical chain of accepted blocks: an account's      *)
(* nonce is the number of its transactions on it.                          *)
(***************************************************************************)
EXTENDS Naturals, FiniteSets, Sequences, Functions

CONSTANTS
    Txs,          \* [id, from, nonce, cost, applies]: `applies` is FALSE for
                  \* one that a check of its kind refuses in ApplyBlock
    Funds,        \* sender -> balance
    Foreign,      \* blocks of other producers: sequences of transactions
    MaxRequests,  \* bound: HTTP requests between their critical sections
    limit,        \* Pool.limit
    MaxReap,      \* the argument of Reap
    MaxReorgs     \* bound: how often the last block is replaced

Senders == DOMAIN Funds

ASSUME PoolAssumption ==
    /\ \A t \in Txs : t.from \in Senders /\ t.nonce \in Nat /\ t.cost \in Nat
    /\ \A s \in Senders : Funds[s] \in Nat
    /\ Foreign \subseteq Seq(Txs)
    /\ limit \in Nat \ {0} /\ MaxReap \in Nat \ {0}
    /\ MaxRequests \in Nat /\ MaxReorgs \in Nat

VARIABLES
    byID,         \* Pool.byID
    chain,        \* the transactions of the canonical chain
    tip,          \* how many of them are in its last block
    accepted,     \* history: the transactions of all blocks this node accepted
    requests,     \* handlers between their two critical sections
    phase,        \* the block loop: "idle", "reap", "produce", "remove"
    todo,         \* the senders Reap has still to visit
    batch,        \* out, and then the transactions of the block
    reorgs

vars == <<byID, chain, tip, accepted, requests, phase, todo, batch, reorgs>>

-----------------------------------------------------------------------------
(* The ledger *)

Of(txs, s) == {i \in DOMAIN txs : txs[i].from = s}

Nonce(s) == Cardinality(Of(chain, s))

Spent(txs, s) == SumFunction([i \in Of(txs, s) |-> txs[i].cost])

\* The transactions of a chain in which every nonce is the next one of its
\* sender and nobody spends more than they have.
InOrder(txs) ==
    /\ \A i \in DOMAIN txs :
          txs[i].nonce = Cardinality(Of(SubSeq(txs, 1, i - 1), txs[i].from))
    /\ \A s \in Senders : Spent(txs, s) <= Funds[s]

\* ApplyBlock on the state after the transactions `c`.
Applies(c, b) ==
    /\ InOrder(c \o b)
    /\ \A i \in DOMAIN b : b[i].applies

CheckTx(t) ==
    /\ t.nonce = Nonce(t.from)
    /\ Spent(chain, t.from) + t.cost <= Funds[t.from]

\* The canonical chain becomes `c` with `b` on top.
Extend(c, b) == /\ Applies(c, b)
                /\ chain' = c \o b
                /\ tip' = Len(b)

-----------------------------------------------------------------------------
(* Submit *)

Request == [op : {"insert", "remove"}, txs : Seq(Txs)]

\* A handler has finished its first critical section.
Begin(op, txs) ==
    /\ Cardinality(requests) < MaxRequests
    /\ requests' = requests \cup {[op |-> op, txs |-> txs]}

PoolLocked == phase = "reap"

Check(t) ==
    /\ CheckTx(t)
    /\ Begin("insert", <<t>>)
    /\ UNCHANGED <<byID, chain, tip, accepted, phase, todo, batch, reorgs>>

\* Mutant: the pool takes one more than its limit.
InsertPastLimit(r) ==
    /\ r.op = "insert"
    /\ ~ PoolLocked
    /\ byID' = IF Cardinality(byID) > limit THEN byID
               ELSE byID \cup {r.txs[1]}
    /\ requests' = requests \ {r}
    /\ UNCHANGED <<chain, tip, accepted, phase, todo, batch, reorgs>>

\* ErrFull, or the transaction is pooled.
Insert(r) ==
    /\ r.op = "insert"
    /\ ~ PoolLocked
    /\ byID' = IF Cardinality(byID) >= limit THEN byID
               ELSE byID \cup {r.txs[1]}
    /\ requests' = requests \ {r}
    /\ UNCHANGED <<chain, tip, accepted, phase, todo, batch, reorgs>>

-----------------------------------------------------------------------------
(* Blocks of others *)

\* POST /gossip/block.  The block extends the head, or replaces it because
\* fork choice broke the tie, or waits on a side branch; in each case its
\* transactions are then removed from the pool.
AcceptBlock(b) ==
    /\ \/ Extend(chain, b) /\ UNCHANGED reorgs
       \/ /\ chain # <<>> /\ reorgs < MaxReorgs
          /\ Extend(SubSeq(chain, 1, Len(chain) - tip), b)
          /\ reorgs' = reorgs + 1
       \/ chain # <<>> /\ UNCHANGED <<chain, tip, reorgs>>
    /\ accepted' = accepted \cup Range(b)
    /\ Begin("remove", b)
    /\ UNCHANGED <<byID, phase, todo, batch>>

RemoveBlock(r) ==
    /\ r.op = "remove"
    /\ ~ PoolLocked
    /\ byID' = byID \ Range(r.txs)
    /\ requests' = requests \ {r}
    /\ UNCHANGED <<chain, tip, accepted, phase, todo, batch, reorgs>>

\* trySync installs the headers and the state of a longer chain and leaves
\* the pool alone.
SyncInstall(b) ==
    /\ Extend(chain, b)
    /\ UNCHANGED <<byID, accepted, requests, phase, todo, batch, reorgs>>

-----------------------------------------------------------------------------
(* maybeProduce *)

Pooled(s) == {t \in byID : t.from = s}

ReapStart ==
    /\ phase = "idle"
    /\ byID # {}
    /\ phase' = "reap"
    /\ todo' = {t.from : t \in byID}
    /\ UNCHANGED <<byID, chain, tip, accepted, requests, batch, reorgs>>

\* sort.Slice is not stable: transactions with equal nonces come in any order.
Sorted(S) == {q \in Injection(1 .. Cardinality(S), S) :
                 \A i, j \in DOMAIN q : i < j => q[i].nonce <= q[j].nonce}

\* Mutant: a gap is skipped instead of ending the sender's turn.
FitsSkipsGaps(q, next, room) ==
    {n \in 0 .. Len(q) : n <= room /\ \A i \in 1 .. n : q[i].nonce >= next}

\* Mutant: the first nonce expected is the one after the account's.
FitsFromNext(q, next, room) ==
    {n \in 0 .. Len(q) : n <= room /\ \A i \in 1 .. n : q[i].nonce = next + i}

\* How many of the sender's transactions may be taken: each has the next nonce
\* and `out` has room.
Fits(q, next, room) ==
    {n \in 0 .. Len(q) : n <= room /\ \A i \in 1 .. n : q[i].nonce = next + i - 1}

\* One turn of the loop over bySender, in the map's order.
ReapSender(s) ==
    /\ phase = "reap"
    /\ s \in todo
    /\ \E q \in Sorted(Pooled(s)) :
          LET fits == Fits(q, Nonce(s), MaxReap - Len(batch))
          IN  \E n \in fits : /\ \A m \in fits : m <= n
                              /\ batch' = batch \o SubSeq(q, 1, n)
    /\ todo' = IF Len(batch') >= MaxReap THEN {} ELSE todo \ {s}
    /\ phase' = IF todo' = {} THEN "produce" ELSE "reap"
    /\ UNCHANGED <<byID, chain, tip, accepted, requests, reorgs>>

\* Mutant: the batch is taken as it was reaped, without ApplyBlock.
ProduceUnchecked ==
    /\ phase = "produce"
    /\ phase' = "remove"
    /\ chain' = chain \o batch
    /\ tip' = Len(batch)
    /\ accepted' = accepted \cup Range(batch)
    /\ UNCHANGED <<byID, requests, todo, batch, reorgs>>

\* Mutant: the batch is dropped from the pool even if production failed.
ProduceDropsOnError ==
    /\ phase = "produce"
    /\ phase' = "remove"
    /\ IF batch # <<>> /\ Applies(chain, batch)
       THEN /\ Extend(chain, batch)
            /\ accepted' = accepted \cup Range(batch)
       ELSE UNCHANGED <<chain, tip, accepted>>
    /\ UNCHANGED <<byID, requests, todo, batch, reorgs>>

\* ProduceBlock applies the batch to the ledger of now or fails as a whole.
\* An empty block changes nothing here.
Produce ==
    /\ phase = "produce"
    /\ IF batch # <<>> /\ Applies(chain, batch)
       THEN /\ Extend(chain, batch)
            /\ accepted' = accepted \cup Range(batch)
            /\ phase' = "remove"
            /\ UNCHANGED batch
       ELSE /\ phase' = "idle"
            /\ batch' = <<>>
            /\ UNCHANGED <<chain, tip, accepted>>
    /\ UNCHANGED <<byID, requests, todo, reorgs>>

RemoveBatch ==
    /\ phase = "remove"
    /\ byID' = byID \ Range(batch)
    /\ phase' = "idle"
    /\ batch' = <<>>
    /\ UNCHANGED <<chain, tip, accepted, requests, todo, reorgs>>

-----------------------------------------------------------------------------

Init ==
    /\ byID = {}
    /\ chain = <<>> /\ tip = 0
    /\ accepted = {}
    /\ requests = {}
    /\ phase = "idle"
    /\ todo = {}
    /\ batch = <<>>
    /\ reorgs = 0

BlockLoop == ReapStart \/ (\E s \in Senders : ReapSender(s)) \/ Produce \/ RemoveBatch

Next ==
    \/ \E t \in Txs : Check(t)
    \/ \E b \in Foreign : AcceptBlock(b) \/ SyncInstall(b)
    \/ \E r \in requests : Insert(r) \/ RemoveBlock(r)
    \/ BlockLoop

Spec == Init /\ [][Next]_vars

\* The ticker keeps the block loop running; that the node leads again and
\* again is assumed.  Handlers need not finish.
FairSpec == Spec /\ WF_vars(BlockLoop)

-----------------------------------------------------------------------------
(* Properties *)

\* The pool, the batch (at most the argument of Reap) and the requests between
\* the two critical sections of Submit and the block handler keep their types.
TypeOK ==
    /\ byID \subseteq Txs
    /\ chain \in Seq(Txs) /\ tip \in 0 .. Len(chain)
    /\ accepted \subseteq Txs
    /\ requests \subseteq Request /\ Cardinality(requests) <= MaxRequests
    /\ phase \in {"idle", "reap", "produce", "remove"}
    /\ todo \subseteq Senders
    /\ batch \in Seq(Txs) /\ Len(batch) <= MaxReap
    /\ reorgs \in 0 .. MaxReorgs

\* The pool never exceeds its limit, however many requests passed CheckTx
\* before the last slot was taken (Submit).
PoolBounded == Cardinality(byID) <= limit

\* Each sender's transactions are in nonce order without gap or repetition.
Contiguous(txs) ==
    \A i, j \in DOMAIN txs :
       /\ i < j
       /\ txs[i].from = txs[j].from
       /\ \A k \in i + 1 .. j - 1 : txs[k].from # txs[i].from
       => txs[j].nonce = txs[i].nonce + 1

\* A batch has each sender's transactions in nonce order without gap or
\* repetition ("per sender, nonces are contiguous", Reap), although blocks are
\* applied and replaced while it is collected.
BatchContiguous == Contiguous(batch)

\* No transaction is on the canonical chain twice or out of order and nobody
\* overspends, although Reap, gossip and sync race and stale transactions stay
\* pooled: what was reaped is applied as a whole or not at all.
NoReplay == InOrder(chain)

\* A pooled transaction leaves the pool only with a block that holds it: a
\* block that could not be produced loses nothing (maybeProduce, Remove).
LeavesWithItsBlock == [][\A t \in byID \ byID' : t \in accepted']_vars

\* What keeps Reap from a pooled transaction: an earlier one of the same
\* sender that is already spent and was never removed, one that is missing, or
\* any transaction that CheckTx let in and ApplyBlock refuses, for then no
\* batch with it applies.
Behind(s) == Pooled(s) # {} /\ \E t \in Pooled(s) : t.nonce < Nonce(s)
Ahead(s) == Pooled(s) # {} /\ \A t \in Pooled(s) : t.nonce > Nonce(s)
Refused == \E t \in byID : \/ ~ t.applies
                           \/ t.nonce = Nonce(t.from) /\ ~ CheckTx(t)

\* Every pooled transaction leaves with a block unless the pool holds one of
\* the three (Reap, maybeProduce): the block loop starves nobody else.
Drains ==
    \A t \in Txs :
       t \in byID ~> \/ t \notin byID
                     \/ Behind(t.from) \/ Ahead(t.from) \/ Refused

=============================================================================
