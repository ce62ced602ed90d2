--------------------------- MODULE MempoolProofs ----------------------------
(***************************************************************************)
(* What the transaction pool promises, for any transactions, any blocks of *)
(* others, any limits and any number of requests and replaced blocks: the  *)
(* pool stays within its limit, a batch has no gap, a transaction only     *)
(* leaves with a block, and no nonce is used twice on the canonical chain. *)
(*                                                                         *)
(* The batch grows while the canonical chain moves, so nothing relates a   *)
(* nonce in the batch to the account's nonce of now.  What makes it        *)
(* contiguous is that Reap visits a sender once: the senders of the batch  *)
(* are not among those still to visit.                                     *)
(***************************************************************************)
EXTENDS Mempool, DataLemmas

\* Most steps are first-order; the few that calculate name SMT.
USE Zenon

-----------------------------------------------------------------------------
(* The inductive invariant *)

\* The pool and the open requests are finite, so that they can be counted.
Finite == IsFiniteSet(byID) /\ IsFiniteSet(requests)

\* Outside maybeProduce the batch is empty, and Reap has the senders of the
\* batch behind it.
VisitedOnce ==
    /\ phase = "idle" => batch = <<>>
    /\ phase = "reap" => \A i \in DOMAIN batch : batch[i].from \notin todo

\* What is to be removed from the pool is in a block this node accepted, and
\* what is to be inserted is there.
Justified ==
    /\ \A r \in requests : r.op = "remove" => Range(r.txs) \subseteq accepted
    /\ \A r \in requests : r.op = "insert" => r.txs # <<>>
    /\ phase = "remove" => Range(batch) \subseteq accepted

IInv ==
    /\ TypeOK
    /\ Finite
    /\ PoolBounded
    /\ VisitedOnce
    /\ BatchContiguous
    /\ Justified

-----------------------------------------------------------------------------
(* Lemmas *)

\* An account's nonce is a number.
LEMMA NonceType ==
    ASSUME TypeOK, NEW s
    PROVE  Nonce(s) \in Nat
<1>1. DOMAIN chain = 1 .. Len(chain) /\ Len(chain) \in Nat
  BY SMT DEF TypeOK
<1>2. IsFiniteSet(1 .. Len(chain))
  BY <1>1, FS_Interval, SMT
<1>3. Of(chain, s) \subseteq 1 .. Len(chain)
  BY <1>1 DEF Of
<1>4. IsFiniteSet(Of(chain, s))
  BY <1>2, <1>3, FS_Subset
<1> QED
  BY <1>4, FS_CardinalityType DEF Nonce

\* A sorted queue of a sender's pooled transactions is a sequence of them.
LEMMA SortedType ==
    ASSUME TypeOK, Finite, NEW s, NEW q \in Sorted(Pooled(s))
    PROVE  /\ q \in Seq(Txs)
           /\ \A i \in 1 .. Len(q) : q[i] \in Txs /\ q[i].from = s
<1>1. Pooled(s) \subseteq byID
  BY DEF Pooled
<1>2. Cardinality(Pooled(s)) \in Nat
  BY <1>1, FS_Subset, FS_CardinalityType DEF Finite
<1>3. q \in [1 .. Cardinality(Pooled(s)) -> Pooled(s)]
  BY DEF Sorted, Injection
<1>4. q \in Seq(Pooled(s))
  BY <1>2, <1>3, SMT
<1>5. \A i \in 1 .. Len(q) : q[i] \in Pooled(s)
  BY <1>4, SMT
<1>6. \A t \in Pooled(s) : t \in Txs /\ t.from = s
  BY DEF Pooled, TypeOK
<1> QED
  BY <1>4, <1>5, <1>6, SMT

\* The elements of two sequences put together.
LEMMA Joined ==
    ASSUME NEW S, NEW x \in Seq(S), NEW y \in Seq(S)
    PROVE  /\ x \o y \in Seq(S)
           /\ Len(x \o y) = Len(x) + Len(y)
           /\ \A k \in 1 .. Len(x) : (x \o y)[k] = x[k]
           /\ \A k \in 1 .. Len(y) : (x \o y)[Len(x) + k] = y[k]
  BY SMT

\* `b` is `out` and one turn of the sender s: n transactions from nonce `next` on.
Turn(b, out, s, next, n) ==
    /\ Len(b) = Len(out) + n
    /\ \A k \in 1 .. Len(out) : b[k] = out[k] /\ out[k].from # s
    /\ \A k \in 1 .. n : /\ b[Len(out) + k].from = s
                         /\ b[Len(out) + k].nonce = next + k - 1

\* One more sender's turn keeps the batch contiguous if the sender is new to it.
LEMMA TurnContiguous ==
    ASSUME NEW out \in Seq(Txs), NEW b \in Seq(Txs),
           NEW s, NEW next \in Nat, NEW n \in Nat,
           Turn(b, out, s, next, n), Contiguous(out)
    PROVE  Contiguous(b)
<1> USE DEF Turn
<1> SUFFICES ASSUME NEW i \in DOMAIN b, NEW j \in DOMAIN b,
                    i < j, b[i].from = b[j].from,
                    \A k \in i + 1 .. j - 1 : b[k].from # b[i].from
             PROVE  b[j].nonce = b[i].nonce + 1
  BY DEF Contiguous
<1>1. /\ Len(out) \in Nat /\ DOMAIN out = 1 .. Len(out)
      /\ i \in 1 .. Len(out) + n /\ j \in 1 .. Len(out) + n
  BY SMT
<1>2. CASE j <= Len(out)
  <2>1. b[i] = out[i] /\ b[j] = out[j] /\ \A k \in i + 1 .. j - 1 : b[k] = out[k]
    BY <1>1, <1>2, SMT
  <2>2. i \in DOMAIN out /\ j \in DOMAIN out
    BY <1>1, <1>2, SMT
  <2>3. /\ i < j /\ out[i].from = out[j].from
        /\ \A k \in i + 1 .. j - 1 : out[k].from # out[i].from
    BY <2>1
  <2>4. out[j].nonce = out[i].nonce + 1
    BY <2>2, <2>3 DEF Contiguous
  <2> QED  BY <2>1, <2>4
<1>3. CASE j > Len(out) /\ i <= Len(out)
  <2>1. PICK k \in 1 .. n : j = Len(out) + k
    <3>1. j - Len(out) \in 1 .. n /\ j = Len(out) + (j - Len(out))
      BY <1>1, <1>3, SMT
    <3> QED  BY <3>1
  <2>2. i \in 1 .. Len(out)
    BY <1>1, <1>3, SMT
  <2> QED  BY <2>1, <2>2
<1>4. CASE i > Len(out)
  <2>1. PICK k \in 1 .. n : i = Len(out) + k
    <3>1. i - Len(out) \in 1 .. n /\ i = Len(out) + (i - Len(out))
      BY <1>1, <1>4, SMT
    <3> QED  BY <3>1
  <2>2. k + 1 \in 1 .. n /\ Len(out) + (k + 1) = i + 1
    BY <1>1, <2>1, SMT
  <2>3. b[i + 1].from = s /\ b[i].from = s
    BY <2>1, <2>2
  <2>4. j = i + 1
    <3>1. SUFFICES ASSUME j # i + 1 PROVE FALSE
      OBVIOUS
    <3>2. i + 1 \in i + 1 .. j - 1
      BY <3>1, <1>1, SMT
    <3> QED  BY <3>2, <2>3
  <2>5. b[i].nonce = next + k - 1 /\ b[j].nonce = next + (k + 1) - 1
    BY <2>1, <2>2, <2>4
  <2> QED  BY <2>5, SMT
<1> QED  BY <1>1, <1>2, <1>3, <1>4, SMT

\* A block put on top of a chain makes a chain, of which it is the last block.
LEMMA ExtendType ==
    ASSUME NEW c \in Seq(Txs), NEW b \in Seq(Txs), Extend(c, b)
    PROVE  chain' \in Seq(Txs) /\ tip' \in 0 .. Len(chain')
<1>1. chain' = c \o b /\ tip' = Len(b)
  BY DEF Extend
<1>2. c \o b \in Seq(Txs) /\ Len(c \o b) = Len(c) + Len(b)
  BY SMT
<1>3. Len(c) \in Nat /\ Len(b) \in Nat
  BY SMT
<1> QED  BY <1>1, <1>2, <1>3, SMT

\* A handler that finished its first critical section adds one request.
LEMMA BeginType ==
    ASSUME TypeOK, Finite, NEW op \in {"insert", "remove"}, NEW txs \in Seq(Txs),
           Begin(op, txs)
    PROVE  /\ requests' \subseteq Request /\ Cardinality(requests') <= MaxRequests
           /\ IsFiniteSet(requests')
           /\ \A r \in requests' : r \in requests \/ r = [op |-> op, txs |-> txs]
<1>1. [op |-> op, txs |-> txs] \in Request
  BY DEF Request
<1>2. requests' = requests \cup {[op |-> op, txs |-> txs]}
  BY DEF Begin
<1>3. /\ IsFiniteSet(requests')
      /\ \/ Cardinality(requests') = Cardinality(requests)
         \/ Cardinality(requests') = Cardinality(requests) + 1
  BY <1>2, FS_AddElement DEF Finite
<1>4. Cardinality(requests) \in Nat /\ Cardinality(requests) < MaxRequests
  BY FS_CardinalityType DEF Finite, Begin
<1> QED
  BY <1>1, <1>2, <1>3, <1>4, PoolAssumption, SMT DEF TypeOK

\* A handler that finished its second one takes its request away.
LEMMA DoneType ==
    ASSUME TypeOK, Finite, NEW r \in requests, requests' = requests \ {r}
    PROVE  /\ requests' \subseteq Request /\ Cardinality(requests') <= MaxRequests
           /\ IsFiniteSet(requests')
<1>1. requests' \subseteq requests
  OBVIOUS
<1>2. IsFiniteSet(requests') /\ Cardinality(requests') <= Cardinality(requests)
  BY <1>1, FS_Subset DEF Finite
<1>3. Cardinality(requests) \in Nat /\ Cardinality(requests') \in Nat
  BY <1>2, FS_CardinalityType DEF Finite
<1> QED
  BY <1>1, <1>2, <1>3, PoolAssumption, SMT DEF TypeOK

\* What is taken out of the pool leaves a smaller one.
LEMMA RemoveType ==
    ASSUME TypeOK, Finite, PoolBounded, NEW S, byID' = byID \ S
    PROVE  byID' \subseteq Txs /\ IsFiniteSet(byID') /\ Cardinality(byID') <= limit
<1>1. byID' \subseteq byID
  OBVIOUS
<1>2. IsFiniteSet(byID') /\ Cardinality(byID') <= Cardinality(byID)
  BY <1>1, FS_Subset DEF Finite
<1>3. Cardinality(byID) \in Nat /\ Cardinality(byID') \in Nat
  BY <1>2, FS_CardinalityType DEF Finite
<1> QED
  BY <1>1, <1>2, <1>3, PoolAssumption, SMT DEF TypeOK, PoolBounded

-----------------------------------------------------------------------------
(* The steps *)

LEMMA InitInv == Init => IInv
<1> SUFFICES ASSUME Init PROVE IInv
  OBVIOUS
<1>1. IsFiniteSet({}) /\ Cardinality({}) = 0
  BY FS_EmptySet
<1>2. TypeOK
  BY <1>1, PoolAssumption, SMT DEF Init, TypeOK
<1>3. Finite /\ PoolBounded
  BY <1>1, PoolAssumption, SMT DEF Init, Finite, PoolBounded
<1>4. VisitedOnce /\ BatchContiguous /\ Justified
  BY SMT DEF Init, VisitedOnce, BatchContiguous, Contiguous, Justified
<1> QED
  BY <1>2, <1>3, <1>4 DEF IInv

LEMMA CheckInv ==
    ASSUME IInv, NEW t \in Txs, Check(t)
    PROVE  IInv'
<1> USE DEF IInv
<1>1. Begin("insert", <<t>>) /\ <<t>> \in Seq(Txs) /\ <<t>> # <<>>
  BY SMT DEF Check
<1>2. /\ requests' \subseteq Request /\ Cardinality(requests') <= MaxRequests
      /\ IsFiniteSet(requests')
      /\ \A r \in requests' : r \in requests \/ r = [op |-> "insert", txs |-> <<t>>]
  BY <1>1, BeginType
<1>3. UNCHANGED <<byID, chain, tip, accepted, phase, todo, batch, reorgs>>
  BY DEF Check
<1>4. TypeOK'
  BY <1>2, <1>3 DEF TypeOK
<1>5. Finite' /\ PoolBounded' /\ VisitedOnce' /\ BatchContiguous'
  BY <1>2, <1>3 DEF Finite, PoolBounded, VisitedOnce, BatchContiguous
<1>6. Justified'
  BY <1>1, <1>2, <1>3, SMT DEF Justified
<1> QED
  BY <1>4, <1>5, <1>6

LEMMA InsertInv ==
    ASSUME IInv, NEW r \in requests, Insert(r)
    PROVE  IInv'
<1> USE DEF IInv
<1>1. /\ requests' \subseteq Request /\ Cardinality(requests') <= MaxRequests
      /\ IsFiniteSet(requests')
  BY DoneType DEF Insert
<1>2. UNCHANGED <<chain, tip, accepted, phase, todo, batch, reorgs>>
  BY DEF Insert
<1>3. r.txs[1] \in Txs
  <2>1. r.txs \in Seq(Txs) /\ r.txs # <<>>
    BY DEF TypeOK, Request, Justified, Insert
  <2> QED  BY <2>1, SMT
<1>4. byID' \subseteq Txs /\ IsFiniteSet(byID') /\ Cardinality(byID') <= limit
  <2>1. CASE Cardinality(byID) >= limit
    BY <2>1 DEF Insert, TypeOK, Finite, PoolBounded
  <2>2. CASE ~ (Cardinality(byID) >= limit)
    <3>1. byID' = byID \cup {r.txs[1]}
      BY <2>2 DEF Insert
    <3>2. /\ IsFiniteSet(byID')
          /\ \/ Cardinality(byID') = Cardinality(byID)
             \/ Cardinality(byID') = Cardinality(byID) + 1
      BY <3>1, FS_AddElement DEF Finite
    <3>3. Cardinality(byID) \in Nat
      BY FS_CardinalityType DEF Finite
    <3> QED  BY <3>1, <3>2, <3>3, <2>2, <1>3, PoolAssumption, SMT DEF TypeOK
  <2> QED  BY <2>1, <2>2
<1>5. TypeOK'
  BY <1>1, <1>2, <1>4 DEF TypeOK
<1>6. Finite' /\ PoolBounded' /\ VisitedOnce' /\ BatchContiguous'
  BY <1>1, <1>2, <1>4 DEF Finite, PoolBounded, VisitedOnce, BatchContiguous
<1>7. Justified'
  BY <1>2 DEF Justified, Insert
<1> QED
  BY <1>5, <1>6, <1>7

LEMMA AcceptBlockInv ==
    ASSUME IInv, NEW b \in Foreign, AcceptBlock(b)
    PROVE  IInv'
<1> USE DEF IInv
<1>1. b \in Seq(Txs) /\ Range(b) \subseteq Txs
  BY PoolAssumption, SMT DEF Range
<1>2. UNCHANGED <<byID, phase, todo, batch>> /\ accepted' = accepted \cup Range(b)
  BY DEF AcceptBlock
<1>3. /\ requests' \subseteq Request /\ Cardinality(requests') <= MaxRequests
      /\ IsFiniteSet(requests')
      /\ \A r \in requests' : r \in requests \/ r = [op |-> "remove", txs |-> b]
  BY <1>1, BeginType DEF AcceptBlock
<1>4. chain' \in Seq(Txs) /\ tip' \in 0 .. Len(chain') /\ reorgs' \in 0 .. MaxReorgs
  <2>1. CASE Extend(chain, b) /\ UNCHANGED reorgs
    BY <2>1, <1>1, ExtendType DEF TypeOK
  <2>2. CASE /\ Extend(SubSeq(chain, 1, Len(chain) - tip), b)
             /\ reorgs < MaxReorgs /\ reorgs' = reorgs + 1
    <3>1. SubSeq(chain, 1, Len(chain) - tip) \in Seq(Txs)
      BY SMT DEF TypeOK
    <3>2. chain' \in Seq(Txs) /\ tip' \in 0 .. Len(chain')
      BY <2>2, <3>1, <1>1, ExtendType
    <3>3. reorgs' \in 0 .. MaxReorgs
      BY <2>2, PoolAssumption, SMT DEF TypeOK
    <3> QED  BY <3>2, <3>3
  <2>3. CASE UNCHANGED <<chain, tip, reorgs>>
    BY <2>3 DEF TypeOK
  <2> QED  BY <2>1, <2>2, <2>3 DEF AcceptBlock
<1>5. TypeOK'
  BY <1>1, <1>2, <1>3, <1>4 DEF TypeOK
<1>6. Finite' /\ PoolBounded' /\ VisitedOnce' /\ BatchContiguous'
  BY <1>2, <1>3 DEF Finite, PoolBounded, VisitedOnce, BatchContiguous
<1>7. Justified'
  BY <1>2, <1>3, SMT DEF Justified
<1> QED
  BY <1>5, <1>6, <1>7

LEMMA SyncInstallInv ==
    ASSUME IInv, NEW b \in Foreign, SyncInstall(b)
    PROVE  IInv'
<1> USE DEF IInv
<1>1. chain' \in Seq(Txs) /\ tip' \in 0 .. Len(chain')
  BY PoolAssumption, ExtendType DEF SyncInstall, TypeOK
<1>2. UNCHANGED <<byID, accepted, requests, phase, todo, batch, reorgs>>
  BY DEF SyncInstall
<1> QED
  BY <1>1, <1>2
  DEF TypeOK, Finite, PoolBounded, VisitedOnce, BatchContiguous, Justified

LEMMA RemoveBlockInv ==
    ASSUME IInv, NEW r \in requests, RemoveBlock(r)
    PROVE  IInv'
<1> USE DEF IInv
<1>1. /\ requests' \subseteq Request /\ Cardinality(requests') <= MaxRequests
      /\ IsFiniteSet(requests')
  BY DoneType DEF RemoveBlock
<1>2. byID' \subseteq Txs /\ IsFiniteSet(byID') /\ Cardinality(byID') <= limit
  BY RemoveType DEF RemoveBlock
<1>3. UNCHANGED <<chain, tip, accepted, phase, todo, batch, reorgs>>
  BY DEF RemoveBlock
<1>4. TypeOK'
  BY <1>1, <1>2, <1>3 DEF TypeOK
<1>5. Finite' /\ PoolBounded' /\ VisitedOnce' /\ BatchContiguous'
  BY <1>1, <1>2, <1>3 DEF Finite, PoolBounded, VisitedOnce, BatchContiguous
<1>6. Justified'
  BY <1>3 DEF Justified, RemoveBlock
<1> QED
  BY <1>4, <1>5, <1>6

LEMMA ReapStartInv ==
    ASSUME IInv, ReapStart
    PROVE  IInv'
<1> USE DEF IInv
<1>1. UNCHANGED <<byID, chain, tip, accepted, requests, batch, reorgs>>
  BY DEF ReapStart
<1>2. phase' = "reap" /\ todo' \subseteq Senders /\ batch = <<>>
  BY PoolAssumption DEF ReapStart, TypeOK, VisitedOnce
<1> QED
  BY <1>1, <1>2, SMT
  DEF TypeOK, Finite, PoolBounded, VisitedOnce, BatchContiguous, Justified

LEMMA ReapSenderInv ==
    ASSUME IInv, NEW s \in Senders, ReapSender(s)
    PROVE  IInv'
<1> USE DEF IInv
<1>1. /\ phase = "reap" /\ s \in todo
      /\ todo' = IF Len(batch') >= MaxReap THEN {} ELSE todo \ {s}
      /\ phase' = IF todo' = {} THEN "produce" ELSE "reap"
      /\ UNCHANGED <<byID, chain, tip, accepted, requests, reorgs>>
  BY DEF ReapSender
<1>2. PICK q \in Sorted(Pooled(s)) :
         \E n \in Fits(q, Nonce(s), MaxReap - Len(batch)) :
            batch' = batch \o SubSeq(q, 1, n)
  BY DEF ReapSender
<1>3. PICK n \in Fits(q, Nonce(s), MaxReap - Len(batch)) :
         batch' = batch \o SubSeq(q, 1, n)
  BY <1>2
<1>4. /\ q \in Seq(Txs)
      /\ \A i \in 1 .. Len(q) : q[i] \in Txs /\ q[i].from = s
  BY SortedType
<1>5. Nonce(s) \in Nat
  BY NonceType
<1>6. /\ n \in 0 .. Len(q) /\ n <= MaxReap - Len(batch)
      /\ \A i \in 1 .. n : q[i].nonce = Nonce(s) + i - 1
  BY <1>3 DEF Fits
<1>7. batch \in Seq(Txs) /\ Len(batch) \in Nat /\ DOMAIN batch = 1 .. Len(batch)
  BY SMT DEF TypeOK
<1>8. /\ SubSeq(q, 1, n) \in Seq(Txs) /\ Len(SubSeq(q, 1, n)) = n
      /\ \A k \in 1 .. n : SubSeq(q, 1, n)[k] = q[k]
  BY <1>4, <1>6, SMT
<1>9. /\ batch' \in Seq(Txs) /\ Len(batch') = Len(batch) + n
      /\ \A k \in 1 .. Len(batch) : batch'[k] = batch[k]
      /\ \A k \in 1 .. n : batch'[Len(batch) + k] = q[k]
  <2> DEFINE new == SubSeq(q, 1, n)
  <2>1. new \in Seq(Txs) /\ Len(new) = n /\ \A k \in 1 .. n : new[k] = q[k]
    BY <1>8
  <2>2. batch' = batch \o new
    BY <1>3
  <2> HIDE DEF new
  <2> QED  BY <2>1, <2>2, <1>7, Joined, SMT
<1>10. n \in Nat /\ n <= Len(q)
  BY <1>4, <1>6, SMT
<1>11. \A k \in 1 .. n : /\ batch'[Len(batch) + k].from = s
                         /\ batch'[Len(batch) + k].nonce = Nonce(s) + k - 1
  <2> TAKE k \in 1 .. n
  <2>1. k \in 1 .. Len(q)
    BY <1>4, <1>10, SMT
  <2>2. q[k].from = s /\ q[k].nonce = Nonce(s) + k - 1
    BY <2>1, <1>4, <1>6
  <2>3. batch'[Len(batch) + k] = q[k]
    BY <1>9
  <2> QED  BY <2>2, <2>3
<1>12. \A k \in 1 .. Len(batch) : batch'[k] = batch[k] /\ batch[k].from \notin todo
  BY <1>1, <1>7, <1>9 DEF VisitedOnce
<1>13. Contiguous(batch')
  <2>1. \A k \in 1 .. Len(batch) : batch'[k] = batch[k] /\ batch[k].from # s
    BY <1>1, <1>12
  <2>2. Contiguous(batch)
    BY DEF BatchContiguous
  <2>3. Turn(batch', batch, s, Nonce(s), n)
    BY <2>1, <1>9, <1>11 DEF Turn
  <2> QED
    BY <2>2, <2>3, <1>5, <1>7, <1>9, <1>10, TurnContiguous
<1>14. TypeOK'
  <2>1. Len(batch') <= MaxReap
    BY <1>6, <1>7, <1>9, <1>10, PoolAssumption, SMT
  <2>2. todo' \subseteq Senders /\ phase' \in {"reap", "produce"}
    BY <1>1 DEF TypeOK
  <2> QED  BY <2>1, <2>2, <1>1, <1>9 DEF TypeOK
<1>15. VisitedOnce'
  <2> SUFFICES ASSUME phase' = "reap", NEW i \in DOMAIN batch'
               PROVE  batch'[i].from \notin todo'
    BY <1>1 DEF VisitedOnce
  <2>1. todo' = todo \ {s}
    BY <1>1
  <2>2. i \in 1 .. Len(batch) + n
    BY <1>9, SMT
  <2>3. CASE i <= Len(batch)
    <3>1. i \in 1 .. Len(batch)
      BY <2>2, <2>3, <1>7, SMT
    <3> QED  BY <3>1, <2>1, <1>12
  <2>4. CASE i > Len(batch)
    <3>1. i - Len(batch) \in 1 .. n /\ Len(batch) + (i - Len(batch)) = i
      BY <2>2, <2>4, <1>7, <1>10, SMT
    <3>2. batch'[i].from = s
      BY <3>1, <1>11
    <3> QED  BY <3>2, <2>1
  <2> QED  BY <2>2, <2>3, <2>4, <1>7, SMT
<1>16. Finite' /\ PoolBounded' /\ BatchContiguous' /\ Justified'
  BY <1>1, <1>13 DEF Finite, PoolBounded, BatchContiguous, Justified
<1> QED
  BY <1>14, <1>15, <1>16

LEMMA ProduceInv ==
    ASSUME IInv, Produce
    PROVE  IInv'
<1> USE DEF IInv
<1>1. phase = "produce" /\ UNCHANGED <<byID, requests, todo, reorgs>>
  BY DEF Produce
<1>2. CASE batch # <<>> /\ Applies(chain, batch)
  <2>1. /\ Extend(chain, batch) /\ accepted' = accepted \cup Range(batch)
        /\ phase' = "remove" /\ batch' = batch
    BY <1>2 DEF Produce
  <2>2. chain' \in Seq(Txs) /\ tip' \in 0 .. Len(chain')
    BY <2>1, ExtendType DEF TypeOK
  <2>3. accepted' \subseteq Txs
    BY <2>1, SMT DEF TypeOK, Range
  <2> QED
    BY <2>1, <2>2, <2>3, <1>1
    DEF TypeOK, Finite, PoolBounded, VisitedOnce, BatchContiguous, Justified
<1>3. CASE ~ (batch # <<>> /\ Applies(chain, batch))
  <2>1. phase' = "idle" /\ batch' = <<>> /\ UNCHANGED <<chain, tip, accepted>>
    BY <1>3 DEF Produce
  <2>2. Contiguous(batch')
    BY <2>1, SMT DEF Contiguous
  <2>3. TypeOK'
    BY <2>1, <1>1, PoolAssumption, SMT DEF TypeOK
  <2> QED
    BY <2>1, <2>2, <2>3, <1>1
    DEF Finite, PoolBounded, VisitedOnce, BatchContiguous, Justified
<1> QED
  BY <1>2, <1>3

LEMMA RemoveBatchInv ==
    ASSUME IInv, RemoveBatch
    PROVE  IInv'
<1> USE DEF IInv
<1>1. /\ phase' = "idle" /\ batch' = <<>>
      /\ UNCHANGED <<chain, tip, accepted, requests, todo, reorgs>>
  BY DEF RemoveBatch
<1>2. byID' \subseteq Txs /\ IsFiniteSet(byID') /\ Cardinality(byID') <= limit
  BY RemoveType DEF RemoveBatch
<1>3. Contiguous(batch')
  BY <1>1, SMT DEF Contiguous
<1>4. TypeOK'
  BY <1>1, <1>2, PoolAssumption, SMT DEF TypeOK
<1> QED
  BY <1>1, <1>2, <1>3, <1>4
  DEF Finite, PoolBounded, VisitedOnce, BatchContiguous, Justified

LEMMA NextInv == IInv /\ [Next]_vars => IInv'
<1> SUFFICES ASSUME IInv, [Next]_vars PROVE IInv'
  OBVIOUS
<1>1. CASE \E t \in Txs : Check(t)
  BY <1>1, CheckInv
<1>2. CASE \E b \in Foreign : AcceptBlock(b) \/ SyncInstall(b)
  BY <1>2, AcceptBlockInv, SyncInstallInv
<1>3. CASE \E r \in requests : Insert(r) \/ RemoveBlock(r)
  BY <1>3, InsertInv, RemoveBlockInv
<1>4. CASE BlockLoop
  BY <1>4, ReapStartInv, ReapSenderInv, ProduceInv, RemoveBatchInv DEF BlockLoop
<1>5. CASE UNCHANGED vars
  BY <1>5 DEF vars, IInv, TypeOK, Finite, PoolBounded, VisitedOnce,
              BatchContiguous, Justified
<1> QED
  BY <1>1, <1>2, <1>3, <1>4, <1>5 DEF Next

LEMMA InvAlways == Spec => []IInv
  BY InitInv, NextInv, PTL DEF Spec

-----------------------------------------------------------------------------
(* Theorems *)

\* The batch never exceeds the argument of Reap, and the pool, the chain and the
\* requests between two critical sections keep their types.
THEOREM PoolTypes == Spec => []TypeOK
<1>1. IInv => TypeOK
  BY DEF IInv
<1> QED
  BY <1>1, InvAlways, PTL

\* The pool never holds more transactions than its limit, however many handlers
\* passed CheckTx before the last slot was taken (Submit).
THEOREM PoolStaysBounded == Spec => []PoolBounded
<1>1. IInv => PoolBounded
  BY DEF IInv
<1> QED
  BY <1>1, InvAlways, PTL

\* Every batch has each sender's transactions in nonce order without gap or
\* repetition, whatever happens to the chain while Reap collects it.
THEOREM BatchesContiguous == Spec => []BatchContiguous
<1>1. IInv => BatchContiguous
  BY DEF IInv
<1> QED
  BY <1>1, InvAlways, PTL

\* No step takes a transaction out of the pool that is not in a block the node
\* accepted: what Remove is called with was accepted before (maybeProduce, the
\* handler of /gossip/block).
THEOREM LeavesOnlyWithItsBlock == Spec => LeavesWithItsBlock
<1>1. IInv /\ [Next]_vars => [\A t \in byID \ byID' : t \in accepted']_vars
  <2> SUFFICES ASSUME IInv, [Next]_vars, NEW t \in byID \ byID'
               PROVE  t \in accepted'
    OBVIOUS
  <2>1. CASE \E r \in requests : RemoveBlock(r)
    BY <2>1 DEF RemoveBlock, IInv, Justified
  <2>2. CASE RemoveBatch
    BY <2>2 DEF RemoveBatch, IInv, Justified
  <2>3. CASE \E r \in requests : Insert(r)
    BY <2>3 DEF Insert
  <2>4. CASE \E u \in Txs : Check(u)
    BY <2>4 DEF Check
  <2>5. CASE \E b \in Foreign : AcceptBlock(b) \/ SyncInstall(b)
    BY <2>5 DEF AcceptBlock, SyncInstall
  <2>6. CASE ReapStart \/ (\E s \in Senders : ReapSender(s)) \/ Produce
    BY <2>6 DEF ReapStart, ReapSender, Produce
  <2>7. CASE UNCHANGED vars
    BY <2>7 DEF vars
  <2> QED
    BY <2>1, <2>2, <2>3, <2>4, <2>5, <2>6, <2>7 DEF Next, BlockLoop
<1> QED
  BY <1>1, InvAlways, PTL DEF Spec, LeavesWithItsBlock

-----------------------------------------------------------------------------
(* The canonical chain *)

\* Whatever is put on the chain was applied in order as a whole (ApplyBlock).
LEMMA ExtendInOrder ==
    ASSUME NEW c, NEW b, Extend(c, b)
    PROVE  NoReplay'
BY DEF Extend, Applies, NoReplay

\* A chain without transactions is in order: nobody has spent anything.
LEMMA EmptyInOrder == InOrder(<<>>)
<1>1. \A s \in Senders : Spent(<<>>, s) = 0
  <2> TAKE s \in Senders
  <2> DEFINE f == [i \in {} |-> <<>>[i].cost]
  <2>1. Of(<<>>, s) = {}
    BY SMT DEF Of
  <2>2. Spent(<<>>, s) = SumFunction(f)
    BY <2>1 DEF Spent
  <2>3. IsFiniteSet({}) /\ f \in [{} -> Int]
    BY FS_EmptySet
  <2> HIDE DEF f
  <2>4. PICK g : IsSum(g, f, {}) /\ SumFunction(f) = g[{}]
    BY <2>3, SumIsSum
  <2> QED  BY <2>2, <2>4 DEF IsSum
<1>2. \A s \in Senders : Spent(<<>>, s) <= Funds[s]
  BY <1>1, PoolAssumption, SMT
<1> QED
  BY <1>2, SMT DEF InOrder

\* The chain changes only by a block that is applied on top of it, or on top of
\* what is below its last block.
LEMMA NextInOrder == NoReplay /\ [Next]_vars => NoReplay'
<1> SUFFICES ASSUME NoReplay, [Next]_vars PROVE NoReplay'
  OBVIOUS
<1>1. CASE chain' = chain
  BY <1>1 DEF NoReplay
<1>2. CASE \E b \in Foreign : AcceptBlock(b) \/ SyncInstall(b)
  BY <1>1, <1>2, ExtendInOrder DEF AcceptBlock, SyncInstall
<1>3. CASE Produce
  BY <1>1, <1>3, ExtendInOrder DEF Produce
<1>4. CASE \/ \E t \in Txs : Check(t)
           \/ \E r \in requests : Insert(r) \/ RemoveBlock(r)
           \/ ReapStart \/ (\E s \in Senders : ReapSender(s)) \/ RemoveBatch
  BY <1>1, <1>4 DEF Check, Insert, RemoveBlock, ReapStart, ReapSender, RemoveBatch
<1> QED
  BY <1>1, <1>2, <1>3, <1>4 DEF Next, BlockLoop, vars

\* No transaction is on the canonical chain out of order and nobody overspends,
\* however Reap, gossip, sync and a replaced block interleave: maybeProduce
\* applies what it reaped to the ledger of now as a whole or not at all.
THEOREM ChainInOrder == Spec => []NoReplay
<1>1. Init => NoReplay
  BY EmptyInOrder DEF Init, NoReplay
<1> QED
  BY <1>1, NextInOrder, PTL DEF Spec

\* No two transactions of the chain have the same sender and the same nonce.
OncePerNonce ==
    \A i, j \in DOMAIN chain :
       chain[i].from = chain[j].from /\ chain[i].nonce = chain[j].nonce => i = j

\* In a chain in order, of two transactions of a sender the later one has the
\* greater nonce: more of the sender's transactions precede it.
LEMMA LaterIsGreater ==
    ASSUME NEW c \in Seq(Txs), InOrder(c),
           NEW i \in DOMAIN c, NEW j \in DOMAIN c, i < j, c[i].from = c[j].from
    PROVE  c[i].nonce < c[j].nonce
<1> DEFINE A == Of(SubSeq(c, 1, i - 1), c[i].from)
           B == Of(SubSeq(c, 1, j - 1), c[i].from)
<1>1. c[i].nonce = Cardinality(A) /\ c[j].nonce = Cardinality(B)
  BY DEF InOrder
<1>2. /\ Len(c) \in Nat /\ i \in 1 .. Len(c) /\ j \in 1 .. Len(c)
  BY SMT
<1>3. \A n \in 0 .. Len(c) : /\ DOMAIN SubSeq(c, 1, n) = 1 .. n
                             /\ \A k \in 1 .. n : SubSeq(c, 1, n)[k] = c[k]
  BY SMT
<1>4. i - 1 \in 0 .. Len(c) /\ j - 1 \in 0 .. Len(c)
  BY <1>2, SMT
<1>5. A = {k \in 1 .. i - 1 : c[k].from = c[i].from}
  BY <1>3, <1>4 DEF Of
<1>6. B = {k \in 1 .. j - 1 : c[k].from = c[i].from}
  BY <1>3, <1>4 DEF Of
<1> HIDE DEF A, B
<1>7. A \cup {i} \subseteq B /\ i \notin A
  <2>1. i \in 1 .. j - 1 /\ 1 .. i - 1 \subseteq 1 .. j - 1 /\ i \notin 1 .. i - 1
    BY <1>2, SMT
  <2> QED  BY <2>1, <1>5, <1>6
<1>8. IsFiniteSet(B) /\ IsFiniteSet(A)
  <2>1. B \subseteq 1 .. j - 1
    BY <1>6
  <2>2. IsFiniteSet(1 .. j - 1)
    <3>1. 1 \in Int /\ j - 1 \in Int
      BY <1>2, SMT
    <3> QED  BY <3>1, FS_Interval
  <2>3. IsFiniteSet(B)
    BY <2>1, <2>2, FS_Subset
  <2>4. A \subseteq B
    BY <1>7
  <2> QED  BY <2>3, <2>4, FS_Subset
<1>9. Cardinality(A \cup {i}) = Cardinality(A) + 1
  BY <1>7, <1>8, FS_AddElement
<1>10. Cardinality(A \cup {i}) <= Cardinality(B)
  BY <1>7, <1>8, FS_Subset
<1>11. Cardinality(A) \in Nat /\ Cardinality(B) \in Nat
  BY <1>8, FS_CardinalityType
<1> QED
  BY <1>1, <1>9, <1>10, <1>11, SMT

\* No nonce of a sender is used twice on the canonical chain, so no transaction
\* is applied twice, although a stale one may be reaped again and again.
THEOREM NonceUsedOnce == Spec => []OncePerNonce
<1>1. TypeOK /\ NoReplay => OncePerNonce
  <2> SUFFICES ASSUME TypeOK, NoReplay,
                      NEW i \in DOMAIN chain, NEW j \in DOMAIN chain,
                      chain[i].from = chain[j].from,
                      chain[i].nonce = chain[j].nonce, i # j
               PROVE  FALSE
    BY DEF OncePerNonce
  <2>1. /\ chain \in Seq(Txs) /\ InOrder(chain)
        /\ chain[i].nonce \in Nat /\ chain[j].nonce \in Nat
    BY PoolAssumption, SMT DEF TypeOK, NoReplay
  <2>2. i < j \/ j < i
    BY <2>1, SMT
  <2>3. chain[i].nonce < chain[j].nonce \/ chain[j].nonce < chain[i].nonce
    BY <2>1, <2>2, LaterIsGreater
  <2> QED  BY <2>1, <2>3, SMT
<1> QED
  BY <1>1, PoolTypes, ChainInOrder, PTL

=============================================================================
