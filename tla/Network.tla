------------------------------ MODULE Network -------------------------------
(***************************************************************************)
(* The validators together: the weighted leader election with its rounds   *)
(* (internal/consensus PoStorage over state.ActiveValidators and           *)
(* StorageWeights), the block ticker (node.maybeProduce), block gossip,    *)
(* which is pushed once and never repeated (p2p.BroadcastBlock and the     *)
(* handler of POST /gossip/block), and the catching up of nodes that fell  *)
(* behind (node.trySync, p2p.SyncFrom).                                    *)
(*                                                                         *)
(* A block is the sequence of the headers from the first block to its own: *)
(* the hash of the previous block identifies all of them.  Genesis is the  *)
(* empty sequence.  A header has the fields that the engine and the chain  *)
(* read, and one transaction or None.  The account state of a node is that *)
(* of its head, and an operation of Chain is one step here: Chain.tla      *)
(* shows what may happen in between.  All clocks show the time `now`.      *)
(***************************************************************************)
EXTENDS Naturals, FiniteSets, FiniteSetsExt, Sequences

CONSTANTS
    Nodes,           \* addresses of the nodes (numbers: addresses are ordered)
    Founders,        \* the validators that genesis registers
    First,           \* validators[0], whose key signs the genesis header
    Score(_, _, _, _),  \* leaderScore: previous block, validator, round, copy
    IdLess(_, _),    \* the order of the block ids
    BlockTime,       \* seconds per round
    FinalityDepth, StorageWindow, StorageCap,
    Networks,        \* the conditions the nodes run under
    None

ASSUME NetworkAssumption ==
    /\ Nodes \subseteq Nat /\ IsFiniteSet(Nodes) /\ None \notin Nat
    /\ Founders \subseteq Nodes /\ First \in Founders
    /\ \A w \in Networks :
          /\ w.timely \in BOOLEAN /\ w.down \subseteq Nodes /\ w.down # Nodes
          /\ \A t \in w.txs : t.kind \in {"register", "prove"} /\ t.who \in Nodes
          /\ {w.maxTime, w.maxHeight} \subseteq Nat
    /\ BlockTime \in Nat \ {0}
    /\ {FinalityDepth, StorageWindow, StorageCap} \subseteq Nat

VARIABLES
    net,          \* the conditions; never changes.  timely: a block reaches
                  \* every node that is up within the block time, and peers
                  \* answer; down: the nodes that are down; txs: transactions
                  \* in the mempools; maxTime, maxHeight: bounds of the model
    now,
    ticked,       \* the nodes whose block ticker has fired in this block time
    head, tree, bodies, hollow, base,   \* node -> as in Chain
    signed,       \* the nodes whose stored genesis header has its signature
    turn,         \* node -> the round it was elected for, before ProduceBlock
    sync,         \* node -> the tip it fetched the headers of and whether their
                  \* genesis header is signed, before SyncInstall
    inbox         \* node -> blocks posted to it that it has not handled

chains == <<head, tree, bodies, hollow, base, signed>>
vars == <<net, now, ticked, chains, turn, sync, inbox>>

Up == Nodes \ net.down

-----------------------------------------------------------------------------
(* Blocks and the state after them *)

Genesis == <<>>
Height(b) == Len(b)
Last(b) == b[Len(b)]
Parent(b) == SubSeq(b, 1, Len(b) - 1)

\* The block b is c or an ancestor of it.
IsPrefix(b, c) == Height(b) <= Height(c) /\ b = SubSeq(c, 1, Height(b))

Timestamp(b) == IF b = Genesis THEN 0 ELSE Last(b).ts

Carrying(s, kind, v) == {i \in DOMAIN s : s[i].tx = [kind |-> kind, who |-> v]}

ActiveValidators(s) == Founders \cup {v \in Nodes : Carrying(s, "register", v) # {}}

\* 1 and the bonus for accepted proofs, while the last one is fresh.
StorageWeight(s, v) ==
    LET proofs == Carrying(s, "prove", v)
        fresh == proofs # {} /\ (StorageWindow = 0 \/ Height(s) < Max(proofs) + StorageWindow)
    IN  1 + IF fresh THEN Min({Cardinality(proofs), StorageCap}) ELSE 0

\* ApplyBlock refuses a second registration and a proof of a non-validator; its
\* other conditions, which Ledger has, hold for the transactions of net.
Valid(s, t) ==
    t # None => IF t.kind = "register" THEN t.who \notin ActiveValidators(s)
                                       ELSE t.who \in ActiveValidators(s)

-----------------------------------------------------------------------------
(* The engine *)

\* The holder of the best of all virtual entries; ties go to the lower address.
\* The validators and their weights are those of the state s, which need not be
\* that of the previous block.
LeaderFor(s, prev, round) ==
    LET entries == UNION {{v} \X (0 .. StorageWeight(s, v) - 1) : v \in ActiveValidators(s)}
        score == [e \in entries |-> Score(prev, e[1], round, e[2])]
        top == Max({score[e] : e \in entries})
    IN  Min({e[1] : e \in {f \in entries : score[f] = top}})

AuthorizeHeader(s, b) ==
    /\ Last(b).v \in ActiveValidators(s)
    /\ Last(b).v = LeaderFor(s, Parent(b), Last(b).round)

CanProduce(n, s, round) == n \in ActiveValidators(s) /\ n = LeaderFor(s, s, round)

-----------------------------------------------------------------------------
(* The chain of a node *)

Add(tr, b) ==
    IF b \in DOMAIN tr THEN tr
    ELSE [c \in DOMAIN tr \cup {b} |->
             IF c # b THEN tr[c]
             ELSE IF b # Genesis /\ Parent(b) \in DOMAIN tr THEN tr[Parent(b)] + 1 ELSE 1]

Best(tr) ==
    CHOOSE b \in DOMAIN tr : \A c \in DOMAIN tr \ {b} :
       tr[b] > tr[c] \/ (tr[b] = tr[c] /\ IdLess(b, c))

\* walkDown(tip, stop) over the blocks `known`.
CanWalk(known, tip, stop) ==
    /\ IsPrefix(stop, tip)
    /\ \A h \in Height(stop) + 1 .. Height(tip) : SubSeq(tip, 1, h) \in known

\* reorgToBest: the head after it.
ReorgToBest(n, tr, known) ==
    LET best == Best(tr) IN
    IF CanWalk(known, best, head[n]) \/ CanWalk(known, best, base[n])
    THEN best ELSE head[n]

\* advanceFinality, with the new head h.
Finalized(n, h, known) ==
    IF /\ FinalityDepth # 0
       /\ Height(h) > Height(base[n]) + FinalityDepth
       /\ CanWalk(known, h, base[n])
    THEN SubSeq(h, 1, Height(h) - FinalityDepth) ELSE base[n]

\* recordBlock on node n, after which its head is h.
Record(n, b, h) ==
    /\ tree' = [tree EXCEPT ![n] = Add(@, b)]
    /\ bodies' = [bodies EXCEPT ![n] = @ \cup {b}]
    /\ head' = [head EXCEPT ![n] = h]
    /\ base' = [base EXCEPT ![n] = Finalized(n, h, bodies'[n] \cup hollow[n])]
    /\ UNCHANGED <<hollow, signed>>

-----------------------------------------------------------------------------
(* Producing *)

\* The peers that answer a request of n.
Answering(n) == IF net.timely THEN {Up \ {n}} ELSE SUBSET (Up \ {n})

BestPeerHeight(peers) == Max({Height(head[m]) : m \in peers} \cup {0})

\* Mutant: the round is not derived from the time since the head.
RoundNone(n) == 0

\* maybeProduce: elapsed block times since the head.
Round(n) == (now - Timestamp(head[n])) \div BlockTime

loopFree(n) == n \in Up /\ turn[n] = None /\ sync[n] = None

\* Mutant: a node produces although a peer is ahead.
ElectUnaware(n) ==
    /\ loopFree(n) /\ n \notin ticked
    /\ ticked' = ticked \cup {n}
    /\ turn' = [turn EXCEPT ![n] = IF CanProduce(n, head[n], Round(n))
                                   THEN Round(n) ELSE None]
    /\ UNCHANGED <<net, now, chains, sync, inbox>>

\* maybeProduce up to CanProduce.  A node stays silent while a peer is ahead.
Elect(n) ==
    /\ loopFree(n) /\ n \notin ticked
    /\ ticked' = ticked \cup {n}
    /\ \E peers \in Answering(n) :
          turn' = [turn EXCEPT ![n] =
                      IF /\ BestPeerHeight(peers) <= Height(head[n])
                         /\ CanProduce(n, head[n], Round(n))
                      THEN Round(n) ELSE None]
    /\ UNCHANGED <<net, now, chains, sync, inbox>>

\* BroadcastBlock: one request to every peer.
Broadcast(n, b) ==
    inbox' = [m \in Nodes |-> IF m \in Up \ {n} THEN inbox[m] \cup {b} ELSE inbox[m]]

\* Mutant: the block is recorded, but the head stays.
ProduceBlockHeadStays(n) ==
    /\ turn[n] # None
    /\ Height(head[n]) < net.maxHeight
    /\ \E t \in net.txs \cup {None} :
          LET b == Append(head[n], [v |-> n, round |-> turn[n], ts |-> now, tx |-> t])
          IN  /\ Valid(head[n], t)
              /\ Record(n, b, head[n])
              /\ Broadcast(n, b)
    /\ turn' = [turn EXCEPT ![n] = None]
    /\ UNCHANGED <<net, now, ticked, sync>>

\* ProduceBlock extends the head of now with the round of the election.
ProduceBlock(n) ==
    /\ turn[n] # None
    /\ Height(head[n]) < net.maxHeight
    /\ \E t \in net.txs \cup {None} :
          LET b == Append(head[n], [v |-> n, round |-> turn[n], ts |-> now, tx |-> t])
          IN  /\ Valid(head[n], t)
              /\ Record(n, b, b)
              /\ Broadcast(n, b)
    /\ turn' = [turn EXCEPT ![n] = None]
    /\ UNCHANGED <<net, now, ticked, sync>>

-----------------------------------------------------------------------------
(* POST /gossip/block *)

Known(n, b) == b \in bodies[n] \cup hollow[n]

\* Rejected as a forgery: not the leader by the validators of the receiver's
\* own head, or a round that was not due.
IsForgery(n, b) ==
    \/ ~ AuthorizeHeader(head[n], b)
    \/ /\ Known(n, Parent(b))
       /\ Timestamp(b) < Timestamp(Parent(b)) + Last(b).round * BlockTime

Handled(n, b) ==
    /\ b \in inbox[n]
    /\ inbox' = [inbox EXCEPT ![n] = @ \ {b}]

AcceptBlock(n, b) ==
    /\ Handled(n, b)
    /\ b \notin DOMAIN tree[n] /\ ~ IsForgery(n, b) /\ Known(n, Parent(b))
    /\ Record(n, b, ReorgToBest(n, Add(tree[n], b), bodies[n] \cup hollow[n] \cup {b}))
    /\ UNCHANGED <<net, now, ticked, turn, sync>>

\* Known already; ErrUnknownParent; or a forgery, whose sender is struck.  The
\* block is forgotten, and nobody sends it again.
RejectBlock(n, b) ==
    /\ Handled(n, b)
    /\ b \in DOMAIN tree[n] \/ IsForgery(n, b) \/ ~ Known(n, Parent(b))
    /\ UNCHANGED <<net, now, ticked, chains, turn, sync>>

-----------------------------------------------------------------------------
(* trySync *)

\* The last in the order of the addresses of the peers with the highest head.
BestPeer(peers) == Max({p \in peers : Height(head[p]) = BestPeerHeight(peers)})

\* SyncFrom: the highest head among the peers that answer, if it is higher.
SyncFrom(n) ==
    /\ loopFree(n)
    /\ \E peers \in Answering(n) \ {{}} :
          LET p == BestPeer(peers) IN
          /\ Height(head[p]) > Height(head[n])
          /\ sync' = [sync EXCEPT ![n] = [tip |-> head[p], signed |-> p \in signed]]
    /\ UNCHANGED <<net, now, ticked, chains, turn, inbox>>

\* Mutant: the headers are stored, but the head stays.
SyncInstallHeadStays(n) ==
    /\ sync[n] # None
    /\ sync' = [sync EXCEPT ![n] = None]
    /\ signed' = IF sync[n].signed THEN signed \cup {n} ELSE signed
    /\ UNCHANGED <<net, now, ticked, head, tree, bodies, hollow, base, turn, inbox>>

\* SyncInstall: all headers must be signed, genesis included, which a peer that
\* derived genesis itself serves unsigned; and be authorized by the validators of
\* now.  A header is stored before the next one is looked at.  The tip is
\* installed without its body, as head and replay base.
SyncInstall(n) ==
    LET tip == sync[n].tip IN
    /\ sync[n] # None
    /\ sync' = [sync EXCEPT ![n] = None]
    /\ signed' = IF sync[n].signed THEN signed \cup {n} ELSE signed
    /\ IF /\ sync[n].signed
          /\ \A h \in 1 .. Height(tip) : AuthorizeHeader(head[n], SubSeq(tip, 1, h))
       THEN /\ head' = [head EXCEPT ![n] = tip]
            /\ base' = [base EXCEPT ![n] = tip]
            /\ tree' = [tree EXCEPT ![n] = Add(@, tip)]
            /\ hollow' = [hollow EXCEPT ![n] = @ \cup {tip}]
            /\ UNCHANGED bodies
       ELSE UNCHANGED <<head, base, tree, hollow, bodies>>
    /\ UNCHANGED <<net, now, ticked, turn, inbox>>

-----------------------------------------------------------------------------
(* Time *)

\* One block time.  The ticker of every node that is up has fired; if gossip is
\* timely, what was broadcast has been handled.
Tick ==
    /\ now + BlockTime <= net.maxTime
    /\ Up \subseteq ticked
    /\ net.timely => \A n \in Up : inbox[n] = {} /\ turn[n] = None
    /\ now' = now + BlockTime
    /\ ticked' = {}
    /\ UNCHANGED <<net, chains, turn, sync, inbox>>

-----------------------------------------------------------------------------

Init ==
    /\ net \in Networks
    /\ now = 0
    /\ ticked = {}
    /\ head = [n \in Nodes |-> Genesis]
    /\ tree = [n \in Nodes |-> [b \in {Genesis} |-> 1]]
    /\ bodies = [n \in Nodes |-> {Genesis}]
    /\ hollow = [n \in Nodes |-> {}]
    /\ base = [n \in Nodes |-> Genesis]
    /\ signed = {First}
    /\ turn = [n \in Nodes |-> None]
    /\ sync = [n \in Nodes |-> None]
    /\ inbox = [n \in Nodes |-> {}]

Handle(n) == \E b \in inbox[n] : AcceptBlock(n, b) \/ RejectBlock(n, b)

Next ==
    \/ \E n \in Nodes : \/ Elect(n) \/ ProduceBlock(n)
                        \/ Handle(n)
                        \/ SyncFrom(n) \/ SyncInstall(n)
    \/ Tick

Spec == Init /\ [][Next]_vars

-----------------------------------------------------------------------------
(* Properties *)

Signed == (UNION {bodies[n] : n \in Nodes}) \ {Genesis}

\* A validator never signs two blocks of the same height, the evidence that
\* state.applySlash takes its bond for: neither the race of gossip with
\* maybeProduce, nor a reorg, nor a sync that moves its head back lets it.
NoEquivocation ==
    \A b, c \in Signed :
       (Height(b) = Height(c) /\ Last(b).v = Last(c).v) => b = c

\* While blocks arrive within the block time there is one chain: the head of
\* one node extends that of the other.  Out-of-order delivery drops blocks, and
\* a node that lost one stays silent in maybeProduce until it has synced.
NoForks ==
    net.timely => \A m, n \in Up : IsPrefix(head[m], head[n]) \/ IsPrefix(head[n], head[m])

Longest == CHOOSE b \in {head[n] : n \in Up} : \A n \in Up : Height(head[n]) <= Height(b)

\* The leader fallback of maybeProduce: after the block time of round 0, in which
\* the leader's ticker may have fired before the head arrived, a block time goes
\* by without a block only if its leader is down or lost a block to gossip out
\* of order, so that it has not got the head or needed a sync to get it.
RoundsAreUsed ==
    net.timely /\ Height(Longest) < net.maxHeight =>
       \A r \in 1 .. net.maxTime :
          Timestamp(Longest) + (r + 1) * BlockTime <= now =>
             LET leader == LeaderFor(Longest, Longest, r)
             IN  leader \in net.down \/ head[leader] # Longest \/ hollow[leader] # {}

Quiet == \A b \in Signed : Last(b).tx = None

InStep == \A m, n \in Up : head[m] = head[n]

\* What the loop goroutine of a node does besides the election.
Loop(n) == ProduceBlock(n) \/ SyncFrom(n) \/ SyncInstall(n)

\* The loop of every node goes on, as its discover timer keeps firing, and so do
\* the handlers: a posted block is handled once, so that it is enough that some
\* handler goes on while there is one.
FairSpec ==
    /\ Spec
    /\ \A n \in Nodes : WF_vars(Loop(n))
    /\ WF_vars(\E n \in Nodes : Handle(n))

\* The node that those behind sync from serves a genesis header with its
\* signature.
Servable == BestPeer(Up) \in signed

\* Nodes that fell behind catch up by trySync, if the node SyncFrom picks has the
\* signature of genesis (it is the first validator or has synced itself; one that
\* derived genesis and never synced has not), and as long as no transaction has
\* changed the validators or their weights.
CatchesUp == net.timely => <>[](Quiet /\ Servable => InStep)

\* The same whatever the blocks carry.
Converges == net.timely => <>[](Servable => InStep)

=============================================================================
