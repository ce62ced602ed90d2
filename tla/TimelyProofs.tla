---------------------------- MODULE TimelyProofs ----------------------------
(***************************************************************************)
(* While gossip is timely there is one chain and no round of a ready       *)
(* leader goes unused, for any number of nodes, any scores and any         *)
(* transactions that change validators and weights.                        *)
(*                                                                         *)
(* Both follow from what NetworkProofs says of heads: with timely gossip a *)
(* node is only elected on the highest head of all, and there is one       *)
(* leader for it.                                                          *)
(***************************************************************************)
EXTENDS NetworkProofs

\* Most steps are first-order; the few that calculate name SMT.
USE Zenon

-----------------------------------------------------------------------------
(* The inductive invariants *)

\* A score is a hash read as a number.
ScoresAreNumbers ==
    \A b \in Block, v \in Nodes, r, k \in Nat : Score(b, v, r, k) \in Nat

\* While gossip is timely: one chain; the loop that has a turn is at the end of
\* it and is the leader of the round that it is.
Leading(n) == \A b \in All : Height(b) <= Height(head[n])

OneChain == \A b, c \in All : IsPrefix(b, c) \/ IsPrefix(c, b)

OneTurn ==
    \A n \in Nodes : turn[n] # None =>
       /\ Leading(n)
       /\ turn[n] = Round(n)
       /\ CanProduce(n, head[n], turn[n])

TInv == net.timely => OneChain /\ OneTurn

\* And of the rounds: a posted block is of this block time; a node that never
\* synced has the highest of its blocks as its head; and if it is at the end of
\* the chain and leads a round that has come, the round is the current one, and
\* its ticker has still to fire or it is about to produce.
Due(n, r) ==
    /\ Timestamp(head[n]) + r * BlockTime <= now
    /\ LeaderFor(head[n], head[n], r) = n

RoundsOK(n) ==
    /\ \A b \in inbox[n] : Timestamp(b) = now
    /\ hollow[n] = {} =>
          /\ \A b \in DOMAIN tree[n] : /\ tree[n][b] = Height(b) + 1
                                       /\ Height(b) <= Height(head[n])
          /\ n \in Up /\ Leading(n) /\ Height(head[n]) < net.maxHeight =>
                \A r \in Nat \ {0} : Due(n, r) =>
                   /\ now < Timestamp(head[n]) + (r + 1) * BlockTime
                   /\ n \in ticked => turn[n] # None

RInv == net.timely => \A n \in Nodes : RoundsOK(n)

-----------------------------------------------------------------------------
(* While gossip is timely there is one chain *)

LEMMA AllAreBlocks == ASSUME NInv PROVE All \subseteq Block
BY AllMember, TreeType, SMT DEF NInv, Types

LEMMA HeadsInAll == ASSUME NInv PROVE \A n \in Nodes : head[n] \in All /\ head[n] \in Block
BY AllMember DEF NInv, Types, TreeOK

\* On one chain a block that is no higher is a prefix, and two of one height are
\* the same.
LEMMA ChainOrder ==
    ASSUME NInv, OneChain, NEW b \in All, NEW c \in All
    PROVE  /\ Height(b) <= Height(c) => IsPrefix(b, c)
           /\ Height(b) = Height(c) => b = c
<1>1. b \in Block /\ c \in Block
  BY AllAreBlocks
<1>2. Height(b) \in Nat /\ Height(c) \in Nat
  BY <1>1, HeightType
<1>3. IsPrefix(b, c) \/ IsPrefix(c, b)
  BY DEF OneChain
<1>4. IsPrefix(c, b) => Height(c) <= Height(b)
  BY <1>1, PrefixOrder
<1>5. IsPrefix(c, b) /\ Height(c) = Height(b) => c = b
  BY <1>1, PrefixOrder
<1>6. IsPrefix(b, c) /\ Height(c) = Height(b) => c = b
  BY <1>1, PrefixOrder
<1>7. IsPrefix(b, b)
  BY <1>1, PrefixOrder
<1> QED BY <1>2, <1>3, <1>4, <1>5, <1>6, <1>7, SMT

\* A node none of whose peers is ahead is at the end of the chain: the signer of
\* a block is up and has it.
LEMMA LeadsAll ==
    ASSUME NInv, NEW n \in Nodes, \A m \in Up : Height(head[m]) <= Height(head[n])
    PROVE  Leading(n)
<1> SUFFICES ASSUME NEW b \in All PROVE Height(b) <= Height(head[n])
  BY DEF Leading
<1>1. Height(b) \in Nat /\ Height(head[n]) \in Nat
  BY AllAreBlocks, HeadsInAll, HeightType
<1>2. CASE b = Genesis
  BY <1>1, <1>2, GenesisIsBlock, SMT
<1>3. CASE b # Genesis
  <2> DEFINE v == Last(b).v
  <2>1. b \in bodies[v] /\ v \in Up /\ v \in Nodes
    BY <1>3, UpNodes DEF NInv, Kept
  <2>2. Height(b) <= Height(head[v])
    BY <1>3, <2>1 DEF NInv, OwnOK
  <2>3. Height(head[v]) \in Nat
    BY <2>1, HeadsInAll, HeightType
  <2> HIDE DEF v
  <2> QED BY <1>1, <2>1, <2>2, <2>3, SMT
<1> QED BY <1>2, <1>3

LEMMA ElectedLeads ==
    ASSUME NInv, NEW n \in Up, BestPeerHeight(Up \ {n}) <= Height(head[n])
    PROVE  Leading(n)
<1> DEFINE peers == Up \ {n}
<1>1. peers \in SUBSET Nodes /\ n \in Nodes
  BY UpNodes
<1>2. /\ BestPeerHeight(peers) \in Nat
      /\ \A m \in peers : Height(head[m]) <= BestPeerHeight(peers)
  BY <1>1, BestPeerHeightOK DEF NInv
<1>3. \A m \in Up : Height(head[m]) \in Nat
  BY UpNodes, HeadsInAll, HeightType
<1>4. \A m \in Up : Height(head[m]) <= Height(head[n])
  BY <1>2, <1>3, SMT
<1> QED BY <1>1, <1>4, LeadsAll

\* Two nodes never have a turn at the same time: they would be at the same head,
\* in the same round, and there is one leader.
LEMMA TurnsAreUnique ==
    ASSUME NInv, OneChain, OneTurn, NEW m \in Nodes, NEW n \in Nodes,
           turn[m] # None, turn[n] # None
    PROVE  m = n
<1>1. Leading(m) /\ Leading(n) /\ turn[m] = Round(m) /\ turn[n] = Round(n)
      /\ CanProduce(m, head[m], turn[m]) /\ CanProduce(n, head[n], turn[n])
  BY DEF OneTurn
<1>2. Height(head[m]) <= Height(head[n]) /\ Height(head[n]) <= Height(head[m])
  BY <1>1, HeadsInAll DEF Leading
<1>3. Height(head[m]) = Height(head[n])
  BY <1>2, HeadsInAll, HeightType, SMT
<1>4. head[m] = head[n]
  BY <1>3, HeadsInAll, ChainOrder
<1>5. turn[m] = turn[n]
  BY <1>1, <1>4 DEF Round
<1> QED BY <1>1, <1>4, <1>5 DEF CanProduce

\* The steps that add no block and no turn.
LEMMA TurnsKept ==
    ASSUME OneChain, OneTurn, now' = now, \A c \in All' : c \in All,
           \A m \in Nodes : turn'[m] # None => turn'[m] = turn[m] /\ head'[m] = head[m]
    PROVE  OneChain' /\ OneTurn'
<1>1. OneChain'
  BY DEF OneChain
<1>2. ASSUME NEW m \in Nodes, turn'[m] # None
      PROVE  Leading(m)' /\ turn'[m] = Round(m)' /\ CanProduce(m, head[m], turn[m])'
  <2>1. turn'[m] = turn[m] /\ head'[m] = head[m]
    BY <1>2
  <2>2. Leading(m) /\ turn[m] = Round(m) /\ CanProduce(m, head[m], turn[m])
    BY <1>2, <2>1 DEF OneTurn
  <2> QED BY <2>1, <2>2 DEF Leading, Round, CanProduce
<1> QED BY <1>1, <1>2 DEF OneTurn

LEMMA ElectT ==
    ASSUME NInv, TInv, NEW n \in Nodes, Elect(n)
    PROVE  TInv'
<1>1. /\ net' = net /\ now' = now /\ head' = head /\ tree' = tree /\ inbox' = inbox
      /\ sync' = sync /\ n \in Up
  BY DEF Elect, chains, loopFree
<1>2. All' = All
  BY <1>1 DEF All, Of
<1> SUFFICES ASSUME net.timely, OneChain, OneTurn
             PROVE  OneChain' /\ OneTurn'
  BY <1>1 DEF TInv
<1>3. OneChain'
  BY <1>2 DEF OneChain
<1>4. turn' = [turn EXCEPT ![n] = IF /\ BestPeerHeight(Up \ {n}) <= Height(head[n])
                                     /\ CanProduce(n, head[n], Round(n))
                                  THEN Round(n) ELSE None]
  BY DEF Elect, Answering
<1>5. ASSUME NEW m \in Nodes, turn'[m] # None
      PROVE  Leading(m) /\ turn'[m] = Round(m) /\ CanProduce(m, head[m], turn'[m])
  <2>1. CASE m = n
    <3>1. /\ BestPeerHeight(Up \ {n}) <= Height(head[n])
          /\ CanProduce(n, head[n], Round(n)) /\ turn'[n] = Round(n)
      BY <1>4, <1>5, <2>1 DEF NInv, Types
    <3> QED BY <1>1, <2>1, <3>1, ElectedLeads
  <2>2. CASE m # n
    <3>1. turn'[m] = turn[m]
      BY <1>4, <2>2 DEF NInv, Types
    <3> QED BY <1>5, <3>1 DEF OneTurn
  <2> QED BY <2>1, <2>2
<1>6. \A m \in Nodes : (Leading(m)' <=> Leading(m)) /\ Round(m)' = Round(m)
  BY <1>1, <1>2 DEF Leading, Round
<1> QED BY <1>1, <1>3, <1>5, <1>6 DEF OneTurn, CanProduce

LEMMA ProduceBlockT ==
    ASSUME NInv, TInv, NEW n \in Nodes, ProduceBlock(n)
    PROVE  TInv'
<1>1. PICK t \in net.txs \cup {None} :
         Record(n, Produced(n, t), Produced(n, t)) /\ Broadcast(n, Produced(n, t))
  BY DEF ProduceBlock, Produced
<1> DEFINE b == Produced(n, t)
<1>2. net' = net /\ turn[n] # None /\ turn' = [turn EXCEPT ![n] = None]
  BY DEF ProduceBlock
<1> SUFFICES ASSUME net.timely, OneChain, OneTurn
             PROVE  OneChain' /\ OneTurn'
  BY <1>2 DEF TInv
<1>3. b \in Block /\ IsPrefix(head[n], b)
  BY <1>2, ProducedOK
<1>4. \A c \in All' : c \in All \/ c = b
  BY <1>1, OneNewBlock
<1> HIDE DEF b
<1>5. head[n] \in All /\ head[n] \in Block /\ All \subseteq Block
  BY HeadsInAll, AllAreBlocks
<1>6. \A c \in All : IsPrefix(c, b)
  <2>1. \A c \in All : Height(c) <= Height(head[n])
    BY <1>2 DEF OneTurn, Leading
  <2>2. \A c \in All : IsPrefix(c, head[n])
    BY <1>5, <2>1, ChainOrder
  <2> QED BY <1>3, <1>5, <2>2, PrefixOrder
<1>7. OneChain'
  <2>1. IsPrefix(b, b)
    BY <1>3, PrefixOrder
  <2>2. \A c, d \in All : IsPrefix(c, d) \/ IsPrefix(d, c)
    BY DEF OneChain
  <2>3. \A c, d \in All' : IsPrefix(c, d) \/ IsPrefix(d, c)
    BY <1>4, <1>6, <2>1, <2>2
  <2> QED BY <2>3 DEF OneChain
<1>8. \A m \in Nodes : turn'[m] = None
  <2>1. \A m \in Nodes : m # n => turn[m] = None
    BY <1>2, TurnsAreUnique
  <2> QED BY <1>2, <2>1 DEF NInv, Types
<1> QED BY <1>7, <1>8 DEF OneTurn

LEMMA AcceptBlockT ==
    ASSUME IdsOrdered, NInv, TInv, NEW n \in Nodes, NEW b, AcceptBlock(n, b)
    PROVE  TInv'
<1> DEFINE h == ReorgToBest(n, Add(tree[n], b), bodies[n] \cup hollow[n] \cup {b})
<1>1. net' = net /\ now' = now /\ turn' = turn
  BY DEF AcceptBlock
<1>2. /\ b \in All /\ h \in DOMAIN tree[n] \cup {b} /\ Height(head[n]) <= Height(h)
      /\ Record(n, b, h)
  BY AcceptedOK
<1> HIDE DEF h
<1> SUFFICES ASSUME net.timely, OneChain, OneTurn
             PROVE  OneChain' /\ OneTurn'
  BY <1>1 DEF TInv
<1>3. h \in All /\ head[n] \in All
  BY <1>2, HeadsInAll, AllMember
<1>4. turn[n] # None => h = head[n]
  <2> SUFFICES ASSUME turn[n] # None PROVE h = head[n]
    OBVIOUS
  <2>1. Height(h) <= Height(head[n])
    BY <1>3 DEF OneTurn, Leading
  <2>2. Height(h) = Height(head[n])
    BY <1>2, <1>3, <2>1, AllAreBlocks, HeightType, SMT
  <2> QED BY <1>3, <2>2, ChainOrder
<1>5. \A m \in Nodes : head'[m] = IF m = n THEN h ELSE head[m]
  BY <1>2 DEF Record, NInv, Types
<1>6. \A c \in All' : c \in All
  BY NoNewBlocks
<1> QED BY <1>1, <1>4, <1>5, <1>6, TurnsKept

LEMMA SyncInstallT ==
    ASSUME NInv, TInv, NEW n \in Nodes, SyncInstall(n)
    PROVE  TInv'
<1>1. net' = net /\ now' = now /\ turn' = turn /\ sync[n] # None
      /\ (head' = head \/ head' = [head EXCEPT ![n] = sync[n].tip])
  BY DEF SyncInstall
<1>2. turn[n] = None
  BY <1>1 DEF NInv, LoopOK
<1>3. \A m \in Nodes : m # n => head'[m] = head[m]
  BY <1>1 DEF NInv, Types
<1>4. \A c \in All' : c \in All
  BY NoNewBlocks
<1> QED BY <1>1, <1>2, <1>3, <1>4, TurnsKept DEF TInv

LEMMA TNext == ASSUME IdsOrdered, NInv, TInv, [Next]_vars PROVE TInv'
<1>1. CASE UNCHANGED vars
  <2>1. net' = net /\ now' = now /\ turn' = turn /\ head' = head /\ All' = All
    BY <1>1 DEF vars, chains, All, Of
  <2> QED BY <2>1, TurnsKept DEF TInv
<1>2. ASSUME NEW n \in Nodes, NEW b, RejectBlock(n, b)
      PROVE  TInv'
  <2>1. net' = net /\ now' = now /\ turn' = turn /\ head' = head
    BY <1>2 DEF RejectBlock, chains
  <2>2. \A c \in All' : c \in All
    BY <1>2, NoNewBlocks
  <2> QED BY <2>1, <2>2, TurnsKept DEF TInv
<1>3. ASSUME NEW n \in Nodes, SyncFrom(n)
      PROVE  TInv'
  <2>1. net' = net /\ now' = now /\ turn' = turn /\ head' = head
    BY <1>3 DEF SyncFrom, chains
  <2>2. \A c \in All' : c \in All
    BY <1>3, NoNewBlocks
  <2> QED BY <2>1, <2>2, TurnsKept DEF TInv
<1>4. ASSUME Tick
      PROVE  TInv'
  <2>1. /\ net' = net /\ turn' = turn /\ All' = All
        /\ net.timely => \A n \in Up : turn[n] = None
    BY <1>4 DEF Tick, chains, All, Of
  <2>2. net.timely => \A n \in Nodes : turn'[n] = None
    BY <2>1 DEF NInv, LoopOK
  <2>3. net.timely /\ OneChain => OneChain' /\ OneTurn'
    BY <2>1, <2>2 DEF OneChain, OneTurn
  <2> QED BY <2>1, <2>3 DEF TInv
<1> QED BY <1>1, <1>2, <1>3, <1>4, ElectT, ProduceBlockT, AcceptBlockT, SyncInstallT
        DEF Next, Handle

LEMMA TInit == Init => TInv
<1> SUFFICES ASSUME Init PROVE OneChain /\ OneTurn
  BY DEF TInv
<1>1. All \subseteq {Genesis}
  <2>1. \A n \in Nodes : inbox[n] = {} /\ sync[n] = None /\ DOMAIN tree[n] = {Genesis}
    BY DEF Init
  <2> QED BY <2>1, AllMember
<1>2. OneChain
  BY <1>1, GenesisIsBlock, PrefixOrder DEF OneChain
<1> QED BY <1>2 DEF Init, OneTurn

\* While blocks reach the nodes that are up within the block time, the head of
\* one extends that of the other.
THEOREM SpecNoForks ==
    ASSUME IdsOrdered
    PROVE  Spec => []NoForks
<1>1. NInv /\ TInv => NoForks
  <2>1. NInv => \A n \in Up : head[n] \in All
    BY HeadsInAll, UpNodes
  <2> QED BY <2>1 DEF TInv, OneChain, NoForks
<1> QED BY <1>1, NInit, NNext, TInit, TNext, PTL DEF Spec

-----------------------------------------------------------------------------
(* The leader of a round *)

LEMMA StorageWeightOK ==
    ASSUME NEW s \in Block, NEW v \in Nodes
    PROVE  StorageWeight(s, v) \in Nat \ {0}
<1> DEFINE proofs == Carrying(s, "prove", v)
           S == {Cardinality(proofs), StorageCap}
<1>1. DOMAIN s = 1 .. Len(s) /\ Len(s) \in Nat
  BY SMT DEF Block
<1>2. IsFiniteSet(DOMAIN s)
  BY <1>1, FS_Interval, SMT
<1>3. proofs \subseteq DOMAIN s
  BY DEF Carrying
<1> HIDE DEF proofs
<1>4. Cardinality(proofs) \in Nat
  BY <1>2, <1>3, FS_Subset, FS_CardinalityType
<1>5. StorageCap \in Nat
  BY NetworkAssumption
<1>6. IsFiniteSet(S) /\ S # {} /\ S \in SUBSET Int /\ S \subseteq Nat
  <2>1. IsFiniteSet(S)
    BY FinitePair
  <2> QED BY <1>4, <1>5, <2>1, SMT
<1>7. Min(S) \in Nat
  <2> HIDE DEF S
  <2> QED BY <1>6, MinIsMin
<1> HIDE DEF S
<1>8. \/ StorageWeight(s, v) = 1 + Min(S)
      \/ StorageWeight(s, v) = 1 + 0
  BY DEF StorageWeight, S, proofs
<1> QED BY <1>7, <1>8, SMT

\* There is a leader, one of the active validators.
LEMMA LeaderOK ==
    ASSUME ScoresAreNumbers, NEW s \in Block, NEW prev \in Block, NEW round \in Nat
    PROVE  /\ LeaderFor(s, prev, round) \in ActiveValidators(s)
           /\ LeaderFor(s, prev, round) \in Nodes
<1> DEFINE A == ActiveValidators(s)
           of == [v \in A |-> {v} \X (0 .. StorageWeight(s, v) - 1)]
           entries == UNION {of[v] : v \in A}
           score == [e \in entries |-> Score(prev, e[1], round, e[2])]
           scores == {score[e] : e \in entries}
           best == {f \in entries : score[f] = Max(scores)}
           first == [e \in best |-> e[1]]
           holders == {first[e] : e \in best}
<1>1. A \subseteq Nodes /\ First \in A /\ IsFiniteSet(A)
  <2>1. A \subseteq Nodes /\ First \in A
    BY NetworkAssumption DEF ActiveValidators
  <2> HIDE DEF A
  <2> QED BY <2>1, NetworkAssumption, FS_Subset
<1>2. \A v \in A : StorageWeight(s, v) \in Nat \ {0}
  BY <1>1, StorageWeightOK
<1> HIDE DEF A
<1>3. \A e \in entries : e[1] \in A /\ e[2] \in Nat
  BY <1>2, SMT
<1>4. <<First, 0>> \in entries
  BY <1>1, <1>2, SMT
<1>5. IsFiniteSet(entries)
  <2>1. \A v \in A : of[v] = {v} \X (0 .. StorageWeight(s, v) - 1)
    OBVIOUS
  <2>2. \A v \in A : IsFiniteSet(of[v])
    <3> SUFFICES ASSUME NEW v \in A PROVE IsFiniteSet(of[v])
      OBVIOUS
    <3> DEFINE copies == 0 .. StorageWeight(s, v) - 1
    <3>1. StorageWeight(s, v) - 1 \in Int
      BY <1>2, SMT
    <3>2. IsFiniteSet(copies)
      BY <3>1, FS_Interval, SMT
    <3>3. of[v] = {v} \X copies
      BY <2>1
    <3> HIDE DEF copies, of
    <3>4. IsFiniteSet({v})
      BY FS_Singleton
    <3> QED BY <3>2, <3>3, <3>4, FiniteProduct, SMT
  <2>3. DOMAIN of = A /\ of = [v \in A |-> of[v]]
    OBVIOUS
  <2> HIDE DEF of
  <2>4. IsFiniteSet({of[v] : v \in A})
    BY <1>1, <2>3, FiniteImage, SMT
  <2>5. \A T \in {of[v] : v \in A} : IsFiniteSet(T)
    BY <2>2
  <2> QED BY <2>4, <2>5, FS_UNION
<1>6. LeaderFor(s, prev, round) = Min(holders)
  <2>1. entries = UNION {{v} \X (0 .. StorageWeight(s, v) - 1) : v \in ActiveValidators(s)}
    BY DEF A
  <2>2. holders = {e[1] : e \in best}
    OBVIOUS
  <2> HIDE DEF entries, holders
  <2> QED BY <2>1, <2>2, SMT DEF LeaderFor
<1> HIDE DEF entries
<1>7. \A e \in entries : score[e] \in Nat
  BY <1>1, <1>3 DEF ScoresAreNumbers
<1>8. Max(scores) \in scores
  <2>1. DOMAIN score = entries /\ score = [e \in entries |-> score[e]]
    OBVIOUS
  <2> HIDE DEF score
  <2>2. scores \in SUBSET Int /\ scores # {}
    BY <1>4, <1>7, SMT
  <2>3. IsFiniteSet(scores)
    BY <1>5, <2>1, FiniteImage, SMT
  <2> HIDE DEF scores
  <2> QED BY <2>2, <2>3, MaxIsMax
<1>9. PICK e \in entries : score[e] = Max(scores)
  BY <1>8
<1>10. best # {} /\ best \subseteq entries /\ IsFiniteSet(best)
  <2>1. best # {} /\ best \subseteq entries
    BY <1>9
  <2> HIDE DEF best
  <2> QED BY <1>5, <2>1, FS_Subset
<1> HIDE DEF best, score
<1>11. \A f \in best : first[f] \in A
  BY <1>3, <1>10
<1>12. IsFiniteSet(holders)
  <2>1. DOMAIN first = best /\ first = [f \in best |-> first[f]]
    OBVIOUS
  <2> HIDE DEF first
  <2> QED BY <1>10, <2>1, FiniteImage, SMT
<1> HIDE DEF first
<1>13. holders \subseteq A /\ holders # {}
  BY <1>10, <1>11
<1>14. holders \in SUBSET Int
  <2>1. Nodes \subseteq Int
    BY NetworkAssumption, SMT
  <2> HIDE DEF holders
  <2> QED BY <1>1, <1>13, <2>1
<1> HIDE DEF holders
<1>15. Min(holders) \in holders
  BY <1>12, <1>13, <1>14, MinIsMin
<1> QED BY <1>1, <1>6, <1>13, <1>15 DEF A

-----------------------------------------------------------------------------
(* While gossip is timely no round of a ready leader goes unused *)

LEMMA Times ==
    ASSUME NEW r \in Nat, NEW d \in Nat \ {0}
    PROVE  /\ r * d \in Nat /\ (r + 1) * d = r * d + d /\ r * d = d * r
           /\ r # 0 => d <= r * d
<1>1. r * d \in Nat /\ (r + 1) * d = r * d + d /\ r * d = d * r
  BY SMT
<1>2. ASSUME r # 0
      PROVE  d <= r * d
  <2>1. r - 1 \in Nat /\ (r - 1) * d \in Nat
    BY <1>2, SMT
  <2>2. r * d = (r - 1) * d + d
    BY SMT
  <2> QED BY <2>1, <2>2, SMT
<1> QED BY <1>1, <1>2

LEMMA DivIs ==
    ASSUME NEW a \in Nat, NEW d \in Nat \ {0}, NEW r \in Nat,
           r * d <= a, a < (r + 1) * d
    PROVE  a \div d = r
<1> DEFINE q == a \div d
<1>1. q \in Nat /\ d * q <= a /\ a < d * (q + 1)
  BY DivOK
<1> HIDE DEF q
<1>2. ASSUME NEW x \in Nat, NEW y \in Nat, x < y
      PROVE  d * (x + 1) <= d * y
  <2>1. y - (x + 1) \in Nat
    BY <1>2, SMT
  <2>2. d * (y - (x + 1)) \in Nat
    BY <2>1, SMT
  <2>3. d * y = d * (x + 1) + d * (y - (x + 1))
    BY SMT
  <2>4. d * (x + 1) \in Nat
    BY SMT
  <2> QED BY <2>2, <2>3, <2>4, SMT
<1>3. /\ r * d = d * r /\ (r + 1) * d = d * (r + 1)
      /\ d * r \in Nat /\ d * (r + 1) \in Nat /\ d * q \in Nat /\ d * (q + 1) \in Nat
  BY <1>1, SMT
<1>4. ~ (q < r)
  <2> SUFFICES ASSUME q < r PROVE FALSE
    OBVIOUS
  <2>1. d * (q + 1) <= d * r
    BY <1>1, <1>2
  <2> QED BY <1>1, <1>3, <2>1, SMT
<1>5. ~ (r < q)
  <2> SUFFICES ASSUME r < q PROVE FALSE
    OBVIOUS
  <2>1. d * (r + 1) <= d * q
    BY <1>1, <1>2
  <2> QED BY <1>1, <1>3, <2>1, SMT
<1>6. q = r
  BY <1>1, <1>4, <1>5, SMT
<1> QED BY <1>6 DEF q

\* A block that is as new as the time has no round but 0.
LEMMA NothingDue ==
    ASSUME NEW t \in Nat, NEW r \in Nat \ {0}
    PROVE  ~ (t + r * BlockTime <= t)
<1>1. BlockTime \in Nat \ {0} /\ r \in Nat
  BY NetworkAssumption
<1>2. BlockTime <= r * BlockTime /\ r * BlockTime \in Nat
  BY <1>1, Times
<1> QED BY <1>1, <1>2, SMT

\* Blocks do not vanish: who is at the end of the chain after a step in which
\* its head stays was so before.
LEMMA WasLeading ==
    ASSUME NInv, NInv', net' = net, \A m \in Nodes : bodies[m] \subseteq bodies'[m],
           NEW n \in Nodes, head'[n] = head[n], Leading(n)'
    PROVE  Leading(n)
<1> SUFFICES ASSUME NEW b \in All PROVE Height(b) <= Height(head[n])
  BY DEF Leading
<1>1. head[n] \in Block /\ Height(head[n]) \in Nat
  BY HeadsInAll, HeightType
<1>2. CASE b = Genesis
  BY <1>1, <1>2, GenesisIsBlock, SMT
<1>3. CASE b # Genesis
  <2>1. b \in bodies[Last(b).v] /\ Last(b).v \in Nodes
    BY <1>3, UpNodes DEF NInv, Kept
  <2>2. b \in DOMAIN tree'[Last(b).v]
    BY <2>1 DEF NInv, TreeOK
  <2>3. b \in All'
    BY <2>1, <2>2, SMT DEF All, Of
  <2> QED BY <2>3 DEF Leading
<1> QED BY <1>2, <1>3

\* What a step of another node, or one that changes little, keeps.
LEMMA RoundsKept ==
    ASSUME NInv, NInv', net' = net, now' = now,
           \A m \in Nodes : bodies[m] \subseteq bodies'[m],
           NEW n \in Nodes, RoundsOK(n),
           head'[n] = head[n], tree'[n] = tree[n], hollow'[n] = hollow[n],
           turn'[n] = turn[n], n \in ticked' => n \in ticked,
           \A b \in inbox'[n] : b \in inbox[n] \/ Timestamp(b) = now
    PROVE  RoundsOK(n)'
<1>1. Leading(n)' => Leading(n)
  BY WasLeading
<1>2. n \in Up' <=> n \in Up
  BY DEF Up
<1>3. \A b \in inbox'[n] : Timestamp(b) = now'
  BY DEF RoundsOK
<1>4. \A r \in Nat : Due(n, r)' <=> Due(n, r)
  BY DEF Due
<1> QED BY <1>1, <1>2, <1>3, <1>4 DEF RoundsOK

\* A ready leader whose ticker fires in its round gets its turn.
LEMMA ElectR ==
    ASSUME ScoresAreNumbers, NInv, NInv', RInv, NEW n \in Nodes, Elect(n)
    PROVE  RInv'
<1>1. /\ net' = net /\ now' = now /\ head' = head /\ tree' = tree /\ inbox' = inbox
      /\ sync' = sync /\ hollow' = hollow /\ bodies' = bodies /\ n \in Up
      /\ ticked' = ticked \cup {n}
  BY DEF Elect, chains, loopFree
<1> SUFFICES ASSUME net.timely, \A m \in Nodes : RoundsOK(m), NEW m \in Nodes
             PROVE  RoundsOK(m)'
  BY <1>1 DEF RInv
<1>2. turn' = [turn EXCEPT ![n] = IF /\ BestPeerHeight(Up \ {n}) <= Height(head[n])
                                     /\ CanProduce(n, head[n], Round(n))
                                  THEN Round(n) ELSE None]
  BY DEF Elect, Answering
<1>3. CASE m # n
  <2>1. turn'[m] = turn[m]
    BY <1>2, <1>3 DEF NInv, Types
  <2> QED BY <1>1, <1>3, <2>1, RoundsKept
<1>4. CASE m = n
  <2>1. \A b \in inbox'[n] : Timestamp(b) = now'
    BY <1>1 DEF RoundsOK
  <2>2. hollow'[n] = {} => \A b \in DOMAIN tree'[n] : /\ tree'[n][b] = Height(b) + 1
                                                      /\ Height(b) <= Height(head'[n])
    BY <1>1 DEF RoundsOK
  <2>3. Leading(n)' => Leading(n)
    BY <1>1, WasLeading
  <2>4. ASSUME hollow'[n] = {}, Leading(n)', Height(head'[n]) < net'.maxHeight,
               NEW r \in Nat \ {0}, Due(n, r)'
        PROVE  now' < Timestamp(head'[n]) + (r + 1) * BlockTime /\ turn'[n] # None
    <3>1. Due(n, r)
      BY <1>1, <2>4 DEF Due
    <3>2. now < Timestamp(head[n]) + (r + 1) * BlockTime
      BY <1>1, <2>3, <2>4, <3>1 DEF RoundsOK
    <3>3. BlockTime \in Nat \ {0} /\ now \in Nat /\ head[n] \in Block /\ r \in Nat
      BY NetworkAssumption DEF NInv, Types
    <3>4. Timestamp(head[n]) \in Nat /\ r * BlockTime \in Nat /\ (r + 1) * BlockTime \in Nat
      BY <3>3, TimestampType, Times, SMT
    <3>5. Timestamp(head[n]) + r * BlockTime <= now /\ LeaderFor(head[n], head[n], r) = n
      BY <3>1 DEF Due
    <3>6. Round(n) = r
      <4> DEFINE a == now - Timestamp(head[n])
      <4>1. a \in Nat /\ r * BlockTime <= a /\ a < (r + 1) * BlockTime
        BY <3>2, <3>3, <3>4, <3>5, SMT
      <4> HIDE DEF a
      <4>2. a \div BlockTime = r
        BY <3>3, <4>1, DivIs
      <4> QED BY <4>2 DEF a, Round
    <3>7. CanProduce(n, head[n], r)
      BY <3>3, <3>5, LeaderOK DEF CanProduce
    <3>8. BestPeerHeight(Up \ {n}) <= Height(head[n])
      <4> DEFINE peers == Up \ {n}
      <4>1. peers \in SUBSET Nodes
        BY UpNodes
      <4>2. CASE peers = {}
        <5>1. BestPeerHeight(peers) = Max({0})
          <6>1. {Height(head[k]) : k \in peers} \cup {0} = {0}
            BY <4>2
          <6> QED BY <6>1 DEF BestPeerHeight
        <5>2. Max({0}) = 0
          <6>1. {0} \in SUBSET Int /\ {0} # {}
            BY SMT
          <6>2. IsFiniteSet({0})
            BY FS_Singleton
          <6>3. Max({0}) \in {0}
            BY <6>1, <6>2, MaxIsMax
          <6> QED BY <6>3
        <5> QED BY <3>3, <5>1, <5>2, HeightType, SMT
      <4>3. CASE peers # {}
        <5>1. PICK k \in peers : Height(head[k]) = BestPeerHeight(peers)
          BY <4>1, <4>3, BestPeerHeightOK DEF NInv
        <5>2. head[k] \in All
          BY <4>1, <5>1, HeadsInAll
        <5> QED BY <2>3, <2>4, <5>1, <5>2 DEF Leading
      <4> QED BY <4>2, <4>3
    <3>9. turn'[n] = r
      BY <1>2, <3>6, <3>7, <3>8 DEF NInv, Types
    <3>10. r # None
      BY NetworkAssumption
    <3> QED BY <1>1, <3>2, <3>9, <3>10
  <2> QED BY <1>4, <2>1, <2>2, <2>4 DEF RoundsOK
<1> QED BY <1>3, <1>4

LEMMA ProduceBlockR ==
    ASSUME NInv, NInv', RInv, NEW n \in Nodes, ProduceBlock(n)
    PROVE  RInv'
<1>1. PICK t \in net.txs \cup {None} :
         Record(n, Produced(n, t), Produced(n, t)) /\ Broadcast(n, Produced(n, t))
  BY DEF ProduceBlock, Produced
<1> DEFINE b == Produced(n, t)
<1>2. /\ net' = net /\ now' = now /\ ticked' = ticked /\ turn[n] # None
      /\ turn' = [turn EXCEPT ![n] = None]
  BY DEF ProduceBlock
<1>3. /\ b \in Block /\ b # Genesis /\ Parent(b) = head[n] /\ b \notin DOMAIN tree[n]
      /\ Height(b) = Height(head[n]) + 1 /\ Height(head[n]) \in Nat /\ Timestamp(b) = now
  BY <1>2, ProducedOK
<1>4. Record(n, b, b) /\ Broadcast(n, b)
  BY <1>1
<1> HIDE DEF b
<1> DEFINE tr == Add(tree[n], b)
<1>5. tree[n] \in Trees /\ head[n] \in DOMAIN tree[n]
  BY DEF NInv, Types, TreeOK
<1>6. /\ DOMAIN tr = DOMAIN tree[n] \cup {b}
      /\ \A c \in DOMAIN tree[n] : tr[c] = tree[n][c]
      /\ tr[b] = tree[n][head[n]] + 1
  <2>1. tree[n] \in Trees /\ b \in Block
    BY <1>3, <1>5
  <2>2. b \notin DOMAIN tree[n] /\ b # Genesis /\ Parent(b) \in DOMAIN tree[n]
    BY <1>3, <1>5
  <2>3. DOMAIN tr = DOMAIN tree[n] \cup {b} /\ \A c \in DOMAIN tree[n] : tr[c] = tree[n][c]
    BY <2>1, AddOK
  <2>4. tr[b] = tree[n][Parent(b)] + 1
    BY <2>1, <2>2, AddOK
  <2> QED BY <1>3, <2>3, <2>4
<1> HIDE DEF tr
<1>7. /\ head'[n] = b /\ tree'[n] = tr /\ hollow' = hollow /\ b \in bodies'[n]
      /\ \A m \in Nodes : m # n => head'[m] = head[m] /\ tree'[m] = tree[m]
      /\ \A m \in Nodes : bodies[m] \subseteq bodies'[m]
      /\ \A m \in Nodes : m # n => turn'[m] = turn[m]
      /\ \A m \in Nodes : inbox'[m] \subseteq inbox[m] \cup {b}
  BY <1>2, <1>4 DEF Record, Broadcast, NInv, Types, tr
<1> SUFFICES ASSUME net.timely, \A m \in Nodes : RoundsOK(m), NEW m \in Nodes
             PROVE  RoundsOK(m)'
  BY <1>2 DEF RInv
<1>8. CASE m # n
  BY <1>2, <1>3, <1>7, <1>8, RoundsKept
<1>9. CASE m = n
  <2>1. \A c \in inbox'[n] : Timestamp(c) = now'
    BY <1>2, <1>3, <1>7 DEF RoundsOK
  <2>2. ASSUME hollow'[n] = {}
        PROVE  \A c \in DOMAIN tree'[n] : /\ tree'[n][c] = Height(c) + 1
                                          /\ Height(c) <= Height(head'[n])
    <3>1. \A c \in DOMAIN tree[n] : /\ tree[n][c] = Height(c) + 1
                                    /\ Height(c) <= Height(head[n])
                                    /\ Height(c) \in Nat
      BY <1>5, <1>7, <2>2, TreeType, HeightType DEF RoundsOK
    <3>2. tr[b] = Height(b) + 1
      BY <1>3, <1>5, <1>6, <3>1
    <3>3. Height(b) <= Height(b) /\ \A c \in DOMAIN tree[n] : Height(c) <= Height(b)
      BY <1>3, <3>1, SMT
    <3> QED BY <1>6, <1>7, <3>1, <3>2, <3>3, SMT
  <2>3. \A r \in Nat \ {0} : ~ Due(n, r)'
    <3>1. \A r \in Nat \ {0} : ~ (now + r * BlockTime <= now)
      BY NothingDue DEF NInv, Types
    <3> QED BY <1>2, <1>3, <1>7, <3>1 DEF Due
  <2> QED BY <1>9, <2>1, <2>2, <2>3 DEF RoundsOK
<1> QED BY <1>8, <1>9

\* In a tree all of whose blocks have bodies a block comes with its ancestors.
LEMMA Ancestors ==
    ASSUME NEW tr \in Trees, Weighed(tr, {}), NEW b \in DOMAIN tr,
           NEW k \in 0 .. Height(b)
    PROVE  SubSeq(b, 1, k) \in DOMAIN tr
<1> DEFINE hb == Height(b)
           S == {j \in Nat : j <= hb => SubSeq(b, 1, hb - j) \in DOMAIN tr}
<1>1. b \in Block /\ hb \in Nat /\ DOMAIN tr \subseteq Block
  BY TreeType, HeightType
<1>2. 0 \in S
  <2>1. SubSeq(b, 1, hb - 0) = b
    BY <1>1, CutIsPrefix, SMT
  <2> QED BY <2>1
<1>3. ASSUME NEW j \in Nat, j \in S
      PROVE  j + 1 \in S
  <2> SUFFICES ASSUME j + 1 <= hb PROVE SubSeq(b, 1, hb - (j + 1)) \in DOMAIN tr
    BY SMT
  <2> DEFINE c == SubSeq(b, 1, hb - j)
             i == hb - (j + 1)
  <2>1. hb - j \in 0 .. hb /\ i \in 0 .. hb /\ i = (hb - j) - 1 /\ hb - j # 0 /\ j <= hb
    BY <1>1, SMT
  <2>2. c \in DOMAIN tr
    BY <1>3, <2>1
  <2>3. Height(c) = hb - j /\ IsPrefix(c, b) /\ c \in Block
    BY <1>1, <2>1, Ancestor, CutIsPrefix
  <2> HIDE DEF c, i
  <2>4. c # Genesis
    BY <2>1, <2>3, HeightType
  <2>5. Parent(c) \in DOMAIN tr
    BY <2>2, <2>4 DEF Weighed
  <2>6. Parent(c) = SubSeq(c, 1, i)
    BY <2>1, <2>3, <2>4, ParentOK
  <2>7. i <= Height(c)
    BY <1>1, <2>1, <2>3, SMT
  <2>8. SubSeq(b, 1, i) = SubSeq(c, 1, i)
    BY <1>1, <2>1, <2>3, <2>7, CutIsPrefix
  <2>9. SubSeq(b, 1, i) \in DOMAIN tr
    BY <2>5, <2>6, <2>8
  <2> QED BY <2>9 DEF i
<1>4. Nat \subseteq S
  <2> HIDE DEF S
  <2> QED BY <1>2, <1>3, Induction
<1>5. hb - k \in S /\ hb - k <= hb /\ hb - (hb - k) = k
  BY <1>1, <1>4, SMT
<1> QED BY <1>5

\* Fork choice on one chain, all of it with bodies: the highest block.
LEMMA HighestIsHead ==
    ASSUME IdsOrdered, NInv, NInv', NEW n \in Nodes, NEW b, AcceptBlock(n, b),
           OneChain, hollow[n] = {},
           \A c \in DOMAIN tree[n] : tree[n][c] = Height(c) + 1
    PROVE  \A c \in DOMAIN tree'[n] : /\ tree'[n][c] = Height(c) + 1
                                      /\ Height(c) <= Height(head'[n])
<1> DEFINE tr == Add(tree[n], b)
           D == DOMAIN tree[n] \cup {b}
           best == Best(tr)
           h == ReorgToBest(n, tr, bodies[n] \cup hollow[n] \cup {b})
<1>1. /\ b \in Block /\ b # Genesis /\ b \in All
      /\ b \notin DOMAIN tree[n] /\ Parent(b) \in DOMAIN tree[n]
      /\ Record(n, b, h)
  BY AcceptedOK
<1>2. /\ tree[n] \in Trees /\ head[n] \in Block /\ head[n] \in DOMAIN tree[n]
      /\ DOMAIN tree[n] = bodies[n] \cup hollow[n] /\ IsFiniteSet(DOMAIN tree[n])
      /\ Weighed(tree[n], {})
  BY DEF NInv, Types, TreeOK
<1>3. /\ tr \in Trees /\ DOMAIN tr = D /\ IsFiniteSet(DOMAIN tr)
      /\ \A c \in DOMAIN tree[n] : tr[c] = tree[n][c]
      /\ tr[b] = tree[n][Parent(b)] + 1
  <2> HIDE DEF tr
  <2> QED BY <1>1, <1>2, AddOK DEF tr
<1>4. tree'[n] = tr /\ head'[n] = h
  BY <1>1 DEF Record, NInv, Types
<1>5. h = IF CanWalk(D, best, head[n]) \/ CanWalk(D, best, base[n]) THEN best ELSE head[n]
  BY <1>2 DEF ReorgToBest
<1> HIDE DEF tr, h
<1>6. Weighed(tr, {})
  BY <1>1, <1>2, <1>3 DEF Weighed
<1>7. \A c \in D : c \in Block /\ Height(c) \in Nat /\ c \in All
  BY <1>1, <1>2, TreeType, HeightType, AllMember
<1>8. \A c \in D : tr[c] = Height(c) + 1
  <2>1. tr[b] = Height(Parent(b)) + 1 + 1
    BY <1>1, <1>3
  <2>2. tr[b] = Height(b) + 1
    BY <1>1, <1>7, <2>1, ParentOK, SMT
  <2> QED BY <1>3, <2>2
<1>9. best \in D /\ \A c \in D : tr[c] <= tr[best]
  <2> HIDE DEF best, D
  <2>1. DOMAIN tr # {}
    BY <1>3 DEF D
  <2> QED BY <1>3, <2>1, BestOK DEF best
<1>10. \A c \in D : Height(c) <= Height(best)
  <2> HIDE DEF D, best
  <2> QED BY <1>7, <1>8, <1>9, SMT
<1> HIDE DEF best
<1>11. CanWalk(D, best, head[n])
  <2>1. IsPrefix(head[n], best)
    <3>1. head[n] \in D
      BY <1>2
    <3> HIDE DEF D
    <3> QED BY <1>7, <1>9, <1>10, <3>1, ChainOrder
  <2>2. \A k \in Height(head[n]) + 1 .. Height(best) : SubSeq(best, 1, k) \in D
    <3>1. Height(head[n]) \in Nat
      BY <1>2, HeightType
    <3>2. \A k \in Height(head[n]) + 1 .. Height(best) : k \in 0 .. Height(best)
      BY <1>7, <1>9, <3>1, SMT
    <3> HIDE DEF D
    <3> QED BY <1>3, <1>6, <1>9, <3>2, Ancestors
  <2> QED BY <2>1, <2>2 DEF CanWalk
<1>12. h = best
  BY <1>5, <1>11
<1> QED BY <1>3, <1>4, <1>8, <1>10, <1>12

LEMMA AcceptBlockR ==
    ASSUME IdsOrdered, NInv, NInv', TInv, RInv, NEW n \in Nodes, NEW b, AcceptBlock(n, b)
    PROVE  RInv'
<1> DEFINE h == ReorgToBest(n, Add(tree[n], b), bodies[n] \cup hollow[n] \cup {b})
<1>1. net' = net /\ now' = now /\ turn' = turn /\ ticked' = ticked /\ Handled(n, b)
  BY DEF AcceptBlock
<1>2. /\ b \in inbox[n] /\ b \in All /\ h \in DOMAIN tree[n] \cup {b}
      /\ Height(head[n]) <= Height(h) /\ Record(n, b, h)
  BY AcceptedOK
<1> HIDE DEF h
<1> SUFFICES ASSUME net.timely, \A m \in Nodes : RoundsOK(m), OneChain, NEW m \in Nodes
             PROVE  RoundsOK(m)'
  BY <1>1 DEF RInv, TInv
<1>3. /\ head'[n] = h /\ hollow' = hollow
      /\ \A k \in Nodes : k # n => head'[k] = head[k] /\ tree'[k] = tree[k]
      /\ \A k \in Nodes : bodies[k] \subseteq bodies'[k]
  BY <1>2 DEF Record, NInv, Types
<1>4. \A k \in Nodes : inbox'[k] \subseteq inbox[k]
  BY <1>1, HandledOK DEF NInv
<1>5. CASE m # n
  BY <1>1, <1>3, <1>4, <1>5, RoundsKept
<1>6. CASE m = n
  <2>1. \A c \in inbox'[n] : Timestamp(c) = now'
    BY <1>1, <1>4 DEF RoundsOK
  <2>2. ASSUME hollow'[n] = {}
        PROVE  \A c \in DOMAIN tree'[n] : /\ tree'[n][c] = Height(c) + 1
                                          /\ Height(c) <= Height(head'[n])
    <3>1. hollow[n] = {} /\ \A c \in DOMAIN tree[n] : tree[n][c] = Height(c) + 1
      BY <1>3, <2>2 DEF RoundsOK
    <3> QED BY <3>1, HighestIsHead
  <2>3. ASSUME hollow'[n] = {}, n \in Up', Leading(n)', Height(head'[n]) < net'.maxHeight,
               NEW r \in Nat \ {0}, Due(n, r)'
        PROVE  /\ now' < Timestamp(head'[n]) + (r + 1) * BlockTime
               /\ n \in ticked' => turn'[n] # None
    <3>1. CASE h = head[n]
      <4>1. Leading(n) /\ Due(n, r) /\ n \in Up
        BY <1>1, <1>3, <2>3, <3>1, WasLeading DEF Due, Up
      <4> QED BY <1>1, <1>3, <2>3, <3>1, <4>1 DEF RoundsOK
    <3>2. CASE h # head[n]
      <4>1. h \in All /\ head[n] \in All
        BY <1>2, HeadsInAll, AllMember
      <4>2. Height(h) # Height(head[n])
        BY <3>2, <4>1, ChainOrder
      <4>3. Height(h) \in Nat /\ Height(head[n]) \in Nat
        BY <4>1, AllAreBlocks, HeightType
      <4>4. \A c \in DOMAIN tree[n] : Height(c) <= Height(head[n])
        BY <1>3, <2>3 DEF RoundsOK
      <4>5. h \notin DOMAIN tree[n]
        BY <1>2, <4>2, <4>3, <4>4, SMT
      <4>6. h = b
        BY <1>2, <4>5
      <4>7. Timestamp(h) = now
        BY <1>2, <4>6 DEF RoundsOK
      <4>8. ~ (now + r * BlockTime <= now)
        BY NothingDue DEF NInv, Types
      <4> QED BY <1>1, <1>3, <2>3, <4>7, <4>8 DEF Due
    <3> QED BY <3>1, <3>2
  <2> QED BY <1>6, <2>1, <2>2, <2>3 DEF RoundsOK
<1> QED BY <1>5, <1>6

LEMMA SyncInstallR ==
    ASSUME NInv, NInv', RInv, NEW n \in Nodes, SyncInstall(n)
    PROVE  RInv'
<1>1. /\ net' = net /\ now' = now /\ turn' = turn /\ ticked' = ticked
      /\ inbox' = inbox /\ bodies' = bodies
      /\ \/ head' = head /\ tree' = tree /\ hollow' = hollow
         \/ /\ head' = [head EXCEPT ![n] = sync[n].tip]
            /\ tree' = [tree EXCEPT ![n] = Add(@, sync[n].tip)]
            /\ hollow' = [hollow EXCEPT ![n] = @ \cup {sync[n].tip}]
  BY DEF SyncInstall
<1> SUFFICES ASSUME net.timely, \A m \in Nodes : RoundsOK(m), NEW m \in Nodes
             PROVE  RoundsOK(m)'
  BY <1>1 DEF RInv
<1>2. CASE head'[m] = head[m] /\ tree'[m] = tree[m] /\ hollow'[m] = hollow[m]
  BY <1>1, <1>2, RoundsKept
<1>3. CASE hollow'[m] # {}
  BY <1>1, <1>3 DEF RoundsOK
<1>4. CASE head' = head /\ tree' = tree /\ hollow' = hollow
  BY <1>2, <1>4
<1>5. CASE /\ head' = [head EXCEPT ![n] = sync[n].tip]
           /\ tree' = [tree EXCEPT ![n] = Add(@, sync[n].tip)]
           /\ hollow' = [hollow EXCEPT ![n] = @ \cup {sync[n].tip}]
  <2>1. m # n => head'[m] = head[m] /\ tree'[m] = tree[m] /\ hollow'[m] = hollow[m]
    BY <1>5 DEF NInv, Types
  <2>2. m = n => sync[n].tip \in hollow'[m]
    BY <1>5 DEF NInv, Types
  <2> QED BY <1>2, <1>3, <2>1, <2>2
<1> QED BY <1>1, <1>4, <1>5

\* When a block time is over every ticker has fired: a leader that was due has
\* produced its block.
LEMMA TickR ==
    ASSUME NInv, NInv', RInv, Tick
    PROVE  RInv'
<1>1. /\ net' = net /\ now' = now + BlockTime /\ turn' = turn /\ ticked' = {}
      /\ inbox' = inbox /\ bodies' = bodies /\ hollow' = hollow /\ head' = head
      /\ tree' = tree /\ Up \subseteq ticked
      /\ net.timely => \A n \in Up : inbox[n] = {} /\ turn[n] = None
  BY DEF Tick, chains
<1> SUFFICES ASSUME net.timely, \A m \in Nodes : RoundsOK(m), NEW m \in Nodes
             PROVE  RoundsOK(m)'
  BY <1>1 DEF RInv
<1>2. inbox'[m] = {}
  BY <1>1 DEF NInv, LoopOK
<1>3. ASSUME hollow[m] = {}, m \in Up, Leading(m)', Height(head[m]) < net.maxHeight,
             NEW r \in Nat \ {0}, Due(m, r)'
      PROVE  now + BlockTime < Timestamp(head[m]) + (r + 1) * BlockTime
  <2>1. Leading(m)
    BY <1>1, <1>3, WasLeading
  <2>2. BlockTime \in Nat \ {0} /\ now \in Nat /\ head[m] \in Block /\ r \in Nat
    BY NetworkAssumption DEF NInv, Types
  <2>3. /\ Timestamp(head[m]) \in Nat /\ r * BlockTime \in Nat
        /\ (r + 1) * BlockTime = r * BlockTime + BlockTime
    BY <2>2, TimestampType, Times
  <2>4. ~ (Timestamp(head[m]) + r * BlockTime <= now)
    <3> SUFFICES ASSUME Timestamp(head[m]) + r * BlockTime <= now PROVE FALSE
      OBVIOUS
    <3>1. Due(m, r)
      BY <1>1, <1>3 DEF Due
    <3>2. m \in ticked => turn[m] # None
      BY <1>3, <2>1, <3>1 DEF RoundsOK
    <3> QED BY <1>1, <1>3, <3>2
  <2> QED BY <2>2, <2>3, <2>4, SMT
<1>4. m \in Up' <=> m \in Up
  BY <1>1 DEF Up
<1> QED BY <1>1, <1>2, <1>3, <1>4 DEF RoundsOK

LEMMA RNext ==
    ASSUME IdsOrdered, ScoresAreNumbers, NInv, NInv', TInv, RInv, [Next]_vars
    PROVE  RInv'
<1>1. CASE UNCHANGED vars
  <2>1. /\ net' = net /\ now' = now /\ turn' = turn /\ head' = head /\ tree' = tree
        /\ hollow' = hollow /\ bodies' = bodies /\ inbox' = inbox /\ ticked' = ticked
    BY <1>1 DEF vars, chains
  <2> QED BY <2>1, RoundsKept DEF RInv
<1>2. ASSUME NEW n \in Nodes, NEW b, RejectBlock(n, b)
      PROVE  RInv'
  <2>1. /\ net' = net /\ now' = now /\ turn' = turn /\ head' = head /\ tree' = tree
        /\ hollow' = hollow /\ bodies' = bodies /\ ticked' = ticked
    BY <1>2 DEF RejectBlock, chains
  <2>2. \A m \in Nodes : inbox'[m] \subseteq inbox[m]
    BY <1>2, HandledOK DEF RejectBlock, NInv
  <2> QED BY <2>1, <2>2, RoundsKept DEF RInv
<1>3. ASSUME NEW n \in Nodes, SyncFrom(n)
      PROVE  RInv'
  <2>1. /\ net' = net /\ now' = now /\ turn' = turn /\ head' = head /\ tree' = tree
        /\ hollow' = hollow /\ bodies' = bodies /\ inbox' = inbox /\ ticked' = ticked
    BY <1>3 DEF SyncFrom, chains
  <2> QED BY <2>1, RoundsKept DEF RInv
<1> QED BY <1>1, <1>2, <1>3, ElectR, ProduceBlockR, AcceptBlockR, SyncInstallR, TickR
        DEF Next, Handle

LEMMA RInit == ASSUME Init PROVE RInv
<1> SUFFICES ASSUME NEW n \in Nodes PROVE RoundsOK(n)
  BY DEF RInv
<1>1. /\ inbox[n] = {} /\ DOMAIN tree[n] = {Genesis} /\ tree[n][Genesis] = 1
      /\ head[n] = Genesis /\ now = 0
  BY DEF Init
<1>2. \A r \in Nat \ {0} : ~ (0 + r * BlockTime <= 0)
  BY NothingDue
<1>3. \A r \in Nat \ {0} : ~ Due(n, r)
  BY <1>1, <1>2 DEF Due, Timestamp
<1> QED BY <1>1, <1>3, GenesisIsBlock, SMT DEF RoundsOK

\* Longest is the head of a node that is up, and none is higher.
LEMMA LongestOK ==
    ASSUME NInv
    PROVE  /\ Longest \in Block
           /\ \A m \in Up : Height(head[m]) <= Height(Longest)
<1> DEFINE f == [m \in Up |-> Height(head[m])]
<1>1. Up # {} /\ IsFiniteSet(Up)
  <2>1. IsFiniteSet(Nodes)
    BY NetworkAssumption
  <2>2. net.down \subseteq Nodes /\ net.down # Nodes
    BY NetworkAssumption DEF NInv, Types
  <2> QED BY <2>1, <2>2, FS_Subset DEF Up
<1>2. f \in [Up -> Int] /\ \A m \in Up : f[m] = Height(head[m])
  BY UpNodes, HeadsInAll, HeightType, SMT
<1> HIDE DEF f
<1>3. PICK k \in Up : \A m \in Up : f[m] <= f[k]
  BY <1>1, <1>2, Greatest
<1>4. \A m \in Up : Height(head[m]) <= Height(head[k])
  BY <1>2, <1>3
<1>5. /\ Longest \in {head[m] : m \in Up}
      /\ \A m \in Up : Height(head[m]) <= Height(Longest)
  BY <1>4 DEF Longest
<1> QED BY <1>5, UpNodes, HeadsInAll

\* A block time after round 0 goes by without a block only if its leader is down,
\* has not got the head or has synced.
THEOREM SpecRoundsAreUsed ==
    ASSUME IdsOrdered, ScoresAreNumbers
    PROVE  Spec => []RoundsAreUsed
<1>1. ASSUME NInv, RInv PROVE RoundsAreUsed
  <2> SUFFICES ASSUME net.timely, Height(Longest) < net.maxHeight,
                      NEW r \in 1 .. net.maxTime,
                      Timestamp(Longest) + (r + 1) * BlockTime <= now,
                      LeaderFor(Longest, Longest, r) \notin net.down,
                      head[LeaderFor(Longest, Longest, r)] = Longest,
                      hollow[LeaderFor(Longest, Longest, r)] = {}
               PROVE  FALSE
    BY DEF RoundsAreUsed
  <2> DEFINE n == LeaderFor(Longest, Longest, r)
  <2>1. Longest \in Block /\ \A m \in Up : Height(head[m]) <= Height(Longest)
    BY <1>1, LongestOK
  <2>2. r \in Nat \ {0} /\ r \in Nat
    <3>1. net.maxTime \in Nat
      BY <1>1, NetworkAssumption DEF NInv, Types
    <3> QED BY <3>1, SMT
  <2>3. n \in Up /\ n \in Nodes /\ head[n] = Longest /\ hollow[n] = {}
    BY <2>1, <2>2, LeaderOK DEF Up
  <2>4. Leading(n)
    <3> HIDE DEF n
    <3> QED BY <1>1, <2>1, <2>3, LeadsAll
  <2>5. BlockTime \in Nat \ {0} /\ now \in Nat /\ Timestamp(Longest) \in Nat
    BY <1>1, <2>1, TimestampType, NetworkAssumption DEF NInv, Types
  <2>6. r * BlockTime \in Nat /\ (r + 1) * BlockTime = r * BlockTime + BlockTime
    BY <2>2, <2>5, Times
  <2>7. Timestamp(Longest) + r * BlockTime <= now
    BY <2>5, <2>6, SMT
  <2>8. Due(n, r)
    BY <2>3, <2>7 DEF Due
  <2>9. now < Timestamp(Longest) + (r + 1) * BlockTime
    <3> HIDE DEF n
    <3> QED BY <1>1, <2>2, <2>3, <2>4, <2>8 DEF RInv, RoundsOK
  <2> QED BY <2>5, <2>6, <2>9, SMT
<1> QED BY <1>1, NInit, NNext, TInit, TNext, RInit, RNext, PTL DEF Spec

=============================================================================
