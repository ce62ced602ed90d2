---------------------------- MODULE ShardsProofs ----------------------------
(***************************************************************************)
(* Proofs about Shards for any set of nodes, any placement and any number  *)
(* of spoilt shards: bodies are rebuilt from genuine shards only, strikes  *)
(* and misses are deserved, and with an agreed membership every shard is   *)
(* fully replicated and a body is rebuilt unless more than M shards have   *)
(* no good copy within reach.                                              *)
(***************************************************************************)
EXTENDS Shards, DataLemmas

\* Most steps are first-order; the few that calculate name SMT.
USE Zenon

\* A map of shards, and the fields of a reconstruction that the proofs read.
IsShards(f) ==
    /\ f = [i \in DOMAIN f |-> f[i]]
    /\ \A i \in DOMAIN f : f[i] \in {"good", "bad"}
IsJob(j) == {"phase", "at", "shards", "view", "agreed", "held", "lost"}
               \subseteq DOMAIN j

Maps ==
    /\ members \in [Nodes -> SUBSET Nodes]
    /\ disk = [n \in Nodes |-> disk[n]] /\ \A n \in Nodes : IsShards(disk[n])
    /\ view = [n \in Nodes |-> view[n]]
    /\ job = [n \in Nodes |-> job[n]] /\ \A n \in Nodes : IsJob(job[n])
    /\ strikes \in [Nodes -> [Nodes -> Nat]]
    /\ banned = [n \in Nodes |-> banned[n]]
    /\ missed = [n \in Nodes |-> missed[n]]

\* A node that has stored the block holds exactly the shards that its view of
\* the membership assigned to it then; one that has not holds none.
Stored ==
    /\ shape = None => \A n \in Nodes : view[n] = None
    /\ \A n \in Nodes :
          DOMAIN disk[n] = IF view[n] = None THEN {}
                           ELSE AssignedShards(n, view[n], Total(shape))

IInv == Maps /\ Stored /\ OnlyGenuine /\ StrikesDeserved

-----------------------------------------------------------------------------

LEMMA InitIInv == Init => IInv
BY ThresholdAssumption, SMT
   DEF Init, IInv, Maps, Stored, OnlyGenuine, StrikesDeserved, NoJob, IsJob, IsShards

\* Storing the block does not take away the reason of a strike: a node stores it
\* once, and before that it holds nothing a peer could be struck for.
LEMMA StoreKeeps ==
    ASSUME IInv, NEW n \in Nodes, NEW s, view[n] = None, StoreAssigned(n, s),
           shape' = s, s # None, shape \in {None, s}
    PROVE  IInv'
<1>1. members' = members /\ job' = job /\ strikes' = strikes /\ banned' = banned
      /\ missed' = missed
  BY DEF StoreAssigned
<1>2. members[n] \in SUBSET Nodes /\ members[n] # None
  BY NoneAssumption DEF IInv, Maps
<1>3. /\ disk' = [disk EXCEPT ![n] = [i \in AssignedShards(n, members[n], Total(s)) |-> Encode(s)[i]]]
      /\ view' = [view EXCEPT ![n] = members[n]]
  BY DEF StoreAssigned, Restrict
<1>4. \A i \in AssignedShards(n, members[n], Total(s)) : Encode(s)[i] = "good"
  BY DEF AssignedShards, Encode
<1>5. DOMAIN disk[n] = {}
  BY DEF IInv, Stored
<1>6. Maps'
  <2>1. disk' = [m \in Nodes |-> disk'[m]] /\ view' = [m \in Nodes |-> view'[m]]
    BY <1>3 DEF IInv, Maps
  <2>2. \A m \in Nodes : IsShards(disk'[m])
    <3>1. IsShards(disk'[n])
      BY <1>3, <1>4 DEF IInv, Maps, IsShards
    <3>2. ASSUME NEW m \in Nodes, m # n PROVE disk'[m] = disk[m]
      BY <3>2, <1>3 DEF IInv, Maps
    <3> QED
      BY <3>1, <3>2 DEF IInv, Maps
  <2> QED
    BY <2>1, <2>2, <1>1 DEF IInv, Maps
<1>7. Stored'
  <2>1. ASSUME NEW m \in Nodes
        PROVE  DOMAIN disk'[m] = IF view'[m] = None THEN {}
                                 ELSE AssignedShards(m, view'[m], Total(shape'))
    <3>1. CASE m = n
      BY <3>1, <1>2, <1>3 DEF IInv, Maps
    <3>2. CASE m # n
      BY <3>2, <1>3 DEF IInv, Maps, Stored
    <3> QED
      BY <3>1, <3>2
  <2> QED
    BY <2>1 DEF Stored
<1>8. OnlyGenuine'
  BY <1>1 DEF IInv, OnlyGenuine
<1>9. StrikesDeserved'
  <2>1. ASSUME NEW m \in Nodes, NEW h \in Nodes, strikes[m][h] > 0 \/ h \in banned[m]
        PROVE  \E i \in DOMAIN disk'[h] : disk'[h][i] = "bad"
    <3>1. PICK i \in DOMAIN disk[h] : disk[h][i] = "bad"
      BY <2>1 DEF IInv, StrikesDeserved, Bad
    <3>2. h # n
      BY <3>1, <1>5
    <3> QED
      BY <3>1, <3>2, <1>3 DEF IInv, Maps
  <2> QED
    BY <2>1, <1>1 DEF StrikesDeserved, Bad, Holds, HeldShards
<1> QED
  BY <1>6, <1>7, <1>8, <1>9 DEF IInv

\* Spoiling a shard adds reasons, and takes none away.
LEMMA SpoilKeeps ==
    ASSUME IInv, NEW n \in Nodes, NEW i, Spoil(n, i)
    PROVE  IInv'
<1>1. /\ members' = members /\ job' = job /\ strikes' = strikes /\ banned' = banned
      /\ missed' = missed /\ view' = view /\ shape' = shape
      /\ i \in DOMAIN disk[n]
      /\ disk' = [disk EXCEPT ![n][i] = "bad"]
  BY DEF Spoil, HeldShards
<1>2. /\ disk' = [m \in Nodes |-> disk'[m]]
      /\ \A m \in Nodes : m # n => disk'[m] = disk[m]
      /\ disk'[n] = [disk[n] EXCEPT ![i] = "bad"]
  BY <1>1 DEF IInv, Maps
<1>3. /\ DOMAIN disk'[n] = DOMAIN disk[n]
      /\ disk'[n][i] = "bad"
      /\ \A j \in DOMAIN disk[n] : j # i => disk'[n][j] = disk[n][j]
  BY <1>1, <1>2 DEF IInv, Maps, IsShards
<1>4. IsShards(disk'[n])
  <2>1. disk'[n] = [j \in DOMAIN disk'[n] |-> disk'[n][j]]
    BY <1>2
  <2>2. \A j \in DOMAIN disk'[n] : disk'[n][j] \in {"good", "bad"}
    BY <1>3 DEF IInv, Maps, IsShards
  <2> QED
    BY <2>1, <2>2 DEF IsShards
<1>5. Maps'
  BY <1>1, <1>2, <1>4 DEF IInv, Maps
<1>6. Stored'
  BY <1>1, <1>2, <1>3 DEF IInv, Stored
<1>7. StrikesDeserved'
  <2>1. ASSUME NEW m \in Nodes, NEW h \in Nodes, strikes[m][h] > 0 \/ h \in banned[m]
        PROVE  \E j \in DOMAIN disk'[h] : disk'[h][j] = "bad"
    <3>1. PICK j \in DOMAIN disk[h] : disk[h][j] = "bad"
      BY <2>1 DEF IInv, StrikesDeserved, Bad
    <3> QED
      BY <3>1, <1>1, <1>2, <1>3
  <2> QED
    BY <2>1, <1>1 DEF StrikesDeserved, Bad, Holds, HeldShards
<1> QED
  BY <1>1, <1>5, <1>6, <1>7 DEF IInv, OnlyGenuine

\* A step of a reconstruction that leaves the disks and the ban lists alone keeps
\* the invariant if the shards it has are genuine.
LEMMA JobKeeps ==
    ASSUME IInv, NEW n \in Nodes, NEW j, job' = [job EXCEPT ![n] = j],
           IsJob(j), \A i \in DOMAIN j.shards : j.shards[i] = "good",
           UNCHANGED <<members, shape, disk, view, strikes, banned, missed>>
    PROVE  IInv'
<1>1. /\ job' = [m \in Nodes |-> job'[m]] /\ job'[n] = j
      /\ \A m \in Nodes : m # n => job'[m] = job[m]
  BY DEF IInv, Maps
<1>2. Maps'
  BY <1>1 DEF IInv, Maps
<1>3. OnlyGenuine'
  BY <1>1 DEF IInv, OnlyGenuine
<1> QED
  BY <1>2, <1>3 DEF IInv, Stored, StrikesDeserved, Bad, Holds, HeldShards

LEMMA BeginKeeps ==
    ASSUME IInv, NEW n \in Nodes, BeginJob(n)
    PROVE  IInv'
<1> DEFINE j == [NoJob EXCEPT !.phase = "run", !.shards = Local(n),
                              !.view = members[n], !.agreed = Agreed(n),
                              !.held = {c \in Nodes \X Index : Good(c[1], c[2])}]
<1>1. IsJob(j) /\ j.shards = Local(n)
  BY DEF NoJob, IsJob
<1>2. \A i \in DOMAIN Local(n) : Local(n)[i] = "good"
  BY DEF Local, Restrict, Good
<1>3. job' = [job EXCEPT ![n] = j]
  BY DEF BeginJob
<1> HIDE DEF j
<1> QED
  BY <1>1, <1>2, <1>3, JobKeeps DEF BeginJob

LEMMA AlreadyKeeps ==
    ASSUME IInv, NEW n \in Nodes, Already(n)
    PROVE  IInv'
<1> DEFINE j == [job[n] EXCEPT !.at = @ + 1]
<1>1. IsJob(job[n])
  BY DEF IInv, Maps
<1>2. IsJob(j) /\ j.shards = job[n].shards
  BY <1>1 DEF IsJob
<1>3. job' = [job EXCEPT ![n] = j]
  BY DEF Already
<1>4. \A i \in DOMAIN job[n].shards : job[n].shards[i] = "good"
  BY DEF IInv, OnlyGenuine
<1> HIDE DEF j
<1> QED
  BY <1>2, <1>3, <1>4, JobKeeps DEF Already

LEMMA EndKeeps ==
    ASSUME IInv, NEW n \in Nodes, EndJob(n)
    PROVE  IInv'
<1> DEFINE j == IF Have(n) >= shape.K THEN [NoJob EXCEPT !.phase = "rebuilt"]
                                      ELSE [job[n] EXCEPT !.phase = "failed"]
<1>1. IsJob(job[n])
  BY DEF IInv, Maps
<1>2. \A i \in DOMAIN job[n].shards : job[n].shards[i] = "good"
  BY DEF IInv, OnlyGenuine
<1>3. IsJob(j) /\ \A i \in DOMAIN j.shards : j.shards[i] = "good"
  BY <1>1, <1>2 DEF IsJob, NoJob
<1>4. job' = [job EXCEPT ![n] = j]
  BY DEF EndJob
<1> HIDE DEF j
<1> QED
  BY <1>3, <1>4, JobKeeps DEF EndJob

\* FetchShard takes a shard only from a holder whose bytes verify, and strikes
\* only holders whose bytes do not.
LEMMA FetchKeeps ==
    ASSUME IInv, NEW n \in Nodes, FetchShard(n)
    PROVE  IInv'
<1> DEFINE i == job[n].at
           holders == Holders(members[n], i) \ {n}
<1>1. PICK silent \in SUBSET (Flaky \cap holders) :
        LET out == silent \cup banned[n]
            asked == holders \ out
            serving == {h \in asked : Good(h, i)}
            tried == {h \in asked : Better(serving, i, h) = {}}
            liars == {h \in tried : Struck(h, i)}
        IN  /\ strikes' = [strikes EXCEPT ![n] =
                  [h \in Nodes |-> IF h \in liars /\ @[h] < Threshold THEN @[h] + 1 ELSE @[h]]]
            /\ banned' = [banned EXCEPT ![n] = @ \cup {h \in liars : strikes'[n][h] >= Threshold}]
            /\ job' = [job EXCEPT
                  ![n].at = @ + 1,
                  ![n].lost = @ \cup {<<h, i>> : h \in out},
                  ![n].shards = IF serving = {} THEN @
                                ELSE [j \in DOMAIN @ \cup {i} |-> IF j = i THEN "good" ELSE @[j]]]
  BY DEF FetchShard
<1> DEFINE out == silent \cup banned[n]
           serving == {h \in holders \ out : Good(h, i)}
           liars == {h \in {g \in holders \ out : Better(serving, i, g) = {}} : Struck(h, i)}
<1>2. UNCHANGED <<members, shape, disk, view, missed>>
  BY DEF FetchShard
<1>3. \A h \in liars : \E k \in DOMAIN disk[h] : disk[h][k] = "bad"
  BY DEF Struck, Bad, Holds, HeldShards
<1>4. IsJob(job[n]) /\ \A k \in DOMAIN job[n].shards : job[n].shards[k] = "good"
  BY DEF IInv, Maps, OnlyGenuine
<1>5. /\ job' = [m \in Nodes |-> job'[m]]
      /\ \A m \in Nodes : m # n => job'[m] = job[m]
      /\ job'[n] = [job[n] EXCEPT
                       !.at = @ + 1, !.lost = @ \cup {<<h, i>> : h \in out},
                       !.shards = IF serving = {} THEN @
                                  ELSE [j \in DOMAIN @ \cup {i} |-> IF j = i THEN "good" ELSE @[j]]]
  BY <1>1 DEF IInv, Maps
<1>6. IsJob(job'[n]) /\ \A k \in DOMAIN job'[n].shards : job'[n].shards[k] = "good"
  <2> DEFINE kept == IF serving = {} THEN job[n].shards
                     ELSE [j \in DOMAIN job[n].shards \cup {i} |->
                              IF j = i THEN "good" ELSE job[n].shards[j]]
             lost == job[n].lost \cup {<<h, i>> : h \in out}
  <2>1. \A k \in DOMAIN kept : kept[k] = "good"
    BY <1>4
  <2>2. job'[n] = [[[job[n] EXCEPT !.at = @ + 1] EXCEPT !.lost = lost] EXCEPT !.shards = kept]
    BY <1>4, <1>5 DEF IsJob
  <2> HIDE DEF kept, lost
  <2>3. DOMAIN job'[n] = DOMAIN job[n]
    BY <2>2
  <2>4. job'[n].shards = kept
    BY <1>4, <2>2 DEF IsJob
  <2> QED
    BY <1>4, <2>1, <2>3, <2>4 DEF IsJob
<1>7. /\ strikes' \in [Nodes -> [Nodes -> Nat]]
      /\ \A m, h \in Nodes : strikes'[m][h] > 0 => strikes[m][h] > 0 \/ h \in liars
  <2>1. strikes' = [strikes EXCEPT ![n] =
           [h \in Nodes |-> IF h \in liars /\ strikes[n][h] < Threshold
                            THEN strikes[n][h] + 1 ELSE strikes[n][h]]]
    BY <1>1 DEF IInv, Maps
  <2> HIDE DEF liars
  <2> QED
    BY <2>1, SMT DEF IInv, Maps
<1>8. /\ banned' = [m \in Nodes |-> banned'[m]]
      /\ \A m \in Nodes : \A h \in banned'[m] : h \in banned[m] \/ h \in liars
  BY <1>1 DEF IInv, Maps
<1> HIDE DEF liars, serving, out, holders, i
<1>9. Maps'
  BY <1>2, <1>5, <1>6, <1>7, <1>8 DEF IInv, Maps
<1>10. OnlyGenuine'
  <2>1. ASSUME NEW m \in Nodes PROVE \A k \in DOMAIN job'[m].shards : job'[m].shards[k] = "good"
    <3>1. CASE m = n
      BY <3>1, <1>6
    <3>2. CASE m # n
      BY <3>2, <1>5, SMT DEF IInv, OnlyGenuine
    <3> QED
      BY <3>1, <3>2
  <2> QED
    BY <2>1 DEF OnlyGenuine
<1>11. StrikesDeserved'
  BY <1>2, <1>3, <1>7, <1>8 DEF IInv, StrikesDeserved, Bad, Holds, HeldShards
<1> QED
  BY <1>2, <1>9, <1>10, <1>11 DEF IInv, Stored

LEMMA NextIInv == IInv /\ [Next]_vars => IInv'
<1> SUFFICES ASSUME IInv, [Next]_vars PROVE IInv'
  OBVIOUS
<1>1. ASSUME NEW n \in Nodes, NEW h \in Nodes, Hello(n, h) PROVE IInv'
  <2>1. members' \in [Nodes -> SUBSET Nodes]
    BY <1>1 DEF Hello, Merge, IInv, Maps
  <2>2. UNCHANGED <<shape, disk, view, job, strikes, banned, missed>>
    BY <1>1 DEF Hello
  <2> QED
    BY <2>1, <2>2, SMT
       DEF IInv, Maps, Stored, OnlyGenuine, StrikesDeserved, Bad, Holds, HeldShards
<1>2. ASSUME NEW n \in Nodes, NEW h \in Nodes, Expire(n, h) PROVE IInv'
  <2>1. /\ strikes' \in [Nodes -> [Nodes -> Nat]]
        /\ \A m, g \in Nodes : strikes'[m][g] > 0 => strikes[m][g] > 0
    BY <1>2, SMT DEF Expire, IInv, Maps
  <2>2. /\ banned' = [m \in Nodes |-> banned'[m]]
        /\ \A m \in Nodes : banned'[m] \subseteq banned[m]
    BY <1>2 DEF Expire, IInv, Maps
  <2> QED
    BY <1>2, <2>1, <2>2, SMT
       DEF Expire, IInv, Maps, Stored, OnlyGenuine, StrikesDeserved, Bad, Holds,
           HeldShards
<1>3. ASSUME NEW n \in Nodes, ProduceBlock(n) PROVE IInv'
  <2>1. members[n] \in SUBSET Nodes
    BY DEF IInv, Maps
  <2>2. shape' # None /\ shape = None /\ view[n] = None
    BY <1>3, <2>1, NoneAssumption DEF ProduceBlock, IInv, Stored
  <2> QED
    BY <1>3, <2>2, StoreKeeps DEF ProduceBlock
<1>4. ASSUME NEW n \in Nodes, ApplyBlock(n) PROVE IInv'
  BY <1>4, StoreKeeps DEF ApplyBlock
<1>5. ASSUME NEW n \in Nodes, NEW i \in DOMAIN disk[n], Spoil(n, i) PROVE IInv'
  BY <1>5, SpoilKeeps
<1>6. ASSUME NEW n \in Nodes, NEW i \in DOMAIN disk[n], NEW h \in Nodes, Audit(n, i, h) PROVE IInv'
  <2>1. missed' = [m \in Nodes |-> missed'[m]]
    BY <1>6 DEF Audit, Miss, IInv, Maps
  <2>2. UNCHANGED <<members, shape, disk, view, job, strikes, banned>>
    BY <1>6 DEF Audit
  <2> QED
    BY <2>1, <2>2, SMT
       DEF IInv, Maps, Stored, OnlyGenuine, StrikesDeserved, Bad, Holds, HeldShards
<1>7. CASE UNCHANGED vars
  BY <1>7, SMT
     DEF vars, IInv, Maps, Stored, OnlyGenuine, StrikesDeserved, Bad, Holds, HeldShards
<1> QED
  BY <1>1, <1>2, <1>3, <1>4, <1>5, <1>6, <1>7, BeginKeeps, AlreadyKeeps, FetchKeeps, EndKeeps DEF Next

-----------------------------------------------------------------------------

\* The invariant behind the theorems holds throughout.
LEMMA AlwaysIInv == Spec => []IInv
BY InitIInv, NextIInv, PTL DEF Spec

\* Whatever peers serve and whatever happens to the local copies, only shards
\* that pass VerifyShard enter a reconstruction (reconstructShards, FetchShard).
THEOREM RebuiltFromGenuine == Spec => []OnlyGenuine
<1>1. IInv => OnlyGenuine
  BY DEF IInv
<1> QED
  BY <1>1, AlwaysIInv, PTL

\* A peer is struck or banned only if a shard it holds is spoilt
\* (Banlist.Strike as FetchShard calls it).
THEOREM StruckDeservedly == Spec => []StrikesDeserved
<1>1. IInv => StrikesDeserved
  BY DEF IInv
<1> QED
  BY <1>1, AlwaysIInv, PTL

\* An audited holder that the auditor counts as a holder has the shard, if they
\* agree on the membership: AssignedShards and Holders are the same placement.
LEMMA AuditedHolds ==
    ASSUME IInv, NEW n \in Nodes, NEW i \in DOMAIN disk[n], NEW h \in Nodes,
           h \in Challenged(n, i), Agreed(n)
    PROVE  i \in Index /\ i \in DOMAIN disk[h]
<1>1. i \in 0 .. Total(shape) - 1
  BY DEF IInv, Stored, AssignedShards
<1>2. h \in Holders(members[n], i) /\ h \in members[n]
  BY DEF Challenged, Holders
<1>3. view[h] = members[n] /\ members[n] # None
  BY <1>2, NoneAssumption DEF Agreed, IInv, Maps
<1>4. DOMAIN disk[h] = AssignedShards(h, members[n], Total(shape))
  BY <1>3 DEF IInv, Stored
<1> QED
  BY <1>1, <1>2, <1>4 DEF AssignedShards, Index

\* With an agreed membership a Miss is given only for silence or a spoilt copy
\* (AuditRound).
THEOREM AuditAlwaysFair == Spec => AuditFair
<1> DEFINE Fair == \A n, h \in Nodes :
                      h \in missed'[n] \ missed[n] /\ Agreed(n) =>
                         h \in Flaky \/ \E i \in Index : Bad(n, i) \/ Bad(h, i)
<1>1. ASSUME IInv, Next PROVE Fair
  <2>1. ASSUME NEW n \in Nodes, NEW i \in DOMAIN disk[n], NEW h \in Nodes, Audit(n, i, h)
        PROVE  Fair
    <3> SUFFICES ASSUME NEW m \in Nodes, NEW g \in Nodes,
                        g \in missed'[m] \ missed[m], Agreed(m)
                 PROVE  g \in Flaky \/ \E j \in Index : Bad(m, j) \/ Bad(g, j)
      OBVIOUS
    <3>1. m = n /\ g = h
      BY <1>1, <2>1 DEF Audit, Miss, IInv, Maps
    <3>2. CASE h \in Flaky
      BY <3>1, <3>2
    <3>3. CASE ~ (Good(n, i) /\ Good(h, i))
      <4>1. i \in Index /\ i \in DOMAIN disk[h]
        BY <1>1, <2>1, <3>1, AuditedHolds DEF Audit
      <4>2. disk[n][i] \in {"good", "bad"} /\ disk[h][i] \in {"good", "bad"}
        BY <1>1, <4>1 DEF IInv, Maps, IsShards
      <4> QED
        BY <3>1, <3>3, <4>1, <4>2 DEF Good, Bad, Holds, HeldShards
    <3> QED
      BY <2>1, <3>2, <3>3 DEF Audit
  <2>2. CASE UNCHANGED missed
    BY <2>2
  <2>3. UNCHANGED missed \/ \E n, h \in Nodes : \E i \in DOMAIN disk[n] : Audit(n, i, h)
    BY <1>1 DEF Next, Hello, Expire, ProduceBlock, ApplyBlock, StoreAssigned, Spoil,
                BeginJob, Already, FetchShard, EndJob
  <2> QED
    BY <2>1, <2>2, <2>3
<1>2. IInv /\ [Next]_vars => [Fair]_vars
  BY <1>1
<1> QED
  BY <1>2, AlwaysIInv, PTL DEF Spec, AuditFair

-----------------------------------------------------------------------------
(* Placement *)

\* The r best placed members of S for shard i.
Best(S, i, r) == {h \in S : Cardinality(Better(S, i, h)) < r}

\* Taking the worst placed member away changes only whether it is chosen.
LEMMA WorstLast ==
    ASSUME NEW S \in SUBSET Nodes, IsFiniteSet(S), S # {},
           NEW i \in DOMAIN Rank, NEW r \in Nat
    PROVE  \E x \in S :
              Best(S, i, r) = Best(S \ {x}, i, r)
                                 \cup (IF Cardinality(S) - 1 < r THEN {x} ELSE {})
<1> DEFINE f == [n \in S |-> Rank[i][n]]
<1>1. Rank[i] \in [Nodes -> Nat] /\ \A a, b \in Nodes : Rank[i][a] = Rank[i][b] => a = b
  BY RankAssumption DEF IsInjective
<1>2. \A n \in S : f[n] = Rank[i][n]
  OBVIOUS
<1>3. f \in [S -> Int]
  BY <1>1, SMT
<1> HIDE DEF f
<1>4. PICK x \in S : \A y \in S : f[y] <= f[x]
  BY <1>3, Greatest
<1>5. \A y \in S \ {x} : Rank[i][y] < Rank[i][x]
  <2> SUFFICES ASSUME NEW y \in S \ {x} PROVE Rank[i][y] < Rank[i][x]
    OBVIOUS
  <2>1. Rank[i][y] \in Nat /\ Rank[i][x] \in Nat /\ Rank[i][y] # Rank[i][x]
    BY <1>1
  <2>2. Rank[i][y] <= Rank[i][x]
    BY <1>2, <1>4
  <2> QED
    BY <2>1, <2>2, SMT
<1>6. \A n \in Nodes : Rank[i][n] \in Nat
  BY <1>1
<1>7. Better(S, i, x) = S \ {x}
  BY <1>5, <1>6, SMT DEF Better
<1>8. \A h \in S \ {x} : Better(S, i, h) = Better(S \ {x}, i, h)
  BY <1>5, <1>6, SMT DEF Better
<1>9. Cardinality(S \ {x}) = Cardinality(S) - 1
  BY FS_RemoveElement
<1>10. x \in Best(S, i, r) <=> Cardinality(S) - 1 < r
  BY <1>7, <1>9 DEF Best
<1>11. Best(S, i, r) \ {x} = Best(S \ {x}, i, r)
  BY <1>8 DEF Best
<1>12. x \notin Best(S \ {x}, i, r)
  BY DEF Best
<1> QED
  BY <1>10, <1>11, <1>12

\* Rendezvous hashing chooses r members, or all of them if there are fewer.
LEMMA BestCount ==
    ASSUME NEW S \in SUBSET Nodes, NEW i \in DOMAIN Rank, NEW r \in Nat
    PROVE  /\ Cardinality(S) \in Nat
           /\ Cardinality(Best(S, i, r)) =
                 IF r <= Cardinality(S) THEN r ELSE Cardinality(S)
<1> DEFINE Right(T, k) == Cardinality(Best(T, i, r)) = IF r <= k THEN r ELSE k
           N == {k \in Nat : \A T \in SUBSET Nodes : Cardinality(T) = k => Right(T, k)}
<1>1. \A T \in SUBSET Nodes : IsFiniteSet(T) /\ Cardinality(T) \in Nat
  BY NodesAssumption, FS_Subset, FS_CardinalityType
<1>2. 0 \in N
  <2> SUFFICES ASSUME NEW T \in SUBSET Nodes, Cardinality(T) = 0 PROVE Right(T, 0)
    OBVIOUS
  <2>1. T = {}
    BY <1>1, FS_EmptySet
  <2>2. Best(T, i, r) = {}
    BY <2>1 DEF Best
  <2>3. Cardinality(Best(T, i, r)) = 0
    BY <2>2, FS_EmptySet
  <2> QED
    BY <2>3, SMT
<1>3. ASSUME NEW k \in Nat, k \in N PROVE k + 1 \in N
  <2> SUFFICES ASSUME NEW T \in SUBSET Nodes, Cardinality(T) = k + 1
               PROVE  Right(T, k + 1)
    BY SMT
  <2>1. T # {} /\ IsFiniteSet(T)
    BY <1>1, FS_EmptySet, SMT
  <2>2. PICK x \in T :
           Best(T, i, r) = Best(T \ {x}, i, r)
                              \cup (IF Cardinality(T) - 1 < r THEN {x} ELSE {})
    BY <2>1, WorstLast, SMT
  <2> DEFINE U == T \ {x}
             B == Best(U, i, r)
  <2>3. U \in SUBSET Nodes /\ Cardinality(U) = k
    <3>1. Cardinality(U) = Cardinality(T) - 1
      BY <2>1, FS_RemoveElement
    <3> QED
      BY <3>1, SMT
  <2>4. Cardinality(B) = IF r <= k THEN r ELSE k
    BY <1>3, <2>3
  <2>5. B \in SUBSET Nodes /\ x \notin B /\ IsFiniteSet(B)
    BY <1>1 DEF Best
  <2>6. CASE k < r
    <3>1. Best(T, i, r) = B \cup {x}
      BY <2>2, <2>6, SMT
    <3>2. Cardinality(B \cup {x}) = Cardinality(B) + 1
      BY <2>5, FS_AddElement
    <3> HIDE DEF B
    <3> QED
      BY <2>4, <2>6, <3>1, <3>2, SMT
  <2>7. CASE ~ (k < r)
    <3>1. Best(T, i, r) = B
      BY <2>2, <2>7, SMT
    <3> HIDE DEF B
    <3> QED
      BY <2>4, <2>7, <3>1, SMT
  <2> QED
    BY <2>6, <2>7
<1> HIDE DEF N, Right
<1>4. Cardinality(S) \in N
  BY <1>1, <1>2, <1>3, Induction
<1>5. Right(S, Cardinality(S))
  BY <1>4 DEF N
<1> QED
  BY <1>1, <1>5 DEF Right

\* The smaller and the larger of two numbers.
LEMMA MinMaxPair ==
    ASSUME NEW a \in Nat, NEW b \in Nat
    PROVE  /\ Min({a, b}) = IF a <= b THEN a ELSE b
           /\ Max({a, b}) = IF a <= b THEN b ELSE a
<1> DEFINE S == {a, b}
<1>1. S \in SUBSET Int /\ IsFiniteSet(S) /\ S # {}
  BY FinitePair, SMT
<1>2. \A x \in S : x = a \/ x = b
  OBVIOUS
<1>3. a \in S /\ b \in S
  OBVIOUS
<1> HIDE DEF S
<1>4. Min(S) \in S /\ (\A y \in S : Min(S) <= y)
  BY <1>1, MinIsMin
<1>5. Max(S) \in S /\ (\A y \in S : y <= Max(S))
  BY <1>1, MaxIsMax
<1>6. Min(S) = IF a <= b THEN a ELSE b
  <2>1. (Min(S) = a \/ Min(S) = b) /\ Min(S) <= a /\ Min(S) <= b
    BY <1>2, <1>3, <1>4
  <2> QED
    BY <2>1, SMT
<1>7. Max(S) = IF a <= b THEN b ELSE a
  <2>1. (Max(S) = a \/ Max(S) = b) /\ a <= Max(S) /\ b <= Max(S)
    BY <1>2, <1>3, <1>5
  <2> QED
    BY <2>1, SMT
<1> QED
  BY <1>6, <1>7 DEF S

\* Every shape the network can pick has data and parity shards.
LEMMA ShapeType ==
    ASSUME NEW c \in Nat
    PROVE  /\ ShardSpec(c).K \in Nat \ {0} /\ ShardSpec(c).M \in Nat \ {0}
           /\ Total(ShardSpec(c)) \in Nat
<1> DEFINE u == Max({c, minTotalShards})
           t == Min({u, maxTotalShards})
           m == Max({t \div 3, 1})
           k == Max({t - m, 1})
<1>1. u \in Nat
  BY MinMaxPair, SMT DEF minTotalShards
<1> HIDE DEF u
<1>2. t \in Nat
  BY <1>1, MinMaxPair, SMT DEF maxTotalShards
<1> HIDE DEF t
<1>3. t \div 3 \in Nat /\ t \div 3 <= t
  BY <1>2, SMT
<1>4. m \in Nat /\ m >= 1 /\ (m = t \div 3 \/ m = 1)
  BY <1>3, MinMaxPair, SMT
<1> HIDE DEF m
<1>5. k \in Nat /\ k >= 1
  <2>1. CASE t - m \in Nat
    BY <2>1, MinMaxPair, SMT
  <2>2. CASE t - m \notin Nat
    <3>1. t = 0 /\ m = 1
      BY <1>2, <1>3, <1>4, <2>2, SMT
    <3> DEFINE S == {-1, 1}
    <3>2. S \in SUBSET Int /\ IsFiniteSet(S) /\ S # {} /\ 1 \in S
      BY FinitePair, SMT
    <3>3. \A y \in S : y = -1 \/ y = 1
      OBVIOUS
    <3>4. t - m = -1
      BY <3>1, SMT
    <3>5. k = Max(S)
      BY <3>4
    <3> HIDE DEF S, k
    <3>6. Max(S) \in S /\ (\A y \in S : y <= Max(S))
      BY <3>2, MaxIsMax
    <3>7. (Max(S) = -1 \/ Max(S) = 1) /\ 1 <= Max(S)
      BY <3>2, <3>3, <3>6
    <3> QED
      BY <3>5, <3>7, SMT
  <2> QED
    BY <2>1, <2>2
<1>6. ShardSpec(c) = [K |-> k, M |-> m]
  BY DEF ShardSpec, u, t, m
<1> HIDE DEF k
<1> QED
  BY <1>4, <1>5, <1>6, SMT DEF Total

\* Every shard has as many holders as Replication asks for.
LEMMA HoldersCount ==
    ASSUME NEW S \in SUBSET Nodes, NEW i \in DOMAIN Rank
    PROVE  Cardinality(Holders(S, i)) = Min({Replication(Cardinality(S)), Cardinality(S)})
<1> DEFINE c == Cardinality(S)
           r == Replication(c)
<1>1. c \in Nat
  BY NodesAssumption, FS_Subset, FS_CardinalityType
<1> HIDE DEF c
<1>2. r \in Nat
  BY <1>1 DEF Replication
<1>3. Holders(S, i) = Best(S, i, r)
  BY DEF Holders, Best, c
<1> HIDE DEF r
<1>4. Cardinality(Best(S, i, r)) = IF r <= c THEN r ELSE c
  BY <1>2, BestCount DEF c
<1>5. Min({r, c}) = IF r <= c THEN r ELSE c
  BY <1>1, <1>2, MinMaxPair
<1> QED
  BY <1>3, <1>4, <1>5, SMT DEF c, r

-----------------------------------------------------------------------------
(* Replication and reconstruction *)

\* The shape of the block is one the network picks, and a node knows itself.
Shaped ==
    /\ shape # None => \E S \in SUBSET Nodes : shape = ShardSpec(Cardinality(S))
    /\ \A n \in Nodes : n \in members[n]

\* The shards the job of n has not got though it tried them have no use for it
\* on any holder by its view; a good copy that the job saw is still held.
JobOK(n) ==
    job[n].phase \in {"run", "failed"} =>
       /\ shape # None
       /\ job[n].at \in Nat
       /\ DOMAIN job[n].shards \subseteq Index
       /\ job[n].view \subseteq members[n]
       /\ job[n].held \subseteq Nodes \X Index
       /\ \A h \in Nodes, i \in Index :
             <<h, i>> \in job[n].held => i \in DOMAIN disk[h]
       /\ \A i \in Index : <<n, i>> \in job[n].held => i \in DOMAIN job[n].shards
       /\ job[n].view = members[n] =>
             /\ \A i \in Index \ DOMAIN job[n].shards :
                   i < job[n].at =>
                      \A h \in Holders(members[n], i) : Useless(n, h, i)
             /\ job[n].agreed => Agreed(n)
       /\ job[n].phase = "failed" =>
             /\ Cardinality(DOMAIN job[n].shards) < shape.K
             /\ job[n].at >= Total(shape)

JInv == Shaped /\ \A n \in Nodes : JobOK(n)

\* What Shaped says of the numbers.
LEMMA ShapeOK ==
    ASSUME Shaped, shape # None
    PROVE  /\ shape.K \in Nat /\ shape.M \in Nat /\ Total(shape) = shape.K + shape.M
           /\ Index \subseteq DOMAIN Rank /\ Index \subseteq Nat
           /\ IsFiniteSet(Index) /\ Cardinality(Index) = shape.K + shape.M
<1>1. PICK S \in SUBSET Nodes : shape = ShardSpec(Cardinality(S))
  BY DEF Shaped
<1>2. Cardinality(S) \in Nat
  BY NodesAssumption, FS_Subset, FS_CardinalityType
<1>3. shape.K \in Nat /\ shape.M \in Nat
  BY <1>1, <1>2, ShapeType
<1>4. Total(shape) = shape.K + shape.M
  BY DEF Total
<1>5. Index \subseteq DOMAIN Rank
  BY <1>1, RankAssumption DEF Index
<1> DEFINE t == shape.K + shape.M
<1>6. Index = 0 .. (t - 1) /\ t \in Nat
  <2>1. 0 .. Total(shape) - 1 = 0 .. (Total(shape) - 1)
    OBVIOUS
  <2> QED
    BY <1>3, <1>4, <2>1, SMT DEF Index
<1> HIDE DEF t
<1>7. IsFiniteSet(Index) /\ Cardinality(Index) = t
  <2>1. /\ IsFiniteSet(0 .. (t - 1))
        /\ Cardinality(0 .. (t - 1)) = IF 0 > t - 1 THEN 0 ELSE (t - 1) - 0 + 1
    <3>1. 0 \in Int /\ t - 1 \in Int
      BY <1>6, SMT
    <3> QED
      BY <3>1, FS_Interval
  <2> QED
    BY <1>6, <2>1, SMT
<1> QED
  BY <1>3, <1>4, <1>5, <1>6, <1>7, SMT DEF t

\* A step that leaves the job of n alone and that only adds members, copies
\* and spoilt shards keeps what its job relies on.
LEMMA JobStable ==
    ASSUME IInv, NEW n \in Nodes, JobOK(n), job'[n] = job[n],
           shape # None => shape' = shape,
           members[n] \subseteq members'[n],
           \A h \in Nodes : DOMAIN disk[h] \subseteq DOMAIN disk'[h],
           \A h \in Nodes : \A i \in DOMAIN disk[h] :
              disk[h][i] # "good" => disk'[h][i] # "good",
           \A h \in Nodes : view[h] # None => view'[h] = view[h]
    PROVE  JobOK(n)'
<1> SUFFICES ASSUME job[n].phase \in {"run", "failed"} PROVE JobOK(n)'
  BY DEF JobOK
<1> DEFINE j == job[n]
<1>1. /\ shape # None /\ j.at \in Nat /\ DOMAIN j.shards \subseteq Index
      /\ j.view \subseteq members[n] /\ j.held \subseteq Nodes \X Index
      /\ \A h \in Nodes, i \in Index : <<h, i>> \in j.held => i \in DOMAIN disk[h]
      /\ \A i \in Index : <<n, i>> \in j.held => i \in DOMAIN j.shards
      /\ j.phase = "failed" => /\ Cardinality(DOMAIN j.shards) < shape.K
                               /\ j.at >= Total(shape)
  BY DEF JobOK
<1>2. shape' = shape /\ Index' = Index
  BY <1>1 DEF Index
<1>3. ASSUME j.view = members'[n]
      PROVE  /\ members'[n] = members[n]
             /\ \A i \in Index \ DOMAIN j.shards :
                   i < j.at => \A h \in Holders(members[n], i) : Useless(n, h, i)
             /\ j.agreed => Agreed(n)
  <2>1. members'[n] = members[n] /\ j.view = members[n]
    BY <1>1, <1>3
  <2> QED
    BY <2>1 DEF JobOK
<1>4. ASSUME NEW h \in Nodes, NEW i \in Index, Useless(n, h, i)
      PROVE  \/ <<h, i>> \notin j.held
             \/ ~ (i \in DOMAIN disk'[h] /\ disk'[h][i] = "good")
             \/ <<h, i>> \in j.lost
  BY <1>1, <1>4 DEF Useless, Good, Holds, HeldShards
<1>5. ASSUME j.view = members'[n], NEW i \in Index \ DOMAIN j.shards, i < j.at,
             NEW h \in Holders(members'[n], i)
      PROVE  Useless(n, h, i)'
  <2>1. h \in Nodes
    BY <1>3, <1>5 DEF Holders, IInv, Maps
  <2>2. Useless(n, h, i)
    BY <1>3, <1>5
  <2> QED
    BY <1>4, <2>1, <2>2 DEF Useless, Good, Holds, HeldShards
<1>6. ASSUME j.view = members'[n], j.agreed PROVE Agreed(n)'
  <2>1. Agreed(n) /\ members'[n] = members[n]
    BY <1>3, <1>6
  <2>2. members[n] \in SUBSET Nodes /\ members[n] # None
    BY NoneAssumption DEF IInv, Maps
  <2> QED
    BY <2>1, <2>2 DEF Agreed
<1>7. \A h \in Nodes, i \in Index : <<h, i>> \in j.held => i \in DOMAIN disk'[h]
  BY <1>1
<1>8. j.view \subseteq members'[n]
  BY <1>1
<1>9. job'[n] = j
  OBVIOUS
<1>10. j.view = members'[n] =>
          /\ \A i \in Index \ DOMAIN j.shards :
                i < j.at => \A h \in Holders(members'[n], i) : Useless(n, h, i)'
          /\ j.agreed => Agreed(n)'
  BY <1>5, <1>6
<1> HIDE DEF j
<1> QED
  BY <1>1, <1>2, <1>7, <1>8, <1>9, <1>10 DEF JobOK, Holders, Better

\* A step of the job of one node is no concern of the others'.
LEMMA OneJob ==
    ASSUME IInv, JInv, NEW n \in Nodes, JobOK(n)',
           \A m \in Nodes : m # n => job'[m] = job[m],
           UNCHANGED <<members, shape, disk, view>>
    PROVE  JInv'
<1>1. ASSUME NEW m \in Nodes, m # n PROVE JobOK(m)'
  BY <1>1, JobStable DEF JInv
<1>2. Shaped'
  BY DEF JInv, Shaped
<1> QED
  BY <1>1, <1>2 DEF JInv

\* A job starts with the good local copies and has tried nothing.
LEMMA BeginJ ==
    ASSUME IInv, JInv, NEW n \in Nodes, BeginJob(n)
    PROVE  JInv'
<1> DEFINE held == {c \in Nodes \X Index : Good(c[1], c[2])}
           agreed == Agreed(n)
           j == [NoJob EXCEPT !.phase = "run", !.shards = Local(n),
                              !.view = members[n], !.agreed = agreed,
                              !.held = held]
<1>1. /\ shape # None /\ UNCHANGED <<members, shape, disk, view>>
      /\ job' = [job EXCEPT ![n] = j]
  BY DEF BeginJob
<1>2. \A i \in Index : i \in Nat
  BY <1>1, ShapeOK DEF JInv
<1>3. DOMAIN disk[n] \subseteq Index
  BY DEF IInv, Stored, AssignedShards, Index
<1>4. /\ DOMAIN Local(n) \subseteq Index
      /\ \A i \in Index : Good(n, i) => i \in DOMAIN Local(n)
  BY <1>3 DEF Local, Restrict, Good, Holds, HeldShards
<1>5. /\ held \subseteq Nodes \X Index
      /\ \A h \in Nodes, i \in Index : <<h, i>> \in held <=> Good(h, i)
  OBVIOUS
<1>6. \A h \in Nodes, i \in Index : Good(h, i) => i \in DOMAIN disk[h]
  BY DEF Good, Holds, HeldShards
<1>7. agreed = Agreed(n) /\ (Agreed(n) => Agreed(n)')
  BY <1>1 DEF Agreed
<1> HIDE DEF held, agreed
<1>8. /\ j.phase = "run" /\ j.at = 0 /\ j.shards = Local(n)
      /\ j.view = members[n] /\ j.agreed = agreed /\ j.held = held
  BY DEF NoJob
<1>9. job'[n] = j /\ \A m \in Nodes : m # n => job'[m] = job[m]
  BY <1>1 DEF IInv, Maps
<1> HIDE DEF j
<1>10. Index' = Index
  BY <1>1 DEF Index
<1>11. JobOK(n)'
  <2>1. /\ job'[n].phase = "run" /\ job'[n].at = 0 /\ job'[n].shards = Local(n)
        /\ job'[n].view = members[n] /\ job'[n].agreed = agreed
        /\ job'[n].held = held
    BY <1>8, <1>9
  <2>2. shape' # None /\ members' = members /\ disk' = disk
    BY <1>1
  <2>3. /\ \A h \in Nodes, i \in Index : <<h, i>> \in held => i \in DOMAIN disk[h]
        /\ \A i \in Index : <<n, i>> \in held => i \in DOMAIN Local(n)
    BY <1>4, <1>5, <1>6
  <2>4. \A i \in Index : ~ (i < 0)
    BY <1>2, SMT
  <2> QED
    BY <2>1, <2>2, <2>3, <2>4, <1>4, <1>5, <1>7, <1>10, SMT DEF JobOK
<1> QED
  BY <1>1, <1>9, <1>11, OneJob

\* A shard that the job already has is passed over.
LEMMA AlreadyJ ==
    ASSUME IInv, JInv, NEW n \in Nodes, Already(n)
    PROVE  JInv'
<1> DEFINE j == [job[n] EXCEPT !.at = @ + 1]
<1>1. /\ UNCHANGED <<members, shape, disk, view>>
      /\ job' = [job EXCEPT ![n] = j]
      /\ job[n].phase = "run" /\ job[n].at \in DOMAIN job[n].shards
  BY DEF Already, Fetching
<1>2. IsJob(job[n]) /\ JobOK(n)
  BY DEF IInv, Maps, JInv
<1>3. /\ j.phase = "run" /\ j.at = job[n].at + 1 /\ j.shards = job[n].shards
      /\ j.view = job[n].view /\ j.agreed = job[n].agreed
      /\ j.held = job[n].held /\ j.lost = job[n].lost
  BY <1>1, <1>2 DEF IsJob
<1>4. job'[n] = j /\ \A m \in Nodes : m # n => job'[m] = job[m]
  BY <1>1 DEF IInv, Maps
<1> HIDE DEF j
<1>5. Index' = Index /\ (Agreed(n) => Agreed(n)')
  BY <1>1 DEF Index, Agreed
<1>6. shape # None /\ \A i \in Index : i \in Nat
  BY <1>1, <1>2, ShapeOK DEF JInv, JobOK
<1>7. job[n].at \in Nat
  BY <1>1, <1>2 DEF JobOK
<1>8. \A h, i : Useless(n, h, i) => Useless(n, h, i)'
  BY <1>1, <1>3, <1>4 DEF Useless, Good, Holds, HeldShards
<1>9. \A i \in Index \ DOMAIN j.shards : i < j.at => i < job[n].at
  BY <1>1, <1>3, <1>6, <1>7, SMT
<1>10. j.view = members[n] =>
          /\ \A i \in Index \ DOMAIN j.shards :
                i < j.at => \A h \in Holders(members[n], i) : Useless(n, h, i)'
          /\ j.agreed => Agreed(n)'
  <2>1. ASSUME j.view = members[n]
        PROVE  /\ \A i \in Index \ DOMAIN job[n].shards :
                     i < job[n].at => \A h \in Holders(members[n], i) : Useless(n, h, i)
               /\ job[n].agreed => Agreed(n)
    BY <1>1, <1>2, <1>3, <2>1 DEF JobOK
  <2> QED
    BY <1>3, <1>5, <1>8, <1>9, <2>1
<1>11. j.at \in Nat /\ shape' # None /\ members' = members /\ disk' = disk
  BY <1>1, <1>3, <1>6, <1>7, SMT
<1>12. /\ DOMAIN j.shards \subseteq Index /\ j.view \subseteq members[n]
       /\ j.held \subseteq Nodes \X Index
       /\ \A h \in Nodes, i \in Index : <<h, i>> \in j.held => i \in DOMAIN disk[h]
       /\ \A i \in Index : <<n, i>> \in j.held => i \in DOMAIN j.shards
  BY <1>1, <1>2, <1>3 DEF JobOK
<1>13. JobOK(n)'
  BY <1>3, <1>4, <1>5, <1>10, <1>11, <1>12 DEF JobOK, Holders, Better
<1> QED
  BY <1>1, <1>4, <1>13, OneJob

\* FetchShard either gets the shard or no holder by the view of n could have
\* served it: the ones left out are lost, the others do not have it good, and
\* n itself did not have it good when the job began.
LEMMA FetchJ ==
    ASSUME IInv, JInv, NEW n \in Nodes, FetchShard(n)
    PROVE  JInv'
<1>0. PICK i : i = job[n].at
  OBVIOUS
<1> DEFINE others(k) == Holders(members[n], k) \ {n}
           Got(k, out) ==
              LET serving == {h \in others(k) \ out : Good(h, k)}
              IN  job' = [job EXCEPT
                    ![n].at = @ + 1,
                    ![n].lost = @ \cup {<<h, k>> : h \in out},
                    ![n].shards = IF serving = {} THEN @
                                  ELSE [l \in DOMAIN @ \cup {k} |->
                                           IF l = k THEN "good" ELSE @[l]]]
           holders == others(i)
<1>1. PICK silent : Got(i, silent \cup banned[n])
  <2>1. \E silent : Got(job[n].at, silent \cup banned[n])
    BY DEF FetchShard
  <2> HIDE DEF Got
  <2> QED
    BY <1>0, <2>1
<1> DEFINE out == silent \cup banned[n]
           serving == {h \in holders \ out : Good(h, i)}
           lost == job[n].lost \cup {<<h, i>> : h \in out}
           kept == IF serving = {} THEN job[n].shards
                   ELSE [k \in DOMAIN job[n].shards \cup {i} |->
                            IF k = i THEN "good" ELSE job[n].shards[k]]
           j == [[[job[n] EXCEPT !.at = @ + 1] EXCEPT !.lost = lost] EXCEPT !.shards = kept]
<1>2. /\ UNCHANGED <<members, shape, disk, view>>
      /\ job[n].phase = "run" /\ i < Total(shape) /\ i \notin DOMAIN job[n].shards
  BY <1>0 DEF FetchShard, Fetching
<1>3. IsJob(job[n]) /\ JobOK(n)
  BY DEF IInv, Maps, JInv
<1>4. job'[n] = j /\ \A m \in Nodes : m # n => job'[m] = job[m]
  BY <1>1, <1>3 DEF IInv, Maps, IsJob
<1>5. \A h \in holders \ out : serving = {} => ~ Good(h, i)
  OBVIOUS
<1>6. \A h \in out : <<h, i>> \in lost
  OBVIOUS
<1>7. job[n].lost \subseteq lost
  OBVIOUS
<1>8. DOMAIN kept = IF serving = {} THEN DOMAIN job[n].shards
                    ELSE DOMAIN job[n].shards \cup {i}
  OBVIOUS
<1> HIDE DEF serving, lost, kept, out
<1>9. /\ j.phase = "run" /\ j.at = i + 1 /\ j.shards = kept
      /\ j.view = job[n].view /\ j.agreed = job[n].agreed
      /\ j.held = job[n].held /\ j.lost = lost
  BY <1>0, <1>2, <1>3 DEF IsJob
<1> HIDE DEF j
<1>10. Index' = Index /\ (Agreed(n) => Agreed(n)')
  BY <1>2 DEF Index, Agreed
<1>11. /\ shape # None /\ \A k \in Index : k \in Nat
  BY <1>2, <1>3, ShapeOK DEF JInv, JobOK
<1>12. i \in Nat /\ i \in Index
  <2>1. i \in Nat
    BY <1>0, <1>2, <1>3 DEF JobOK
  <2>2. Total(shape) \in Int
    BY <1>11, ShapeOK, SMT DEF JInv
  <2> QED
    BY <1>2, <2>1, <2>2, SMT DEF Index
<1>13. \A h, k : Useless(n, h, k) => Useless(n, h, k)'
  BY <1>2, <1>4, <1>7, <1>9 DEF Useless, Good, Holds, HeldShards
<1>14. ASSUME i \notin DOMAIN kept, NEW h \in Holders(members[n], i)
       PROVE  Useless(n, h, i)'
  <2>1. serving = {}
    BY <1>8, <1>14
  <2>2. CASE h = n
    BY <1>2, <1>3, <1>4, <1>9, <1>12, <2>2 DEF JobOK, Useless
  <2>3. CASE h \in out
    BY <1>4, <1>6, <1>9, <2>3 DEF Useless
  <2>4. CASE h \in holders \ out
    BY <1>2, <1>5, <2>1, <2>4 DEF Useless, Good, Holds, HeldShards
  <2> QED
    BY <2>2, <2>3, <2>4
<1>15. j.view = members[n] =>
          /\ \A k \in Index \ DOMAIN j.shards :
                k < j.at => \A h \in Holders(members[n], k) : Useless(n, h, k)'
          /\ j.agreed => Agreed(n)'
  <2>1. ASSUME j.view = members[n]
        PROVE  /\ \A k \in Index \ DOMAIN job[n].shards :
                     k < i => \A h \in Holders(members[n], k) : Useless(n, h, k)
               /\ job[n].agreed => Agreed(n)
    BY <1>0, <1>2, <1>3, <1>9, <2>1 DEF JobOK
  <2>2. ASSUME j.view = members[n], NEW k \in Index \ DOMAIN j.shards, k < j.at,
               NEW h \in Holders(members[n], k)
        PROVE  Useless(n, h, k)'
    <3>1. k = i \/ k < i
      <4>1. k \in Nat /\ k < i + 1 /\ i \in Nat
        BY <1>9, <1>11, <1>12, <2>2
      <4> QED
        BY <4>1, SMT
    <3>2. CASE k = i
      BY <1>9, <1>14, <2>2, <3>2
    <3>3. CASE k < i
      <4>1. k \in Index \ DOMAIN job[n].shards
        BY <1>8, <1>9, <2>2
      <4>2. Useless(n, h, k)
        BY <2>1, <2>2, <3>3, <4>1
      <4> QED
        BY <1>13, <4>2
    <3> QED
      BY <3>1, <3>2, <3>3
  <2> QED
    BY <1>9, <1>10, <2>1, <2>2
<1>16. j.at \in Nat /\ shape' # None /\ members' = members /\ disk' = disk
  BY <1>2, <1>9, <1>11, <1>12, SMT
<1>17. /\ DOMAIN j.shards \subseteq Index /\ j.view \subseteq members[n]
       /\ j.held \subseteq Nodes \X Index
       /\ \A h \in Nodes, k \in Index : <<h, k>> \in j.held => k \in DOMAIN disk[h]
       /\ \A k \in Index : <<n, k>> \in j.held => k \in DOMAIN j.shards
  BY <1>2, <1>3, <1>8, <1>9, <1>12 DEF JobOK
<1>18. JobOK(n)'
  BY <1>4, <1>9, <1>10, <1>15, <1>16, <1>17 DEF JobOK, Holders, Better
<1> QED
  BY <1>2, <1>4, <1>18, OneJob

\* A job fails only when every shard was tried.
LEMMA EndJ ==
    ASSUME IInv, JInv, NEW n \in Nodes, EndJob(n)
    PROVE  JInv'
<1>1. /\ UNCHANGED <<members, shape, disk, view>>
      /\ job[n].phase = "run" /\ ~ Fetching(n)
  BY DEF EndJob
<1>2. IsJob(job[n]) /\ JobOK(n)
  BY DEF IInv, Maps, JInv
<1>3. \A m \in Nodes : m # n => job'[m] = job[m]
  BY DEF EndJob, IInv, Maps
<1>4. /\ shape # None /\ Total(shape) \in Int /\ shape.K \in Nat
      /\ IsFiniteSet(Index)
  <2>1. shape # None
    BY <1>1, <1>2 DEF JobOK
  <2>2. Shaped
    BY DEF JInv
  <2>3. /\ shape.K \in Nat /\ shape.M \in Nat /\ Total(shape) = shape.K + shape.M
        /\ IsFiniteSet(Index)
    BY <2>1, <2>2, ShapeOK
  <2> QED  BY <2>1, <2>3, SMT
<1>5. Have(n) \in Nat /\ job[n].at \in Nat
  <2>1. DOMAIN job[n].shards \subseteq Index /\ job[n].at \in Nat
    BY <1>1, <1>2 DEF JobOK
  <2> QED
    BY <1>4, <2>1, FS_Subset, FS_CardinalityType DEF Have
<1>6. CASE Have(n) >= shape.K
  <2>1. job'[n] = [NoJob EXCEPT !.phase = "rebuilt"]
    BY <1>6 DEF EndJob, IInv, Maps
  <2>2. job'[n].phase = "rebuilt"
    BY <2>1 DEF NoJob
  <2>3. JobOK(n)'
    BY <2>2 DEF JobOK
  <2> QED
    BY <1>1, <1>3, <2>3, OneJob
<1>7. CASE ~ (Have(n) >= shape.K)
  <2> DEFINE j == [job[n] EXCEPT !.phase = "failed"]
  <2>1. job'[n] = j
    BY <1>7 DEF EndJob, IInv, Maps
  <2>2. /\ j.phase = "failed" /\ j.at = job[n].at /\ j.shards = job[n].shards
        /\ j.view = job[n].view /\ j.agreed = job[n].agreed
        /\ j.held = job[n].held /\ j.lost = job[n].lost
    BY <1>2 DEF IsJob
  <2> HIDE DEF j
  <2>3. Have(n) < shape.K /\ job[n].at >= Total(shape)
    BY <1>1, <1>4, <1>5, <1>7, SMT DEF Fetching
  <2>4. Index' = Index /\ (Agreed(n) => Agreed(n)')
    BY <1>1 DEF Index, Agreed
  <2>5. \A h, k : Useless(n, h, k) => Useless(n, h, k)'
    BY <1>1, <2>1, <2>2 DEF Useless, Good, Holds, HeldShards
  <2>6. j.view = members[n] =>
           /\ \A k \in Index \ DOMAIN j.shards :
                 k < j.at => \A h \in Holders(members[n], k) : Useless(n, h, k)'
           /\ j.agreed => Agreed(n)'
    <3>1. ASSUME j.view = members[n]
          PROVE  /\ \A k \in Index \ DOMAIN job[n].shards :
                       k < job[n].at => \A h \in Holders(members[n], k) : Useless(n, h, k)
                 /\ job[n].agreed => Agreed(n)
      BY <1>1, <1>2, <2>2, <3>1 DEF JobOK
    <3> QED
      BY <2>2, <2>4, <2>5, <3>1
  <2>7. /\ DOMAIN j.shards \subseteq Index /\ j.view \subseteq members[n]
        /\ j.held \subseteq Nodes \X Index
        /\ \A h \in Nodes, k \in Index : <<h, k>> \in j.held => k \in DOMAIN disk[h]
        /\ \A k \in Index : <<n, k>> \in j.held => k \in DOMAIN j.shards
    BY <1>1, <1>2, <2>2 DEF JobOK
  <2>8. /\ j.at \in Nat /\ shape' # None /\ members' = members /\ disk' = disk
        /\ Cardinality(DOMAIN j.shards) < shape'.K /\ j.at >= Total(shape')
    BY <1>1, <1>4, <1>5, <2>2, <2>3 DEF Have
  <2>9. JobOK(n)'
    BY <2>1, <2>2, <2>4, <2>6, <2>7, <2>8 DEF JobOK, Holders, Better
  <2> QED
    BY <1>1, <1>3, <2>9, OneJob
<1> QED
  BY <1>6, <1>7

\* Storing the block on n: before, n held nothing.
LEMMA StoreJ ==
    ASSUME IInv, JInv, NEW n \in Nodes, NEW s, view[n] = None, StoreAssigned(n, s),
           shape # None => shape' = shape,
           shape' # None => \E S \in SUBSET Nodes : shape' = ShardSpec(Cardinality(S))
    PROVE  JInv'
<1>1. /\ members' = members /\ job' = job
      /\ view' = [view EXCEPT ![n] = members[n]]
      /\ \A h \in Nodes : h # n => disk'[h] = disk[h]
  BY DEF StoreAssigned, IInv, Maps
<1>2. DOMAIN disk[n] = {}
  BY DEF IInv, Stored
<1>3. \A h \in Nodes : DOMAIN disk[h] \subseteq DOMAIN disk'[h]
  BY <1>1, <1>2
<1>4. \A h \in Nodes : \A i \in DOMAIN disk[h] :
         disk[h][i] # "good" => disk'[h][i] # "good"
  BY <1>1, <1>2
<1>5. \A h \in Nodes : view[h] # None => view'[h] = view[h]
  BY <1>1 DEF IInv, Maps
<1>6. \A m \in Nodes : JobOK(m)'
  BY <1>1, <1>3, <1>4, <1>5, JobStable DEF JInv
<1>7. Shaped'
  BY <1>1 DEF JInv, Shaped
<1> QED
  BY <1>6, <1>7 DEF JInv

\* Spoiling takes no copy away and makes none good.
LEMMA SpoilJ ==
    ASSUME IInv, JInv, NEW n \in Nodes, NEW i, Spoil(n, i)
    PROVE  JInv'
<1>1. /\ members' = members /\ job' = job /\ view' = view /\ shape' = shape
      /\ i \in DOMAIN disk[n] /\ disk' = [disk EXCEPT ![n][i] = "bad"]
  BY DEF Spoil, HeldShards
<1>2. /\ \A h \in Nodes : h # n => disk'[h] = disk[h]
      /\ disk'[n] = [disk[n] EXCEPT ![i] = "bad"]
  BY <1>1 DEF IInv, Maps
<1>3. /\ DOMAIN disk'[n] = DOMAIN disk[n]
      /\ \A k \in DOMAIN disk[n] : disk'[n][k] = IF k = i THEN "bad" ELSE disk[n][k]
  BY <1>1, <1>2, SMT
<1>4. \A h \in Nodes : DOMAIN disk[h] \subseteq DOMAIN disk'[h]
  BY <1>2, <1>3
<1>5. \A h \in Nodes : \A k \in DOMAIN disk[h] :
         disk[h][k] # "good" => disk'[h][k] # "good"
  BY <1>2, <1>3
<1>6. \A m \in Nodes : JobOK(m)'
  BY <1>1, <1>4, <1>5, JobStable DEF JInv
<1>7. Shaped'
  BY <1>1 DEF JInv, Shaped
<1> QED
  BY <1>6, <1>7 DEF JInv

LEMMA InitJ == Init => JInv
<1> SUFFICES ASSUME Init PROVE JInv
  OBVIOUS
<1>1. \A n \in Nodes : n \in members[n] /\ job[n].phase = "none"
  BY DEF Init, NoJob
<1> QED
  BY <1>1 DEF Init, JInv, Shaped, JobOK

LEMMA NextJ == IInv /\ JInv /\ [Next]_vars => JInv'
<1> SUFFICES ASSUME IInv, JInv, [Next]_vars PROVE JInv'
  OBVIOUS
<1>1. ASSUME NEW n \in Nodes, NEW h \in Nodes, Hello(n, h) PROVE JInv'
  <2>1. UNCHANGED <<shape, disk, view, job>>
    BY <1>1 DEF Hello
  <2>2. \A m \in Nodes : members[m] \subseteq members'[m]
    BY <1>1 DEF Hello, Merge, IInv, Maps
  <2>3. \A m \in Nodes : JobOK(m)'
    BY <2>1, <2>2, JobStable DEF JInv
  <2>4. Shaped'
    BY <2>1, <2>2 DEF JInv, Shaped
  <2> QED
    BY <2>3, <2>4 DEF JInv
<1>2. CASE UNCHANGED <<members, shape, disk, view, job>>
  <2>1. \A m \in Nodes : JobOK(m)'
    BY <1>2, JobStable DEF JInv
  <2>2. Shaped'
    BY <1>2 DEF JInv, Shaped
  <2> QED
    BY <2>1, <2>2 DEF JInv
<1>3. ASSUME NEW n \in Nodes, ProduceBlock(n) PROVE JInv'
  <2>1. members[n] \in SUBSET Nodes /\ view[n] = None
    BY <1>3 DEF ProduceBlock, IInv, Maps, Stored
  <2>2. /\ shape = None /\ shape' = ShardSpec(Cardinality(members[n]))
        /\ StoreAssigned(n, shape')
    BY <1>3 DEF ProduceBlock
  <2> QED
    BY <2>1, <2>2, StoreJ
<1>4. ASSUME NEW n \in Nodes, ApplyBlock(n) PROVE JInv'
  <2>1. /\ shape # None /\ shape' = shape /\ view[n] = None
        /\ StoreAssigned(n, shape)
    BY <1>4 DEF ApplyBlock
  <2>2. \E S \in SUBSET Nodes : shape' = ShardSpec(Cardinality(S))
    BY <2>1 DEF JInv, Shaped
  <2> QED
    BY <2>1, <2>2, StoreJ
<1>5. ASSUME NEW n \in Nodes, NEW i \in DOMAIN disk[n], Spoil(n, i) PROVE JInv'
  BY <1>5, SpoilJ
<1>6. ASSUME NEW n \in Nodes, NEW i \in DOMAIN disk[n], NEW h \in Nodes, Audit(n, i, h)
      PROVE  JInv'
  BY <1>2, <1>6 DEF Audit
<1>7. ASSUME NEW n \in Nodes, NEW h \in Nodes, Expire(n, h) PROVE JInv'
  BY <1>2, <1>7 DEF Expire
<1>8. CASE UNCHANGED vars
  BY <1>2, <1>8 DEF vars
<1> QED
  BY <1>1, <1>3, <1>4, <1>5, <1>6, <1>7, <1>8, BeginJ, AlreadyJ, FetchJ, EndJ
     DEF Next

LEMMA AlwaysJInv == Spec => []JInv
BY AlwaysIInv, InitJ, NextJ, PTL DEF Spec

\* When all members stored the block with one view, the copies of a shard are
\* its holders by that view.
LEMMA CopiesAreHolders ==
    ASSUME IInv, NEW n \in Nodes, Agreed(n), NEW i \in Index
    PROVE  {m \in members[n] : Holds(m, i)} = Holders(members[n], i)
<1>1. members[n] \in SUBSET Nodes /\ members[n] # None
  BY NoneAssumption DEF IInv, Maps
<1>2. \A m \in members[n] : DOMAIN disk[m] = AssignedShards(m, members[n], Total(shape))
  BY <1>1 DEF IInv, Stored, Agreed
<1>3. \A m \in members[n] : Holds(m, i) <=> m \in Holders(members[n], i)
  BY <1>2 DEF Holds, HeldShards, AssignedShards, Index
<1>4. Holders(members[n], i) \subseteq members[n]
  BY DEF Holders
<1> QED
  BY <1>3, <1>4

\* Once the members agree on the membership, every shard of the block has
\* exactly the copies Replication asks for, whatever the order in which the
\* nodes met and stored it (storeAssignedShards, Holders).
THEOREM AlwaysFullyReplicated == Spec => []FullyReplicated
<1>1. IInv /\ JInv => FullyReplicated
  <2> SUFFICES ASSUME IInv, JInv, NEW n \in Nodes, Agreed(n), NEW i \in Index
               PROVE  Cardinality({m \in members[n] : Holds(m, i)}) =
                         Min({Replication(Cardinality(members[n])), Cardinality(members[n])})
    BY DEF FullyReplicated
  <2>1. members[n] \in SUBSET Nodes /\ members[n] # None /\ n \in members[n]
    BY NoneAssumption DEF IInv, Maps, JInv, Shaped
  <2>2. shape # None
    BY <2>1 DEF IInv, Stored, Agreed
  <2>3. i \in DOMAIN Rank
    BY <2>2, ShapeOK DEF JInv
  <2>4. {m \in members[n] : Holds(m, i)} = Holders(members[n], i)
    BY CopiesAreHolders
  <2> QED
    BY <2>1, <2>3, <2>4, HoldersCount
<1> QED
  BY <1>1, AlwaysIInv, AlwaysJInv, PTL

\* Under an agreed membership, a reconstruction that fails has tried every
\* shard, and more than M of them have no good copy on a member that answers
\* (reconstructShards, FetchShard): no body is lost that K shards could rebuild.
THEOREM AlwaysTolerates == Spec => []Tolerates
<1>1. IInv /\ JInv => Tolerates
  <2> SUFFICES ASSUME IInv, JInv, NEW n \in Nodes, job[n].phase = "failed",
                      job[n].agreed, job[n].view = members[n]
               PROVE  Cardinality({i \in Index :
                         \A h \in members[n] : Useless(n, h, i)}) > shape.M
    BY DEF Tolerates
  <2> DEFINE got == DOMAIN job[n].shards
             gone == {i \in Index : \A h \in members[n] : Useless(n, h, i)}
  <2>1. /\ shape # None /\ got \subseteq Index /\ Agreed(n)
        /\ job[n].at \in Nat /\ job[n].at >= Total(shape)
        /\ Cardinality(got) < shape.K
        /\ \A i \in Index \ got : i < job[n].at =>
              \A h \in Holders(members[n], i) : Useless(n, h, i)
    BY DEF JInv, JobOK
  <2>2. /\ shape.K \in Nat /\ shape.M \in Nat /\ Total(shape) = shape.K + shape.M
        /\ IsFiniteSet(Index) /\ Cardinality(Index) = shape.K + shape.M
    BY <2>1, ShapeOK DEF JInv
  <2>3. \A i \in Index : i < job[n].at
    BY <2>1, <2>2, SMT DEF Index
  <2>4. ASSUME NEW i \in Index \ got, NEW h \in members[n] PROVE Useless(n, h, i)
    <3>1. CASE h \in Holders(members[n], i)
      BY <2>1, <2>3, <2>4, <3>1
    <3>2. CASE h \notin Holders(members[n], i)
      <4>1. ~ Holds(h, i)
        BY <2>1, <2>4, <3>2, CopiesAreHolders
      <4> QED
        BY <4>1 DEF Useless, Good
    <3> QED
      BY <3>1, <3>2
  <2>5. Index \ got \subseteq gone
    BY <2>4
  <2>6. IsFiniteSet(gone) /\ gone \subseteq Index
    BY <2>2, FS_Subset
  <2> HIDE DEF gone, got
  <2>7. /\ IsFiniteSet(got) /\ Cardinality(got) \in Nat
        /\ Cardinality(Index \ got) = Cardinality(Index) - Cardinality(got)
    <3>1. IsFiniteSet(got) /\ Cardinality(got) \in Nat
      BY <2>1, <2>2, FS_Subset, FS_CardinalityType
    <3>2. Index \cap got = got
      BY <2>1
    <3>3. Cardinality(Index \ got) = Cardinality(Index) - Cardinality(Index \cap got)
      BY <2>2, FS_Difference
    <3> QED
      BY <3>1, <3>2, <3>3
  <2>8. Cardinality(Index \ got) <= Cardinality(gone) /\ Cardinality(gone) \in Nat
    BY <2>5, <2>6, FS_Subset, FS_CardinalityType
  <2>9. Cardinality(gone) > shape.M
    BY <2>1, <2>2, <2>7, <2>8, SMT
  <2> QED
    BY <2>9 DEF gone
<1> QED
  BY <1>1, AlwaysIInv, AlwaysJInv, PTL

=============================================================================
