------------------------------- MODULE Shards -------------------------------
(***************************************************************************)
(* One block body between the nodes that hold its erasure shards: the      *)
(* shape and the replication the network picks (internal/netparams), the   *)
(* placement by rendezvous hashing (internal/rendezvous), what a node      *)
(* stores when it applies the block (chain.storeAssignedShards), the slow  *)
(* path that rebuilds the body (chain.reconstructShards, FetchShard), the  *)
(* storage audit (p2p.AuditRound, internal/pos) and the local ban list.    *)
(*                                                                         *)
(* Every node places and looks for shards by its own view of the           *)
(* membership at that moment.  A shard is "good" or it is not: VerifyShard *)
(* tells them apart, and two spoilt copies differ.  Reed-Solomon coding    *)
(* rebuilds the body from any K good shards (external).                    *)
(***************************************************************************)
EXTENDS Naturals, FiniteSets, FiniteSetsExt, Functions

CONSTANTS
    Nodes,
    Rank,        \* shard index -> node -> its place by descending HRW score
    Flaky,       \* the nodes that may fail to answer a request
    Rotten,      \* the nodes whose shards may be spoilt
    MaxSpoilt,   \* bound: how many shards are
    Threshold,   \* strikes before a ban
    Readers,     \* bound: the nodes that reconstruct and audit
    None

ASSUME NodesAssumption == IsFiniteSet(Nodes)

ASSUME ThresholdAssumption == Threshold \in Nat \ {0}

VARIABLES
    members,     \* node -> MemberIDs(): itself and the peers it knows
    shape,       \* the header's ShardSpec, None before the block is produced
    disk,        \* node -> the shards it holds: index -> "good" or "bad"
    view,        \* history: node -> members when it stored its shards, or None
    job,         \* node -> its reconstruction
    strikes,     \* node -> peer -> Banlist.strikes
    banned,      \* node -> the peers it has banned
    missed       \* node -> the peers to which it gave a Miss

vars == <<members, shape, disk, view, job, strikes, banned, missed>>

-----------------------------------------------------------------------------
(* Shape, replication and placement *)

minTotalShards == 3
maxTotalShards == 24

ShardSpec(n) ==
    LET t == Min({Max({n, minTotalShards}), maxTotalShards})
        m == Max({t \div 3, 1})
    IN  [K |-> Max({t - m, 1}), M |-> m]

ASSUME NoneAssumption ==
    \A S \in SUBSET Nodes : None # S /\ None # ShardSpec(Cardinality(S))

Total(s) == s.K + s.M

\* Every shard of any block has its ranking, without ties.
ASSUME RankAssumption ==
    /\ \A i \in DOMAIN Rank : Rank[i] \in [Nodes -> Nat] /\ IsInjective(Rank[i])
    /\ \A S \in SUBSET Nodes :
          0 .. Total(ShardSpec(Cardinality(S))) - 1 \subseteq DOMAIN Rank

Index == 0 .. Total(shape) - 1

Replication(n) == IF n < 3 THEN 1 ELSE IF n < 8 THEN 2 ELSE 3

\* The nodes that are better placed for shard i than h.
Better(nodes, i, h) == {m \in nodes : Rank[i][m] < Rank[i][h]}

\* Mutant: one holder too few.
HoldersOneLess(nodes, i) ==
    {h \in nodes : Cardinality(Better(nodes, i, h)) < Replication(Cardinality(nodes)) - 1}

\* Holders of shard i for the membership `nodes`.
Holders(nodes, i) ==
    {h \in nodes : Cardinality(Better(nodes, i, h)) < Replication(Cardinality(nodes))}

AssignedShards(n, nodes, total) == {i \in 0 .. total - 1 : n \in Holders(nodes, i)}

-----------------------------------------------------------------------------
(* Discovery and storing *)

\* The peerstore of n with `peers` added.
Merge(n, peers) == members[n] \cup peers

\* sayHello(m) by n, with the answer: each learns the other, and n everyone m
\* knows.
Hello(n, m) ==
    /\ n # m
    /\ members' = [members EXCEPT ![m] = Merge(m, {n}),
                                  ![n] = Merge(n, members[m] \cup {m})]
    /\ UNCHANGED <<shape, disk, view, job, strikes, banned, missed>>

\* The K data and M parity shards of the body.
Encode(s) == [i \in 0 .. Total(s) - 1 |-> "good"]

\* storeAssignedShards on node n.
StoreAssigned(n, s) ==
    /\ disk' = [disk EXCEPT ![n] =
                   Restrict(Encode(s), AssignedShards(n, members[n], Total(s)))]
    /\ view' = [view EXCEPT ![n] = members[n]]
    /\ UNCHANGED <<members, job, strikes, banned, missed>>

ProduceBlock(n) ==
    /\ shape = None
    /\ shape' = ShardSpec(Cardinality(members[n]))
    /\ StoreAssigned(n, shape')

\* A node applies the block from gossip.  One that gets the header by fast
\* sync never does.
ApplyBlock(n) ==
    /\ shape # None
    /\ view[n] = None
    /\ StoreAssigned(n, shape)
    /\ UNCHANGED shape

HeldShards(n) == DOMAIN disk[n]

Holds(h, i) == i \in HeldShards(h)
Good(h, i) == Holds(h, i) /\ disk[h][i] = "good"
Bad(h, i) == Holds(h, i) /\ disk[h][i] = "bad"

\* The environment damages a shard.
Spoil(n, i) ==
    /\ Cardinality({c \in Nodes \X Index : Bad(c[1], c[2])}) < MaxSpoilt
    /\ n \in Rotten
    /\ i \in HeldShards(n)
    /\ disk' = [disk EXCEPT ![n][i] = "bad"]
    /\ UNCHANGED <<members, shape, view, job, strikes, banned, missed>>

-----------------------------------------------------------------------------
(* Reconstruction *)

NoJob == [phase |-> "none", at |-> 0, shards |-> [i \in {} |-> "good"],
          view |-> {}, agreed |-> FALSE, held |-> {}, lost |-> {}]

\* Mutant: local shards are taken without VerifyShard.
LocalUnverified(n) == disk[n]

\* The local shards that pass VerifyShard.
Local(n) == Restrict(disk[n], {j \in HeldShards(n) : Good(n, j)})

\* All nodes that n knows stored the block, with the view n has now.
Agreed(n) == \A m \in members[n] : view[m] = members[n]

\* History: the view, whether it is agreed, the good copies when the job
\* starts, and in `lost` the holders that give no answer because they are
\* banned or silent.
BeginJob(n) ==
    /\ shape # None
    /\ job[n].phase # "run"
    /\ job' = [job EXCEPT ![n] =
                  [NoJob EXCEPT !.phase = "run", !.shards = Local(n),
                                !.view = members[n], !.agreed = Agreed(n),
                                !.held = {c \in Nodes \X Index : Good(c[1], c[2])}]]
    /\ UNCHANGED <<members, shape, disk, view, strikes, banned, missed>>

Have(n) == Cardinality(DOMAIN job[n].shards)

\* Mutant: the last shard is never tried.
FetchingButLast(n) == job[n].phase = "run" /\ Have(n) < shape.K
                         /\ job[n].at < Total(shape) - 1

Fetching(n) == job[n].phase = "run" /\ Have(n) < shape.K /\ job[n].at < Total(shape)

Already(n) ==
    /\ Fetching(n)
    /\ job[n].at \in DOMAIN job[n].shards
    /\ job' = [job EXCEPT ![n].at = @ + 1]
    /\ UNCHANGED <<members, shape, disk, view, strikes, banned, missed>>

\* Mutant: a holder that does not have the shard is struck like a lying one.
StruckForAbsence(h, i) == ~ Good(h, i)

\* A holder is struck if its bytes fail VerifyShard.
Struck(h, i) == Bad(h, i)

\* FetchShard(at): the holders are asked in order, the banned ones are left
\* out and some do not answer, until one serves the genuine shard; those who
\* served something else before are struck.
FetchShard(n) ==
    LET i == job[n].at
        holders == Holders(members[n], i) \ {n}
    IN  /\ Fetching(n)
        /\ i \notin DOMAIN job[n].shards
        /\ \E silent \in SUBSET (Flaky \cap holders) :
              LET out == silent \cup banned[n]
                  asked == holders \ out
                  serving == {h \in asked : Good(h, i)}
                  tried == {h \in asked : Better(serving, i, h) = {}}
                  liars == {h \in tried : Struck(h, i)}
              IN  /\ strikes' = [strikes EXCEPT ![n] =
                        [h \in Nodes |-> IF h \in liars /\ @[h] < Threshold
                                         THEN @[h] + 1 ELSE @[h]]]
                  /\ banned' = [banned EXCEPT ![n] =
                        @ \cup {h \in liars : strikes'[n][h] >= Threshold}]
                  /\ job' = [job EXCEPT
                        ![n].at = @ + 1,
                        ![n].lost = @ \cup {<<h, i>> : h \in out},
                        ![n].shards = IF serving = {} THEN @
                                      ELSE [j \in DOMAIN @ \cup {i} |->
                                               IF j = i THEN "good" ELSE @[j]]]
        /\ UNCHANGED <<members, shape, disk, view, missed>>

\* erasure.Reconstruct, or ErrReconstruct.
EndJob(n) ==
    /\ job[n].phase = "run"
    /\ ~ Fetching(n)
    /\ job' = [job EXCEPT ![n] = IF Have(n) >= shape.K
                                 THEN [NoJob EXCEPT !.phase = "rebuilt"]
                                 ELSE [@ EXCEPT !.phase = "failed"]]
    /\ UNCHANGED <<members, shape, disk, view, strikes, banned, missed>>

\* A ban has run out when it is next looked at.
Expire(n, h) ==
    /\ h \in banned[n]
    /\ banned' = [banned EXCEPT ![n] = @ \ {h}]
    /\ strikes' = [strikes EXCEPT ![n][h] = 0]
    /\ UNCHANGED <<members, shape, disk, view, job, missed>>

-----------------------------------------------------------------------------
(* Audit *)

\* Mutant: every member is challenged, whether it is a holder or not.
ChallengedEveryone(n, i) == members[n] \ {n}

Challenged(n, i) == Holders(members[n], i) \ {n}

Miss(n, h) == missed' = [missed EXCEPT ![n] = @ \cup {h}]

\* One challenge of AuditRound.  The proof matches if both have the genuine
\* bytes; a holder without the shard, or without an answer, misses.
Audit(n, i, h) ==
    /\ Holds(n, i)
    /\ h \in Challenged(n, i)
    /\ \/ ~ (Good(n, i) /\ Good(h, i))
       \/ h \in Flaky
    /\ Miss(n, h)
    /\ UNCHANGED <<members, shape, disk, view, job, strikes, banned>>

-----------------------------------------------------------------------------

Init ==
    /\ members = [n \in Nodes |-> {n}]
    /\ shape = None
    /\ disk = [n \in Nodes |-> NoJob.shards]
    /\ view = [n \in Nodes |-> None]
    /\ job = [n \in Nodes |-> NoJob]
    /\ strikes = [n \in Nodes |-> [h \in Nodes |-> 0]]
    /\ banned = [n \in Nodes |-> {}]
    /\ missed = [n \in Nodes |-> {}]

Next ==
    \E n \in Nodes :
       \/ \E h \in Nodes : Hello(n, h) \/ Expire(n, h)
       \/ ProduceBlock(n) \/ ApplyBlock(n)
       \/ \E i \in DOMAIN disk[n] : Spoil(n, i)
       \/ /\ n \in Readers
          /\ \/ \E i \in DOMAIN disk[n], h \in Nodes : Audit(n, i, h)
             \/ BeginJob(n) \/ Already(n) \/ FetchShard(n) \/ EndJob(n)

Spec == Init /\ [][Next]_vars

-----------------------------------------------------------------------------
(* Properties *)

\* A body is rebuilt from genuine shards only, whatever peers serve and
\* whatever happened to the local copies (VerifyShard, reconstructShards).
OnlyGenuine ==
    \A n \in Nodes : \A i \in DOMAIN job[n].shards : job[n].shards[i] = "good"

\* h cannot serve shard i to the job of n.
Useless(n, h, i) == \/ <<h, i>> \notin job[n].held \/ ~ Good(h, i)
                    \/ <<h, i>> \in job[n].lost

\* With an agreed membership a body can be rebuilt unless more than M of its
\* shards have no good copy on any member that answers: placement, lookup and
\* the order in which shards are tried lose nothing (storeAssignedShards,
\* FetchShard, reconstructShards).
Tolerates ==
    \A n \in Nodes :
       job[n].phase = "failed" /\ job[n].agreed /\ job[n].view = members[n] =>
          Cardinality({i \in Index :
                          \A h \in members[n] : Useless(n, h, i)}) > shape.M

\* With an agreed membership every shard has as many copies as Replication
\* asks for, none more (Holders, IsHolder, AssignedShards).
FullyReplicated ==
    \A n \in Nodes :
       Agreed(n) =>
          \A i \in Index :
             Cardinality({m \in members[n] : Holds(m, i)}) =
                Min({Replication(Cardinality(members[n])), Cardinality(members[n])})

\* A node strikes and bans only peers whose shards are spoilt: absence,
\* silence and a different view of the membership are forgiven (FetchShard,
\* Banlist.Strike).
StrikesDeserved ==
    \A n, h \in Nodes : strikes[n][h] > 0 \/ h \in banned[n] =>
                           \E i \in DOMAIN disk[h] : Bad(h, i)

\* With an agreed membership, a Miss is given only for a spoilt copy, the
\* auditor's or the holder's, or for silence: "Honest holders score a pass"
\* (AuditRound).
AuditFair ==
    [][\A n, h \in Nodes :
         h \in missed'[n] \ missed[n] /\ Agreed(n) =>
            h \in Flaky \/ \E i \in Index : Bad(n, i) \/ Bad(h, i)]_vars

\* "Lose up to `m-k` shard-holders per block and the block still
\* reconstructs" (README.md:37): a body can be rebuilt unless more than M of
\* its shards have no good copy on any node that answers, if the reader knew
\* all nodes before it started.
RebuildsWhileHeld ==
    \A n \in Nodes :
       job[n].phase = "failed" /\ job[n].view = Nodes =>
          Cardinality({i \in Index : \A h \in Nodes : Useless(n, h, i)}) > shape.M

=============================================================================
