----------------------------- MODULE ChainProofs ----------------------------
(***************************************************************************)
(* The replay base and finality, and fork choice: for any block tree,      *)
(* blocks that do not apply or are not authorized, any number of crashes   *)
(* between any two disk writes, and any interleaving of the node's loops   *)
(* with gossip.                                                            *)
(*                                                                         *)
(* The replay base is a pair, a block and an account state, which is       *)
(* advanced one block at a time and written by other steps than the live   *)
(* state.  That the pair stays true needs more than BaseOK, that the base  *)
(* on disk is the one in memory and true: fork choice has one best block   *)
(* (TreeOK), the header files that a restart reads have a highest block    *)
(* (HeadersOK), how far the operation that advances the base has come      *)
(* (OpOK), and what a sync has fetched (SyncOK).                           *)
(***************************************************************************)
EXTENDS Chain, WellFoundedInduction, TLAPS

\* Most steps are first-order; the few that calculate name SMT.
USE Zenon

-----------------------------------------------------------------------------
(* The block tree *)

\* A set of numbers that is not empty has a least one.
LEMMA LeastNumber ==
    ASSUME NEW T, T \subseteq Nat, T # {}
    PROVE  \E x \in T : \A y \in T : x <= y
<1> DEFINE R == {ss \in Nat \X Nat : ss[1] < ss[2]}
<1>1. IsWellFoundedOn(R, Nat)
  BY NatLessThanWellFounded DEF OpToRel
<1> HIDE DEF R
<1>2. \E x \in T : \A y \in T : ~ (<<y, x>> \in R)
  BY <1>1, WFMin
<1>3. PICK x \in T : \A y \in T : ~ (<<y, x>> \in R)
  BY <1>2
<1>4. \A z, y \in Nat : y < z => <<y, z>> \in R
  BY DEF R
<1>5. \A y \in T : ~ (y < x)
  BY <1>3, <1>4
<1>6. \A y \in T : x <= y
  BY <1>5, SMT
<1> QED
  BY <1>6

\* Induction over the tree: what holds of genesis, and of a block if it holds of
\* its parent, holds of all blocks.
LEMMA BlockInduction ==
    ASSUME NEW S, Genesis \in S,
           \A b \in Blocks \ {Genesis} : parent[b] \in S => b \in S
    PROVE  Blocks \subseteq S
<1> SUFFICES ASSUME Blocks \ S # {} PROVE FALSE
  OBVIOUS
<1> DEFINE T == {height[b] : b \in Blocks \ S}
<1>1. T \subseteq Nat /\ T # {}
  BY TreeAssumption, SMT
<1>2. PICK x \in T : \A y \in T : x <= y
  BY <1>1, LeastNumber
<1>3. PICK b \in Blocks \ S : height[b] = x
  BY <1>2
<1>4. b # Genesis /\ parent[b] \in Blocks /\ height[b] = height[parent[b]] + 1
  BY <1>3, TreeAssumption, SMT
<1>5. height[parent[b]] \in Nat /\ height[b] \in Nat
  BY <1>4, TreeAssumption, SMT
<1>6. parent[b] \in S
  <2>1. SUFFICES ASSUME parent[b] \notin S PROVE FALSE
    OBVIOUS
  <2>2. height[parent[b]] \in T
    BY <2>1, <1>4
  <2>3. height[b] <= height[parent[b]]
    BY <2>2, <1>2, <1>3
  <2> QED  BY <2>3, <1>4, <1>5, SMT
<1> QED
  BY <1>3, <1>4, <1>6

\* A block is among its ancestors, and so is genesis.
LEMMA AncEnds ==
    \A b \in Blocks : b \in anc[b] /\ Genesis \in anc[b] /\ anc[b] \subseteq Blocks
<1> DEFINE S == {b \in Blocks : b \in anc[b] /\ Genesis \in anc[b]}
<1>1. Genesis \in S
  BY TreeAssumption
<1>2. \A b \in Blocks \ {Genesis} : parent[b] \in S => b \in S
  BY TreeAssumption, SMT
<1>3. Blocks \subseteq S
  BY <1>1, <1>2, BlockInduction
<1> QED
  BY <1>3, TreeAssumption

\* The ancestors of an ancestor are ancestors.
LEMMA AncTransitive ==
    \A b \in Blocks : \A a \in anc[b] : anc[a] \subseteq anc[b]
<1> DEFINE S == {b \in Blocks : \A a \in anc[b] : anc[a] \subseteq anc[b]}
<1>1. Genesis \in S
  BY TreeAssumption
<1>2. ASSUME NEW b \in Blocks \ {Genesis}, parent[b] \in S
      PROVE  b \in S
  <2>1. anc[b] = {b} \cup anc[parent[b]]
    BY TreeAssumption
  <2>2. \A a \in anc[parent[b]] : anc[a] \subseteq anc[b]
    BY <1>2, <2>1
  <2> QED  BY <2>1, <2>2
<1>3. Blocks \subseteq S
  BY <1>1, <1>2, BlockInduction
<1> QED
  BY <1>3

\* A proper ancestor is lower.
LEMMA AncLower ==
    \A b \in Blocks : \A a \in anc[b] : a # b => height[a] < height[b]
<1> DEFINE S == {b \in Blocks : \A a \in anc[b] : a # b => height[a] < height[b]}
<1>1. Genesis \in S
  BY TreeAssumption
<1>2. ASSUME NEW b \in Blocks \ {Genesis}, parent[b] \in S
      PROVE  b \in S
  <2>1. /\ anc[b] = {b} \cup anc[parent[b]]
        /\ height[b] = height[parent[b]] + 1 /\ parent[b] \in Blocks
    BY TreeAssumption
  <2>2. \A a \in anc[parent[b]] : a \in Blocks /\ height[a] \in Nat
    BY <2>1, TreeAssumption
  <2>3. height[parent[b]] \in Nat
    BY <2>1, TreeAssumption
  <2>4. \A a \in anc[parent[b]] : height[a] <= height[parent[b]]
    BY <1>2, <2>2, <2>3, SMT
  <2>5. \A a \in anc[b] : a # b => height[a] < height[b]
    BY <2>1, <2>2, <2>3, <2>4, SMT
  <2> QED  BY <2>5
<1>3. Blocks \subseteq S
  BY <1>1, <1>2, BlockInduction
<1> QED
  BY <1>3

\* From a proper ancestor there is a next block on the way to the tip.
LEMMA AncNext ==
    \A b \in Blocks : \A a \in anc[b] :
       a # b => \E c \in anc[b] \ {Genesis} : parent[c] = a
<1> DEFINE S == {b \in Blocks : \A a \in anc[b] :
                    a # b => \E c \in anc[b] \ {Genesis} : parent[c] = a}
<1>1. Genesis \in S
  BY TreeAssumption
<1>2. ASSUME NEW b \in Blocks \ {Genesis}, parent[b] \in S
      PROVE  b \in S
  <2>1. anc[b] = {b} \cup anc[parent[b]]
    BY TreeAssumption
  <2>2. SUFFICES ASSUME NEW a \in anc[b], a # b
                 PROVE  \E c \in anc[b] \ {Genesis} : parent[c] = a
    OBVIOUS
  <2>3. CASE a = parent[b]
    BY <2>1, <2>3
  <2>4. CASE a # parent[b]
    BY <1>2, <2>1, <2>2, <2>4
  <2> QED  BY <2>3, <2>4
<1> HIDE DEF S
<1>3. Blocks \subseteq S
  BY <1>1, <1>2, BlockInduction
<1> USE DEF S
<1> QED
  BY <1>3

\* One step of a walk from `at` to `tip`.
LEMMA TowardStep ==
    ASSUME NEW tip \in Blocks, NEW at \in anc[tip], at # tip
    PROVE  /\ Toward(at, tip) \in anc[tip] /\ Toward(at, tip) \in Blocks \ {Genesis}
           /\ parent[Toward(at, tip)] = at
           /\ anc[Toward(at, tip)] = {Toward(at, tip)} \cup anc[at]
           /\ Post[Toward(at, tip)] = Append(Post[at], Toward(at, tip))
           /\ height[Toward(at, tip)] = height[at] + 1
<1>1. \E c \in anc[tip] \ {Genesis} : parent[c] = at
  BY AncNext
<1>2. /\ Toward(at, tip) \in anc[tip] \ {Genesis}
      /\ parent[Toward(at, tip)] = at
  BY <1>1 DEF Toward
<1>3. anc[tip] \subseteq Blocks
  BY AncEnds
<1> QED
  BY <1>2, <1>3, TreeAssumption

-----------------------------------------------------------------------------
(* The invariant that crashes and syncs keep *)

\* The known blocks have weights, and one of them is the best.
TreeOK(tr) ==
    /\ DOMAIN tr \subseteq Blocks
    /\ \A b \in DOMAIN tr : tr[b] \in Nat
    /\ \/ DOMAIN tr = {}
       \/ \E b \in DOMAIN tr : \A c \in DOMAIN tr \ {b} : Heavier(tr, b, c)

\* The header files hold blocks, and one of them is the highest.
HeadersOK ==
    /\ DOMAIN headers \subseteq Nat
    /\ \A h \in DOMAIN headers : headers[h] \in Blocks
    /\ \/ DOMAIN headers = {}
       \/ \E m \in DOMAIN headers : \A k \in DOMAIN headers : k <= m

\* A replay base with the state of its block.
TrueBase(r) == \E b \in Blocks : r = [id |-> b, st |-> Post[b]]

\* The replay base on disk is the one in memory, and true.
BaseOK == base = baseFile /\ (base = None \/ TrueBase(base))

\* Before the first header is written there is nothing.
FreshOK ==
    DOMAIN headers = {} =>
       /\ head = None /\ base = None
       /\ st = <<>> /\ stateFile = <<>>
       /\ \/ op.phase = "idle"
          \/ op.phase = "sync" /\ op.at = None

\* The operation in progress is on its way to its tip, and what it computes on
\* the side is the state of the block it has reached.
OpOK ==
    /\ op = Operation(op.phase, op.at, op.tip, op.ns)
    /\ op.tip \in Blocks
    /\ op.phase \in {"forward", "commit", "replay", "install", "finalize"} =>
          op.at \in anc[op.tip]
    /\ op.phase = "commit" => op.at # op.tip
    /\ op.phase \in {"replay", "finalize"} => op.ns = Post[op.at]
    /\ op.phase \in {"replay", "install"} => TrueBase(base) /\ base.id \in anc[op.tip]
    /\ op.phase = "finalize" => TrueBase(base) /\ base.id \in anc[op.at]
    /\ op.phase = "genesis" => st = <<Genesis>> /\ base = None
    /\ op.phase = "sync" => /\ op.tip \in SyncTips /\ op.ns = Post[op.tip]
                            /\ op.at = None \/ op.at \in anc[op.tip]

SyncOK == sync # None => sync.tip \in SyncTips /\ sync.snap = Post[sync.tip]

AInv ==
    /\ TreeOK(tree)
    /\ HeadersOK
    /\ BaseOK
    /\ FreshOK
    /\ OpOK
    /\ SyncOK

\* A peer serves the state of the head whose headers it served before.
SnapshotsMatch == \A p \in SyncTips : Snapshots[p] \subseteq {p}

-----------------------------------------------------------------------------
(* Its operators *)

\* A tree with one more block is a tree, and the other weights stay.
LEMMA AddOK ==
    ASSUME NEW tr, TreeOK(tr), NEW b \in Blocks
    PROVE  /\ TreeOK(Add(tr, b)) /\ DOMAIN Add(tr, b) = DOMAIN tr \cup {b}
           /\ \A c \in DOMAIN tr : Add(tr, b)[c] = tr[c]
<1>1. CASE b \in DOMAIN tr
  BY <1>1 DEF Add
<1>2. CASE b \notin DOMAIN tr
  <2> DEFINE w == IF b # Genesis /\ parent[b] \in DOMAIN tr THEN tr[parent[b]] + 1 ELSE 1
             new == [c \in DOMAIN tr \cup {b} |-> IF c # b THEN tr[c] ELSE w]
  <2>1. Add(tr, b) = new
    BY <1>2 DEF Add
  <2>2. w \in Nat
    BY SMT DEF TreeOK
  <2> HIDE DEF w
  <2>3. DOMAIN new = DOMAIN tr \cup {b} /\ new[b] = w
        /\ \A c \in DOMAIN tr : new[c] = tr[c]
    BY <1>2
  <2> HIDE DEF new
  <2>4. DOMAIN new \subseteq Blocks /\ \A c \in DOMAIN new : new[c] \in Nat
    BY <2>2, <2>3 DEF TreeOK
  <2>5. \E a \in DOMAIN new : \A c \in DOMAIN new \ {a} : Heavier(new, a, c)
    <3>1. CASE DOMAIN tr = {}
      BY <3>1, <2>3
    <3>2. CASE DOMAIN tr # {}
      <4>1. PICK a \in DOMAIN tr : \A c \in DOMAIN tr \ {a} : Heavier(tr, a, c)
        BY <3>2 DEF TreeOK
      <4>2. a # b /\ a \in Blocks /\ rank[a] \in Nat /\ rank[b] \in Nat /\ rank[a] # rank[b]
        BY <1>2, TreeAssumption DEF TreeOK
      <4>3. \A c \in DOMAIN tr \ {a} : Heavier(new, a, c)
        BY <4>1, <2>3 DEF Heavier
      <4>4. CASE Heavier(new, a, b)
        BY <4>3, <4>4, <2>3
      <4>5. CASE ~ Heavier(new, a, b)
        <5>1. Heavier(new, b, a)
          BY <4>2, <4>5, <2>3, <2>4, SMT DEF Heavier
        <5>2. \A c \in DOMAIN tr \ {a} : Heavier(new, b, c)
          <6> TAKE c \in DOMAIN tr \ {a}
          <6>1. new[a] \in Nat /\ new[b] \in Nat /\ new[c] \in Nat
            BY <2>3, <2>4
          <6>2. c \in Blocks /\ rank[c] \in Nat
            BY <2>3, <2>4, TreeAssumption
          <6> QED  BY <6>1, <6>2, <5>1, <4>2, <4>3, SMT DEF Heavier
        <5> QED  BY <5>1, <5>2, <2>3
      <4> QED  BY <4>4, <4>5
    <3> QED  BY <3>1, <3>2
  <2> QED  BY <2>1, <2>3, <2>4, <2>5 DEF TreeOK
<1> QED
  BY <1>1, <1>2

LEMMA BestOK ==
    ASSUME NEW tr, TreeOK(tr), DOMAIN tr # {}
    PROVE  /\ Best(tr) \in DOMAIN tr /\ Best(tr) \in Blocks
           /\ \A c \in DOMAIN tr \ {Best(tr)} : Heavier(tr, Best(tr), c)
  BY DEF TreeOK, Best

\* What PutHeader leaves behind.
LEMMA PutHeaderOK ==
    ASSUME HeadersOK, NEW b \in Blocks, PutHeader(b)
    PROVE  /\ HeadersOK'
           /\ DOMAIN headers' = DOMAIN headers \cup {height[b]}
           /\ headers'[height[b]] = b
           /\ \A h \in DOMAIN headers : h # height[b] => headers'[h] = headers[h]
<1>1. height[b] \in Nat
  BY TreeAssumption
<1>2. /\ DOMAIN headers' = DOMAIN headers \cup {height[b]}
      /\ headers'[height[b]] = b
      /\ \A h \in DOMAIN headers : h # height[b] => headers'[h] = headers[h]
  BY DEF PutHeader
<1>3. DOMAIN headers' \subseteq Nat /\ \A h \in DOMAIN headers' : headers'[h] \in Blocks
  BY <1>1, <1>2 DEF HeadersOK
<1>4. \E m \in DOMAIN headers' : \A k \in DOMAIN headers' : k <= m
  <2>1. CASE DOMAIN headers = {}
    BY <2>1, <1>1, <1>2, SMT
  <2>2. CASE DOMAIN headers # {}
    <3>1. PICK m \in DOMAIN headers : \A k \in DOMAIN headers : k <= m
      BY <2>2 DEF HeadersOK
    <3>2. m \in Nat /\ DOMAIN headers \subseteq Nat
      BY DEF HeadersOK
    <3>3. CASE height[b] <= m
      BY <3>1, <3>3, <1>2
    <3>4. CASE ~ (height[b] <= m)
      <4>1. \A k \in DOMAIN headers' : k <= height[b]
        BY <3>1, <3>2, <3>4, <1>1, <1>2, SMT
      <4> QED  BY <4>1, <1>2
    <3> QED  BY <3>3, <3>4
  <2> QED  BY <2>1, <2>2
<1> QED
  BY <1>2, <1>3, <1>4 DEF HeadersOK

\* advanceFinality starts at the replay base or does not start.
LEMMA FinalityOK ==
    ASSUME BaseOK, NEW h \in Blocks, NEW bs
    PROVE  \/ Finality(h, bs) = Idle
           \/ /\ TrueBase(base) /\ base.id \in anc[h]
              /\ base.id \in Blocks /\ base.st = Post[base.id]
              /\ Finality(h, bs) = Operation("finalize", base.id, h, base.st)
  BY SMT DEF Finality, CanWalk, BaseOK, TrueBase

LEMMA IdleOK ==
    ASSUME op' = Idle
    PROVE  OpOK' /\ op'.phase = "idle"
  BY TreeAssumption DEF Idle, Operation, OpOK

LEMMA FinalityOpOK ==
    ASSUME BaseOK, NEW h \in Blocks, NEW bs, op' = Finality(h, bs), UNCHANGED base
    PROVE  OpOK' /\ op'.phase \in {"idle", "finalize"}
<1>1. CASE Finality(h, bs) = Idle
  BY <1>1, IdleOK
<1>2. CASE Finality(h, bs) # Idle
  <2>1. /\ TrueBase(base) /\ base.id \in anc[h]
        /\ base.id \in Blocks /\ base.st = Post[base.id]
        /\ op' = Operation("finalize", base.id, h, base.st)
    BY <1>2, FinalityOK
  <2>2. base.id \in anc[base.id]
    BY <2>1, AncEnds
  <2> QED  BY <2>1, <2>2, SMT DEF OpOK, Operation, TrueBase
<1> QED
  BY <1>1, <1>2

-----------------------------------------------------------------------------
(* The steps *)

LEMMA AInit == Init => AInv
<1> SUFFICES ASSUME Init PROVE AInv
  OBVIOUS
<1>1. TreeOK(tree) /\ HeadersOK
  BY DEF Init, TreeOK, HeadersOK
<1>2. OpOK /\ op.phase = "idle"
  BY TreeAssumption DEF Init, Idle, Operation, OpOK
<1>3. BaseOK /\ FreshOK /\ SyncOK
  BY <1>2 DEF Init, BaseOK, FreshOK, SyncOK
<1> QED
  BY <1>1, <1>2, <1>3 DEF AInv

LEMMA AGenesisHeader ==
    ASSUME AInv, GenesisHeader
    PROVE  AInv'
<1> USE DEF AInv
<1>1. /\ DOMAIN headers = {} /\ PutHeader(Genesis)
      /\ st' = Append(st, Genesis) /\ op' = Operation("genesis", Genesis, Genesis, <<>>)
      /\ UNCHANGED <<tree, base, baseFile, sync>>
  BY DEF GenesisHeader, loop
<1>2. st' = <<Genesis>> /\ base = None
  BY <1>1, SMT DEF FreshOK
<1>3. HeadersOK' /\ DOMAIN headers' # {}
  BY <1>1, PutHeaderOK, TreeAssumption
<1>4. OpOK'
  BY <1>1, <1>2, TreeAssumption DEF OpOK, Operation
<1> QED
  BY <1>1, <1>3, <1>4 DEF BaseOK, FreshOK, SyncOK

LEMMA AGenesisRecord ==
    ASSUME AInv, GenesisRecord
    PROVE  AInv'
<1> USE DEF AInv
<1>1. /\ op.phase = "genesis" /\ op' = [op EXCEPT !.phase = "save"]
      /\ base' = [id |-> Genesis, st |-> st] /\ baseFile' = base'
      /\ tree' = Add(tree, Genesis)
      /\ UNCHANGED <<st, headers, sync, stateFile>>
  BY DEF GenesisRecord, RecordBlock, loop
<1>2. TrueBase(base)'
  BY <1>1, TreeAssumption DEF OpOK, TrueBase
<1>3. TreeOK(tree')
  BY <1>1, AddOK, TreeAssumption
<1>4. OpOK' /\ DOMAIN headers' # {}
  BY <1>1 DEF OpOK, FreshOK, Operation
<1> QED
  BY <1>1, <1>2, <1>3, <1>4 DEF BaseOK, FreshOK, SyncOK, HeadersOK

\* A block is accepted, and reorgToBest starts its operation.
LEMMA AAcceptBlock ==
    ASSUME AInv, NEW b \in Blocks, AcceptBlock(b)
    PROVE  AInv'
<1> USE DEF AInv
<1>1. /\ head # None /\ tree' = Add(tree, b)
      /\ op' = ReorgToBest(tree', bodies' \cup hollow)
      /\ UNCHANGED <<head, st, base, headers, baseFile, sync, stateFile>>
  BY DEF AcceptBlock, RecordBlock, loop
<1>2. TreeOK(tree') /\ DOMAIN tree' # {}
  <2>1. TreeOK(Add(tree, b)) /\ DOMAIN Add(tree, b) = DOMAIN tree \cup {b}
    BY AddOK
  <2> QED BY <1>1, <2>1
<1>3. Best(tree') \in Blocks
  BY <1>2, BestOK
<1>4. DOMAIN headers # {}
  BY <1>1 DEF FreshOK
<1>5. OpOK'
  <2> DEFINE best == Best(tree')
             bs == bodies' \cup hollow
  <2>1. CASE op' = Idle
    BY <2>1, IdleOK
  <2>2. CASE op' = Operation("forward", head, best, <<>>) /\ CanWalk(bs, best, head)
    BY <2>2, <1>3 DEF OpOK, Operation, CanWalk
  <2>3. CASE /\ op' = Operation("replay", base.id, best, base.st)
             /\ base # None /\ CanWalk(bs, best, base.id)
    BY <2>3, <1>1, <1>3, SMT DEF OpOK, Operation, CanWalk, BaseOK, TrueBase
  <2> QED  BY <2>1, <2>2, <2>3, <1>1 DEF ReorgToBest
<1> QED
  BY <1>1, <1>2, <1>4, <1>5 DEF BaseOK, FreshOK, SyncOK, HeadersOK

\* The steps that only move the operation on or execute a block.
LEMMA AWalk ==
    ASSUME AInv,
           ForwardApply \/ ReplayNext \/ ReplayDone \/ FinalizeNext \/ GenesisSave
    PROVE  AInv'
<1> USE DEF AInv
<1>1. /\ op.phase \in {"forward", "replay", "finalize", "save"}
      /\ UNCHANGED <<head, tree, base, headers, baseFile, sync>>
  BY DEF ForwardApply, ReplayNext, ReplayDone, FinalizeNext, GenesisSave, memory, disk, loop
<1>2. DOMAIN headers # {}
  BY <1>1 DEF FreshOK
<1>3. OpOK'
  <2>1. CASE op' = Idle
    BY <2>1, IdleOK
  <2>2. CASE ForwardApply /\ op' = [op EXCEPT !.phase = "commit"]
    BY <2>2 DEF ForwardApply, OpOK, Operation
  <2>3. CASE ReplayDone
    BY <2>3, <1>1 DEF ReplayDone, OpOK, Operation
  <2>4. CASE ReplayNext /\ op' = Operation("replay", NextBlock, op.tip, Append(op.ns, NextBlock))
    <3>1. op.phase = "replay" /\ op.at # op.tip /\ op.tip \in Blocks /\ op.at \in anc[op.tip]
      BY <2>4 DEF ReplayNext, OpOK
    <3>2. /\ NextBlock \in anc[op.tip]
          /\ Post[NextBlock] = Append(Post[op.at], NextBlock)
      BY <3>1, TowardStep DEF NextBlock
    <3> QED  BY <2>4, <3>1, <3>2, <1>1 DEF OpOK, Operation
  <2>5. CASE FinalizeNext /\ op' = Operation("finalize", NextBlock, op.tip, Append(op.ns, NextBlock))
    <3>1. op.phase = "finalize" /\ op.tip \in Blocks /\ op.at \in anc[op.tip]
      BY <2>5 DEF FinalizeNext, OpOK
    <3>2. height[op.tip] \in Nat
      BY <3>1, TreeAssumption
    <3>3. op.at # op.tip
      BY <2>5, <3>1, <3>2, ParamsAssumption, SMT DEF FinalizeNext
    <3>4. /\ NextBlock \in anc[op.tip]
          /\ anc[NextBlock] = {NextBlock} \cup anc[op.at]
          /\ Post[NextBlock] = Append(Post[op.at], NextBlock)
      BY <3>1, <3>3, TowardStep, SMT DEF NextBlock
    <3> QED  BY <2>5, <3>1, <3>4, <1>1 DEF OpOK, Operation
  <2> QED
    BY <2>1, <2>2, <2>3, <2>4, <2>5
    DEF ForwardApply, ReplayNext, FinalizeNext, GenesisSave
<1> QED
  BY <1>1, <1>2, <1>3 DEF BaseOK, FreshOK, SyncOK, HeadersOK

\* The steps that write a header of the branch or of the new block.
LEMMA AWrite ==
    ASSUME AInv, ForwardCommit \/ InstallNext \/ PersistBlock
    PROVE  AInv'
<1> USE DEF AInv
<1>1. UNCHANGED <<tree, base, baseFile, sync>>
  BY DEF ForwardCommit, InstallNext, PersistBlock, memory, loop
<1>2. /\ op.tip \in Blocks
      /\ ForwardCommit \/ InstallNext =>
            /\ op.at \in anc[op.tip] /\ op.at # op.tip
            /\ NextBlock \in anc[op.tip] /\ NextBlock \in Blocks
  <2>1. op.tip \in Blocks
    BY DEF OpOK
  <2>2. ASSUME ForwardCommit \/ InstallNext
        PROVE  op.at \in anc[op.tip] /\ op.at # op.tip
    BY <2>2 DEF ForwardCommit, InstallNext, OpOK
  <2> QED  BY <2>1, <2>2, TowardStep DEF NextBlock
<1>3. HeadersOK' /\ DOMAIN headers' # {}
  <2>1. CASE ForwardCommit \/ InstallNext
    BY <2>1, <1>2, PutHeaderOK DEF ForwardCommit, InstallNext
  <2>2. CASE PersistBlock
    BY <2>2, <1>2, PutHeaderOK DEF PersistBlock
  <2> QED  BY <2>1, <2>2
<1>4. OpOK'
  <2>1. CASE ForwardCommit
    BY <2>1, <1>1, <1>2 DEF ForwardCommit, OpOK, Operation
  <2>2. CASE InstallNext
    BY <2>2, <1>1, <1>2 DEF InstallNext, OpOK, Operation
  <2>3. CASE PersistBlock
    BY <2>3, <1>1, <1>2 DEF PersistBlock, OpOK, Operation
  <2> QED  BY <2>1, <2>2, <2>3
<1> QED
  BY <1>1, <1>3, <1>4 DEF BaseOK, FreshOK, SyncOK

\* The steps that make a block the head.
LEMMA AHead ==
    ASSUME AInv, ForwardDone \/ InstallDone \/ RecordHead
    PROVE  AInv'
<1> USE DEF AInv
<1>1. /\ op.phase \in {"forward", "install", "record"} /\ op.tip \in Blocks
      /\ UNCHANGED <<st, base, headers, baseFile, sync, stateFile>>
  BY DEF ForwardDone, InstallDone, RecordHead, disk, loop, OpOK
<1>2. DOMAIN headers # {}
  BY <1>1 DEF FreshOK
<1>3. TreeOK(tree')
  <2>1. CASE ForwardDone \/ InstallDone
    BY <2>1 DEF ForwardDone, InstallDone
  <2>2. CASE RecordHead
    BY <2>2, <1>1, AddOK DEF RecordHead, RecordBlock
  <2> QED  BY <2>1, <2>2
<1>4. op' = Idle \/ \E bs : op' = Finality(op.tip, bs)
  BY DEF ForwardDone, InstallDone, RecordHead
<1>5. OpOK'
  BY <1>1, <1>4, IdleOK, FinalityOpOK
<1> QED
  BY <1>1, <1>2, <1>3, <1>5 DEF BaseOK, FreshOK, SyncOK, HeadersOK

LEMMA AFinalizeDone ==
    ASSUME AInv, FinalizeDone
    PROVE  AInv'
<1> USE DEF AInv
<1>1. /\ op.phase = "finalize" /\ op' = Idle
      /\ base' = [id |-> op.at, st |-> op.ns] /\ baseFile' = base'
      /\ UNCHANGED <<tree, headers, sync>>
  BY DEF FinalizeDone, loop
<1>2. op.at \in Blocks /\ op.ns = Post[op.at]
  BY <1>1, AncEnds DEF OpOK
<1>3. TrueBase(base)'
  BY <1>1, <1>2 DEF TrueBase
<1>4. OpOK' /\ DOMAIN headers # {}
  BY <1>1, IdleOK DEF FreshOK
<1> QED
  BY <1>1, <1>3, <1>4 DEF BaseOK, FreshOK, SyncOK, HeadersOK

\* A new block is executed on the head.
LEMMA AExtend ==
    ASSUME AInv, NEW b \in Blocks, Produce(b) \/ ApplyExternalBlock(b)
    PROVE  AInv'
<1> USE DEF AInv
<1>1. /\ op' = Idle \/ op' = Operation("persist", Genesis, b, <<>>)
      /\ UNCHANGED <<tree, base, headers, baseFile, sync>>
  BY DEF Produce, ApplyExternalBlock, disk, loop
<1>2. head # None
  BY TreeAssumption, ParamsAssumption, SMT DEF Produce, ApplyExternalBlock
<1>3. OpOK'
  BY <1>1, IdleOK, SMT DEF OpOK, Operation
<1> QED
  BY <1>1, <1>2, <1>3 DEF BaseOK, FreshOK, SyncOK, HeadersOK

\* The steps of the loop goroutine and of handlers that only read the chain.
LEMMA ALoop ==
    ASSUME AInv,
           \/ ReadHead \/ CanProduce \/ ProduceNothing
           \/ \E b \in Blocks : StrikeSender(b)
           \/ SaveTimer \/ TrailingSave
    PROVE  AInv'
<1> USE DEF AInv
<1>1. /\ UNCHANGED <<head, st, tree, base, headers, baseFile, sync, op>>
      /\ stateFile' \in {stateFile, st}
  BY DEF ReadHead, CanProduce, ProduceNothing, StrikeSender, SaveTimer, TrailingSave,
         memory, disk, loop
<1> QED
  BY <1>1 DEF BaseOK, FreshOK, SyncOK, HeadersOK, OpOK

LEMMA ASync ==
    ASSUME AInv, SnapshotsMatch,
           (\E p \in SyncTips : SyncFrom(p)) \/ SyncInstall
    PROVE  AInv'
<1> USE DEF AInv
<1>1. UNCHANGED <<head, st, tree, base, headers, baseFile, stateFile>>
  BY DEF SyncFrom, SyncInstall, memory, disk
<1>2. CASE \E p \in SyncTips : SyncFrom(p)
  <2>1. PICK p \in SyncTips : SyncFrom(p)
    BY <1>2
  <2>2. sync' = [tip |-> p, snap |-> Post[p]] /\ op' = op
    BY <2>1 DEF SyncFrom, SnapshotsMatch
  <2> QED  BY <2>2, <1>1 DEF BaseOK, FreshOK, SyncOK, HeadersOK, OpOK
<1>3. CASE SyncInstall
  <2>1. /\ sync # None /\ sync' = sync
        /\ op' = Operation("sync", None, sync.tip, sync.snap)
    BY <1>3 DEF SyncInstall, loop
  <2>2. OpOK'
    BY <2>1, ParamsAssumption DEF SyncOK, OpOK, Operation
  <2>3. op'.phase = "sync" /\ op'.at = None
    BY <2>1 DEF Operation
  <2> QED  BY <2>1, <2>2, <2>3, <1>1 DEF BaseOK, FreshOK, SyncOK, HeadersOK
<1> QED
  BY <1>2, <1>3

LEMMA ASyncHeader ==
    ASSUME AInv, SyncHeader
    PROVE  AInv'
<1> USE DEF AInv
<1> DEFINE b == IF op.at = None THEN Genesis ELSE NextBlock
<1>1. /\ op.phase = "sync" /\ op.at # op.tip /\ op.tip \in Blocks
      /\ op.at = None \/ op.at \in anc[op.tip]
      /\ UNCHANGED <<head, st, tree, base, baseFile, stateFile>>
  BY DEF SyncHeader, OpOK, memory
<1>2. b \in Blocks /\ b \in anc[op.tip]
  BY <1>1, AncEnds, TowardStep, TreeAssumption DEF NextBlock
<1>3. CASE op' = Idle /\ sync' = None /\ UNCHANGED headers
  <2>1. OpOK' /\ op'.phase = "idle"
    BY <1>3, IdleOK
  <2> QED  BY <2>1, <1>1, <1>3 DEF BaseOK, FreshOK, SyncOK, HeadersOK
<1>4. CASE PutHeader(b) /\ op' = [op EXCEPT !.at = b] /\ UNCHANGED sync
  <2>1. HeadersOK' /\ DOMAIN headers' # {}
    BY <1>2, <1>4, PutHeaderOK
  <2> HIDE DEF b
  <2>2. OpOK'
    BY <1>1, <1>2, <1>4 DEF OpOK, Operation
  <2> QED  BY <2>1, <2>2, <1>1, <1>4 DEF BaseOK, FreshOK, SyncOK
<1> QED
  BY <1>3, <1>4 DEF SyncHeader

LEMMA ASyncDone ==
    ASSUME AInv, SyncDone
    PROVE  AInv'
<1> USE DEF AInv
<1>1. /\ op.phase = "sync" /\ op.at = op.tip /\ op.tip \in Blocks /\ op.ns = Post[op.tip]
      /\ base' = [id |-> op.tip, st |-> op.ns] /\ baseFile' = base'
      /\ tree' = Add(tree, op.tip) /\ sync' = None /\ op' = Idle
      /\ UNCHANGED headers
  BY DEF SyncDone, OpOK
<1>2. TreeOK(tree')
  BY <1>1, AddOK
<1>3. TrueBase(base)'
  BY <1>1 DEF TrueBase
<1>4. DOMAIN headers # {} /\ OpOK'
  BY <1>1, IdleOK, TreeAssumption DEF FreshOK
<1> QED
  BY <1>1, <1>2, <1>3, <1>4 DEF BaseOK, FreshOK, SyncOK, HeadersOK

LEMMA ACrash ==
    ASSUME AInv, Crash
    PROVE  AInv'
<1> USE DEF AInv
<1> DEFINE top == headers[Max(DOMAIN headers)]
<1>1. PICK file \in {stateFile, <<>>} : Restart(file)
  BY DEF Crash
<1>2. /\ st' = file /\ stateFile' = file /\ base' = baseFile /\ sync' = None
      /\ op' = Idle /\ UNCHANGED <<headers, baseFile>>
      /\ IF DOMAIN headers = {}
         THEN head' = None /\ tree' = [b \in {} |-> 0]
         ELSE tree' = [b \in {top} |-> 1]
  BY <1>1 DEF Restart, disk
<1>3. TreeOK(tree')
  <2>1. CASE DOMAIN headers = {}
    BY <2>1, <1>2 DEF TreeOK
  <2>2. CASE DOMAIN headers # {}
    <3>1. Max(DOMAIN headers) \in DOMAIN headers
      BY <2>2 DEF HeadersOK, Max
    <3>2. top \in Blocks
      BY <3>1 DEF HeadersOK
    <3> QED  BY <3>2, <2>2, <1>2, SMT DEF TreeOK
  <2> QED  BY <2>1, <2>2
<1>4. OpOK' /\ op'.phase = "idle"
  BY <1>2, IdleOK
<1> QED
  BY <1>2, <1>3, <1>4 DEF BaseOK, FreshOK, SyncOK, HeadersOK, TrueBase

LEMMA ANext ==
    ASSUME AInv, SnapshotsMatch, [Next]_vars
    PROVE  AInv'
<1>1. CASE UNCHANGED vars
  BY <1>1 DEF vars, memory, disk, loop, AInv, BaseOK, FreshOK, SyncOK, HeadersOK, OpOK
<1>2. CASE GenesisHeader \/ GenesisRecord \/ GenesisSave
  BY <1>2, AGenesisHeader, AGenesisRecord, AWalk
<1>3. CASE \E b \in Blocks : Gossip(b) \/ Produce(b)
  BY <1>3, AAcceptBlock, AExtend, ALoop DEF Gossip
<1>4. CASE ForwardApply \/ ReplayNext \/ ReplayDone \/ FinalizeNext
  BY <1>4, AWalk
<1>5. CASE ForwardCommit \/ InstallNext \/ PersistBlock
  BY <1>5, AWrite
<1>6. CASE ForwardDone \/ InstallDone \/ RecordHead
  BY <1>6, AHead
<1>7. CASE FinalizeDone
  BY <1>7, AFinalizeDone
<1>8. CASE (\E p \in SyncTips : SyncFrom(p)) \/ SyncInstall
  BY <1>8, ASync
<1>9. CASE SyncHeader \/ SyncDone
  BY <1>9, ASyncHeader, ASyncDone
<1>10. CASE ReadHead \/ CanProduce \/ ProduceNothing \/ SaveTimer \/ TrailingSave
  BY <1>10, ALoop
<1>11. CASE Crash
  BY <1>11, ACrash
<1> QED
  BY <1>1, <1>2, <1>3, <1>4, <1>5, <1>6, <1>7, <1>8, <1>9, <1>10, <1>11
  DEF Next, Continue

-----------------------------------------------------------------------------
(* What crashes cannot break *)

\* Whatever blocks arrive, wherever the process is killed and restarted and
\* whenever the save timer fires, the replay base in memory and the one in
\* replaybase.json are the true state of a block (advanceFinality, Genesis,
\* SyncInstall), if the peers of a sync serve the state of the head they
\* announced.
THEOREM BaseAlwaysTrue ==
    ASSUME SnapshotsMatch
    PROVE  Spec => []BaseIsTrueState
<1>1. AInv /\ [Next]_vars => AInv'
  BY ANext
<1>2. AInv => BaseIsTrueState
  BY SMT DEF AInv, BaseOK, TrueBase, BaseIsTrueState
<1> QED
  BY <1>1, <1>2, AInit, PTL DEF Spec

\* Without a sync, the finalized block only gives way to a descendant, in memory
\* and on disk, through all crashes and restarts (advanceFinality, chain.New).
THEOREM FinalityOnlyForward ==
    ASSUME SyncTips = {}
    PROVE  Spec => FinalityNeverMovesBack
<1>1. SnapshotsMatch
  BY DEF SnapshotsMatch
<1>2. AInv /\ [Next]_vars => AInv'
  BY <1>1, ANext
<1> DEFINE Kept == /\ base # None /\ base' # None => base.id \in anc[base'.id]
                   /\ baseFile # None => /\ baseFile' # None
                                         /\ baseFile.id \in anc[baseFile'.id]
<1>3. AInv /\ [Next]_vars => [Kept]_vars
  <2> SUFFICES ASSUME AInv, [Next]_vars PROVE Kept
    OBVIOUS
  <2>1. base = baseFile /\ (base = None \/ TrueBase(base))
    BY DEF AInv, BaseOK
  <2>2. TrueBase(base) => base.id \in Blocks /\ base.id \in anc[base.id]
    BY AncEnds, SMT DEF TrueBase
  <2>3. ASSUME base' = base /\ baseFile' = baseFile
        PROVE  Kept
    BY <2>1, <2>2, <2>3
  <2>4. CASE GenesisRecord
    BY <2>1, <2>4 DEF GenesisRecord, AInv, OpOK
  <2>5. CASE FinalizeDone
    <3>1. /\ op.phase = "finalize" /\ base' = [id |-> op.at, st |-> op.ns]
          /\ baseFile' = base'
      BY <2>5 DEF FinalizeDone
    <3>2. base.id \in anc[op.at] /\ op.at \in Blocks /\ op.ns = Post[op.at]
      BY <3>1, AncEnds DEF AInv, OpOK
    <3>3. base' # None
      BY <3>1, <3>2, NoneAssumption
    <3> QED  BY <3>1, <3>2, <3>3, <2>1
  <2>6. CASE Crash
    BY <2>1, <2>3, <2>6 DEF Crash, Restart, disk
  <2>7. CASE SyncDone
    BY <2>7 DEF SyncDone, AInv, OpOK
  <2>8. CASE ~ (GenesisRecord \/ FinalizeDone \/ Crash \/ SyncDone)
    <3>1. UNCHANGED <<base, baseFile>>
      BY <2>8
      DEF Next, Continue, Gossip, GenesisHeader, GenesisSave, ForwardApply, ForwardCommit,
          ForwardDone, ReplayNext, ReplayDone, InstallNext, InstallDone, PersistBlock,
          RecordHead, FinalizeNext, SyncHeader, AcceptBlock, ApplyExternalBlock,
          StrikeSender, Produce, ReadHead, CanProduce, ProduceNothing, SyncFrom,
          SyncInstall, SaveTimer, TrailingSave, vars, memory, disk
    <3> QED  BY <3>1, <2>3
  <2> QED  BY <2>4, <2>5, <2>6, <2>7, <2>8
<1> QED
  BY <1>2, <1>3, AInit, PTL DEF Spec, FinalityNeverMovesBack

-----------------------------------------------------------------------------
(* Fork choice and finality on a node that runs, for any block tree, any   *)
(* order of arrival, any interleaving of the save timer, the block loop    *)
(* and gossip, either engine and any finality depth.                       *)
(*                                                                         *)
(* The account state and the header files are changed block by block while *)
(* the head stays, so the properties of an idle chain are not inductive.   *)
(* The invariant BInv names, for each step of an operation, the block      *)
(* whose state the live account state is (Executed) and the block whose    *)
(* branch the header files hold (Written).                                 *)

\* The circumstances: the process is not killed and never syncs, every block
\* executes on its branch and has the logs root that execution yields, and
\* transactions refer to no block but genesis by height.  The runs
\* chain_badbranch, chain_restart and chain_join are about nodes in others.
Undisturbed ==
    /\ SyncTips = {} /\ MaxCrashes = 0
    /\ BadLogs = {} /\ Genesis \notin Emits
    /\ \A b \in Blocks \ {Genesis} : /\ Applies(Post[parent[b]], b)
                                     /\ Anchor[b] \in {Genesis, None}

-----------------------------------------------------------------------------
(* The inductive invariant *)

\* The live account state is the one after this block ...
Executed ==
    IF op.phase = "forward" THEN op.at
    ELSE IF op.phase = "commit" THEN NextBlock
    ELSE IF op.phase \in {"install", "persist", "record"} THEN op.tip
    ELSE IF op.phase = "genesis" THEN Genesis
    ELSE head

\* ... and the header files hold the branch of this one.
Written ==
    IF op.phase \in {"forward", "commit", "install"} THEN op.at
    ELSE IF op.phase = "record" THEN op.tip
    ELSE IF op.phase = "genesis" THEN Genesis
    ELSE head

Canonical(files, b) ==
    \A a \in anc[b] : height[a] \in DOMAIN files /\ files[height[a]] = a

Readable(logs, b) ==
    \A a \in anc[b] \cap Emits : height[a] \in DOMAIN logs /\ logs[height[a]] = a

Heaviest(b) == b = Best(tree) \/ base.id \notin anc[Best(tree)]

\* Every known block is connected to genesis, so that its weight is its height.
ConnectedOK ==
    /\ hollow = {} /\ bodies = DOMAIN tree
    /\ \A b \in bodies : anc[b] \subseteq bodies /\ tree[b] = height[b] + 1

\* The head is known and descends from the finalized block.
HeadOK ==
    /\ head = None => DOMAIN tree = {} /\ op.phase \in {"idle", "genesis"}
    /\ head # None => /\ op.phase # "genesis"
                      /\ head \in bodies /\ TrueBase(base) /\ base.id \in anc[head]

StateOK ==
    head # None \/ op.phase = "genesis" => st = Post[Executed] /\ Canonical(headers, Written)

\* Where an operation leads: a branch is followed to the heaviest tip, and a new
\* block is on top of the head.
GoalOK ==
    /\ op.phase \in {"forward", "commit", "replay", "install"} => op.tip = Best(tree)
    /\ op.phase \in {"forward", "commit"} => head \in anc[op.at]
    /\ op.phase \in {"replay", "install"} => op.tip # base.id
    /\ op.phase \in {"persist", "record"} => op.tip # Genesis /\ parent[op.tip] = head
    /\ op.phase = "finalize" => op.tip = head
    /\ op.phase \in {"idle", "save", "persist", "record", "finalize"} /\ head # None =>
          Heaviest(head)

\* On the linear path there are no branches, and a block's logs are written
\* while they are the last ones.
LogsOK ==
    ~ reorg =>
       /\ op.phase \notin {"forward", "commit", "replay", "install"}
       /\ op.phase = "persist" => lastLogs = op.tip
       /\ head # None \/ op.phase = "genesis" => Readable(logsAt, Written)

BInv ==
    /\ AInv
    /\ ConnectedOK
    /\ HeadOK
    /\ StateOK
    /\ GoalOK
    /\ LogsOK
    /\ crashes \in Nat

-----------------------------------------------------------------------------
(* Lemmas *)

\* The best block is the only one that is heavier than all others.
LEMMA BestUnique ==
    ASSUME NEW tr, TreeOK(tr), NEW b \in DOMAIN tr,
           \A c \in DOMAIN tr \ {b} : Heavier(tr, b, c)
    PROVE  Best(tr) = b
<1>1. /\ Best(tr) \in DOMAIN tr
      /\ \A c \in DOMAIN tr \ {Best(tr)} : Heavier(tr, Best(tr), c)
  BY BestOK
<1>2. SUFFICES ASSUME Best(tr) # b PROVE FALSE
  OBVIOUS
<1>3. Heavier(tr, b, Best(tr)) /\ Heavier(tr, Best(tr), b)
  BY <1>1, <1>2
<1>4. /\ tr[b] \in Nat /\ tr[Best(tr)] \in Nat
      /\ rank[b] \in Nat /\ rank[Best(tr)] \in Nat
  BY <1>1, TreeAssumption DEF TreeOK
<1> QED
  BY <1>3, <1>4, SMT DEF Heavier

\* The tree with one more connected block is connected.
LEMMA AddConnected ==
    ASSUME ConnectedOK, TreeOK(tree), NEW b \in Blocks, b = Genesis \/ parent[b] \in bodies,
           tree' = Add(tree, b), bodies' = bodies \cup {b}, hollow' = hollow
    PROVE  ConnectedOK'
<1>1. /\ DOMAIN tree' = DOMAIN tree \cup {b}
      /\ \A c \in DOMAIN tree : tree'[c] = tree[c]
  BY AddOK
<1>2. tree'[b] = height[b] + 1
  <2>1. CASE b \in DOMAIN tree
    BY <2>1, <1>1 DEF ConnectedOK
  <2>2. CASE b \notin DOMAIN tree /\ b = Genesis
    BY <2>2, TreeAssumption, SMT DEF Add
  <2>3. CASE b \notin DOMAIN tree /\ b # Genesis
    <3>1. tree'[b] = tree[parent[b]] + 1
      BY <2>3 DEF Add, ConnectedOK
    <3>2. tree[parent[b]] = height[parent[b]] + 1 /\ height[b] = height[parent[b]] + 1
      BY <2>3, TreeAssumption DEF ConnectedOK
    <3>3. height[parent[b]] \in Nat
      BY <2>3, TreeAssumption
    <3> QED  BY <3>1, <3>2, <3>3
  <2> QED  BY <2>1, <2>2, <2>3
<1>3. anc[b] \subseteq bodies'
  BY TreeAssumption, SMT DEF ConnectedOK
<1> QED
  BY <1>1, <1>2, <1>3 DEF ConnectedOK

\* A header on top of a canonical branch makes the longer branch canonical.
LEMMA CanonicalNext ==
    ASSUME HeadersOK, NEW b \in Blocks \ {Genesis}, PutHeader(b),
           Canonical(headers, parent[b])
    PROVE  Canonical(headers', b)
<1>1. /\ anc[b] = {b} \cup anc[parent[b]] /\ parent[b] \in Blocks
      /\ height[b] = height[parent[b]] + 1
  BY TreeAssumption
<1>2. /\ DOMAIN headers' = DOMAIN headers \cup {height[b]}
      /\ headers'[height[b]] = b
      /\ \A h \in DOMAIN headers : h # height[b] => headers'[h] = headers[h]
  BY PutHeaderOK
<1>3. \A a \in anc[parent[b]] : height[a] # height[b]
  <2> TAKE a \in anc[parent[b]]
  <2>1. a \in Blocks /\ height[a] \in Nat /\ height[parent[b]] \in Nat
    BY <1>1, AncEnds, TreeAssumption
  <2>2. a = parent[b] \/ height[a] < height[parent[b]]
    BY <1>1, AncLower
  <2> QED  BY <2>1, <2>2, <1>1, SMT
<1> QED
  BY <1>1, <1>2, <1>3 DEF Canonical

\* So do the logs of the block that was executed last.
LEMMA ReadableNext ==
    ASSUME NEW b \in Blocks \ {Genesis}, PutLogs(b), lastLogs = b,
           Readable(logsAt, parent[b])
    PROVE  Readable(logsAt', b)
<1>1. /\ anc[b] = {b} \cup anc[parent[b]] /\ parent[b] \in Blocks
      /\ height[b] = height[parent[b]] + 1
  BY TreeAssumption
<1>2. \A a \in anc[parent[b]] : height[a] # height[b]
  <2> TAKE a \in anc[parent[b]]
  <2>1. a \in Blocks /\ height[a] \in Nat /\ height[parent[b]] \in Nat
    BY <1>1, AncEnds, TreeAssumption
  <2>2. a = parent[b] \/ height[a] < height[parent[b]]
    BY <1>1, AncLower
  <2> QED  BY <2>1, <2>2, <1>1, SMT
<1>3. CASE b \notin Emits
  BY <1>1, <1>3 DEF PutLogs, Readable
<1>4. CASE b \in Emits
  <2>1. logsAt' = [h \in DOMAIN logsAt \cup {height[b]} |->
                      IF h = height[b] THEN b ELSE logsAt[h]]
    BY <1>4, TreeAssumption DEF PutLogs
  <2> QED  BY <2>1, <1>1, <1>2 DEF Readable
<1> QED
  BY <1>3, <1>4

\* On a canonical branch every block executes.
LEMMA AlwaysExecutes ==
    ASSUME Undisturbed, NEW x \in Blocks, Canonical(headers, x),
           NEW b \in Blocks \ {Genesis}
    PROVE  Executes(Post[parent[b]], b)
<1>1. Genesis \in anc[x] /\ height[Genesis] = 0
  BY AncEnds, TreeAssumption
<1>2. AnchorMet(b)
  BY <1>1 DEF AnchorMet, Canonical, Undisturbed
<1> QED
  BY <1>2 DEF Executes, Undisturbed

\* An operation works on blocks.
LEMMA Places ==
    ASSUME BInv, head # None
    PROVE  /\ head \in Blocks /\ Written \in Blocks /\ base.id \in Blocks
           /\ DOMAIN tree # {} /\ Best(tree) \in Blocks /\ Best(tree) \in bodies
<1>1. head \in bodies /\ TrueBase(base) /\ op.phase # "genesis"
  BY DEF BInv, HeadOK
<1>2. bodies \subseteq Blocks /\ bodies = DOMAIN tree
  BY DEF BInv, ConnectedOK, AInv, TreeOK
<1>3. Written \in Blocks
  BY <1>1, <1>2, AncEnds DEF Written, BInv, AInv, OpOK
<1>4. Best(tree) \in Blocks /\ Best(tree) \in DOMAIN tree
  BY <1>1, <1>2, BestOK DEF BInv, AInv
<1> QED
  BY <1>1, <1>2, <1>3, <1>4, SMT DEF TrueBase

-----------------------------------------------------------------------------
(* The steps *)

LEMMA BInit ==
    ASSUME Init
    PROVE  BInv
<1>1. AInv
  BY AInit
<1>2. op.phase = "idle" /\ head = None /\ crashes = 0
  BY DEF Init, Idle, Operation
<1>3. ConnectedOK /\ HeadOK
  BY <1>2 DEF Init, ConnectedOK, HeadOK
<1>4. StateOK /\ GoalOK /\ LogsOK
  BY <1>2 DEF StateOK, GoalOK, LogsOK
<1> QED
  BY <1>1, <1>2, <1>3, <1>4 DEF BInv

LEMMA BGenesisHeader ==
    ASSUME Undisturbed, BInv, AInv', GenesisHeader
    PROVE  BInv'
<1> USE DEF BInv
<1>1. /\ head = None /\ DOMAIN headers = {} /\ PutHeader(Genesis)
      /\ op' = Operation("genesis", Genesis, Genesis, <<>>)
      /\ UNCHANGED <<head, tree, hollow, base, bodies, logsAt, crashes, reorg>>
  BY DEF GenesisHeader, loop
<1>2. op'.phase = "genesis" /\ st' = <<Genesis>>
  BY <1>1 DEF Operation, AInv, OpOK
<1>3. Canonical(headers', Genesis)
  BY <1>1, TreeAssumption DEF PutHeader, Canonical
<1>4. StateOK'
  BY <1>2, <1>3, TreeAssumption DEF StateOK, Executed, Written
<1>5. ConnectedOK' /\ HeadOK' /\ GoalOK'
  BY <1>1, <1>2 DEF ConnectedOK, HeadOK, GoalOK
<1>6. LogsOK'
  BY <1>1, <1>2, TreeAssumption DEF LogsOK, Written, Readable, Undisturbed
<1> QED
  BY <1>1, <1>4, <1>5, <1>6

LEMMA BGenesisRecord ==
    ASSUME Undisturbed, BInv, AInv', GenesisRecord
    PROVE  BInv'
<1> USE DEF BInv
<1>1. /\ op.phase = "genesis" /\ op' = [op EXCEPT !.phase = "save"]
      /\ head' = Genesis /\ base' = [id |-> Genesis, st |-> st]
      /\ tree' = Add(tree, Genesis) /\ bodies' = bodies \cup {Genesis}
      /\ UNCHANGED <<st, hollow, headers, logsAt, crashes, reorg>>
  BY DEF GenesisRecord, RecordBlock, loop
<1>2. op'.phase = "save" /\ head = None /\ DOMAIN tree = {} /\ Genesis \in Blocks
  BY <1>1, TreeAssumption DEF HeadOK, AInv, OpOK, Operation
<1>3. ConnectedOK' /\ TreeOK(tree)'
  BY <1>1, <1>2, AddConnected DEF AInv
<1>4. Best(tree') = Genesis
  <2>1. DOMAIN Add(tree, Genesis) = DOMAIN tree \cup {Genesis}
    BY <1>2, AddOK DEF AInv
  <2>2. DOMAIN tree' = {Genesis}
    BY <2>1, <1>1, <1>2
  <2> QED  BY <2>2, <1>3, BestOK
<1>5. TrueBase(base)' /\ base'.id = Genesis
  BY <1>1, <1>2, TreeAssumption DEF TrueBase, AInv, OpOK
<1>6. HeadOK'
  BY <1>1, <1>2, <1>5, TreeAssumption DEF HeadOK
<1>7. StateOK'
  BY <1>1, <1>2 DEF StateOK, Executed, Written
<1>8. GoalOK'
  BY <1>1, <1>2, <1>4 DEF GoalOK, Heaviest
<1>9. LogsOK'
  BY <1>1, <1>2 DEF LogsOK, Written
<1> QED
  BY <1>1, <1>3, <1>6, <1>7, <1>8, <1>9

\* Steps that leave the chain alone.
LEMMA BQuiet ==
    ASSUME Undisturbed, BInv, AInv',
           \/ GenesisSave \/ ReadHead \/ CanProduce \/ ProduceNothing
           \/ \E b \in Blocks : StrikeSender(b)
           \/ SaveTimer \/ TrailingSave
    PROVE  BInv'
<1> USE DEF BInv
<1>1. /\ UNCHANGED <<head, st, lastLogs, tree, hollow, base, headers, bodies, logsAt,
                     crashes, reorg>>
      /\ op' = op \/ (op.phase = "save" /\ op' = Idle)
  BY DEF GenesisSave, ReadHead, CanProduce, ProduceNothing, StrikeSender, SaveTimer,
         TrailingSave, memory, disk, loop
<1>2. ConnectedOK'
  BY <1>1 DEF ConnectedOK
<1>3. CASE op' = op
  <2>1. Executed' = Executed /\ Written' = Written
    BY <1>1, <1>3 DEF Executed, Written, NextBlock
  <2>2. HeadOK' /\ GoalOK'
    BY <1>1, <1>3 DEF HeadOK, GoalOK, TrueBase, Heaviest
  <2>3. StateOK' /\ LogsOK'
    BY <1>1, <1>3, <2>1 DEF StateOK, LogsOK
  <2> QED  BY <1>1, <1>2, <2>2, <2>3
<1>4. CASE op.phase = "save" /\ op' = Idle
  <2>1. op'.phase = "idle" /\ head # None
    BY <1>4 DEF Idle, Operation, HeadOK
  <2>2. HeadOK' /\ GoalOK'
    BY <1>1, <1>4, <2>1 DEF HeadOK, GoalOK, TrueBase, Heaviest
  <2>3. StateOK' /\ LogsOK'
    BY <1>1, <1>4, <2>1 DEF StateOK, LogsOK, Executed, Written
  <2> QED  BY <1>1, <1>2, <2>2, <2>3
<1> QED
  BY <1>1, <1>3, <1>4

LEMMA BAcceptBlock ==
    ASSUME Undisturbed, BInv, AInv', NEW b \in Blocks, AcceptBlock(b)
    PROVE  BInv'
<1> USE DEF BInv
<1> DEFINE best == Best(tree')
<1>1. /\ reorg /\ op.phase = "idle" /\ head # None /\ b # Genesis
      /\ parent[b] \in bodies \cup hollow
      /\ tree' = Add(tree, b) /\ bodies' = bodies \cup {b}
      /\ op' = ReorgToBest(tree', bodies' \cup hollow)
      /\ UNCHANGED <<head, st, hollow, base, headers, crashes, reorg>>
  BY DEF AcceptBlock, RecordBlock, idle, Known, loop
<1>2. ConnectedOK' /\ hollow = {}
  BY <1>1, AddConnected DEF ConnectedOK, AInv
<1>3. /\ head \in bodies' /\ TrueBase(base)' /\ base.id \in anc[head] /\ base' = base
      /\ base # None
  BY <1>1, NoneAssumption DEF HeadOK, TrueBase
<1>4. TreeOK(tree') /\ DOMAIN tree' # {} /\ DOMAIN tree' = bodies' /\ bodies' \subseteq Blocks
  BY <1>2, <1>3 DEF AInv, ConnectedOK, TreeOK
<1>5. /\ best \in bodies' /\ best \in Blocks
      /\ \A c \in bodies' \ {best} : Heavier(tree', best, c)
  BY <1>4, BestOK
<1> HIDE DEF best
<1>6. st = Post[head] /\ Canonical(headers, head)
  BY <1>1 DEF StateOK, Executed, Written
<1>7. head \in Blocks /\ head \in anc[head]
  BY <1>3, <1>4, AncEnds
<1>8. CASE op' = Idle /\ (best = head \/ base.id \notin anc[best])
  <2>1. op'.phase = "idle"
    BY <1>8 DEF Idle, Operation
  <2>2. HeadOK' /\ GoalOK' /\ LogsOK'
    BY <2>1, <1>1, <1>3, <1>8 DEF HeadOK, GoalOK, LogsOK, Heaviest, best
  <2>3. StateOK'
    BY <2>1, <1>1, <1>6 DEF StateOK, Executed, Written
  <2> QED  BY <2>2, <2>3, <1>1, <1>2
<1>9. CASE op' = Operation("forward", head, best, <<>>)
  <2>1. op'.phase = "forward" /\ op'.at = head /\ op'.tip = best
    BY <1>9 DEF Operation
  <2>2. HeadOK' /\ GoalOK' /\ LogsOK'
    BY <2>1, <1>1, <1>3, <1>7 DEF HeadOK, GoalOK, LogsOK, best
  <2>3. StateOK'
    BY <2>1, <1>1, <1>6 DEF StateOK, Executed, Written
  <2> QED  BY <2>2, <2>3, <1>1, <1>2
<1>10. CASE op' = Operation("replay", base.id, best, base.st) /\ best # head
  <2>1. op'.phase = "replay" /\ op'.tip = best
    BY <1>10 DEF Operation
  <2>2. best # base.id
    <3>1. SUFFICES ASSUME best = base.id PROVE FALSE
      OBVIOUS
    <3>2. height[base.id] < height[head]
      BY <3>1, <1>3, <1>7, <1>10, AncLower
    <3>3. tree'[head] = height[head] + 1 /\ tree'[best] = height[base.id] + 1
      BY <3>1, <1>2, <1>3, <1>5 DEF ConnectedOK
    <3>4. height[head] \in Nat /\ height[base.id] \in Nat
      BY <3>1, <1>5, <1>7, TreeAssumption
    <3>5. Heavier(tree', best, head)
      BY <1>3, <1>5, <1>10
    <3> QED  BY <3>2, <3>3, <3>4, <3>5, SMT DEF Heavier
  <2>3. HeadOK' /\ GoalOK' /\ LogsOK'
    BY <2>1, <2>2, <1>1, <1>3 DEF HeadOK, GoalOK, LogsOK, best
  <2>4. StateOK'
    BY <2>1, <1>1, <1>6 DEF StateOK, Executed, Written
  <2> QED  BY <2>3, <2>4, <1>1, <1>2
<1>11. anc[best] \subseteq bodies' \cup hollow
  BY <1>2, <1>5 DEF ConnectedOK
<1>12. CanWalk(bodies' \cup hollow, best, base.id) \/ base.id \notin anc[best]
  BY <1>11 DEF CanWalk
<1> QED
  BY <1>1, <1>3, <1>8, <1>9, <1>10, <1>12 DEF ReorgToBest, best

\* What a step has to show that makes h the head.
LEMMA BNewHead ==
    ASSUME BInv, AInv', ConnectedOK', NEW h \in Blocks, NEW bs,
           head' = h, h \in bodies', op' = Finality(h, bs),
           TrueBase(base), base' = base, base.id \in anc[h],
           st' = Post[h], Canonical(headers', h), ~ reorg' => Readable(logsAt', h),
           h = Best(tree') \/ base.id \notin anc[Best(tree')],
           crashes' = crashes
    PROVE  BInv'
<1>1. op'.phase \in {"idle", "finalize"} /\ (op'.phase = "finalize" => op'.tip = h)
  BY DEF Finality, Operation, Idle
<1>2. head' # None
  BY TreeAssumption
<1>3. HeadOK'
  BY <1>1, <1>2 DEF HeadOK, TrueBase
<1>4. Executed' = h /\ Written' = h
  BY <1>1 DEF Executed, Written
<1>5. StateOK' /\ LogsOK'
  BY <1>1, <1>4 DEF StateOK, LogsOK
<1>6. GoalOK'
  BY <1>1 DEF GoalOK, Heaviest
<1> QED
  BY <1>3, <1>5, <1>6 DEF BInv

LEMMA BForwardApply ==
    ASSUME Undisturbed, BInv, AInv', ForwardApply
    PROVE  BInv'
<1> USE DEF BInv
<1>1. /\ op.phase = "forward" /\ op.at # op.tip /\ op.tip \in Blocks /\ op.at \in anc[op.tip]
      /\ UNCHANGED <<head, tree, hollow, base, headers, bodies, logsAt, crashes, reorg>>
  BY DEF ForwardApply, AInv, OpOK, disk, loop
<1>2. head # None /\ st = Post[op.at] /\ Canonical(headers, op.at) /\ op.at \in Blocks
  BY <1>1, AncEnds DEF HeadOK, StateOK, Executed, Written
<1>3. /\ NextBlock \in Blocks \ {Genesis} /\ parent[NextBlock] = op.at
      /\ Post[NextBlock] = Append(Post[op.at], NextBlock)
  BY <1>1, TowardStep DEF NextBlock
<1>4. Executes(st, NextBlock)
  BY <1>2, <1>3, AlwaysExecutes
<1>5. st' = Append(st, NextBlock) /\ op' = [op EXCEPT !.phase = "commit"]
  BY <1>4 DEF ForwardApply
<1>6. op'.phase = "commit" /\ op'.at = op.at /\ op'.tip = op.tip
  BY <1>5 DEF AInv, OpOK, Operation
<1>7. Executed' = NextBlock /\ Written' = op.at
  BY <1>6 DEF Executed, Written, NextBlock
<1>8. StateOK'
  BY <1>1, <1>2, <1>3, <1>5, <1>7 DEF StateOK
<1>9. HeadOK' /\ ConnectedOK'
  BY <1>1, <1>2, <1>6 DEF HeadOK, ConnectedOK, TrueBase
<1>10. GoalOK' /\ LogsOK'
  BY <1>1, <1>6 DEF GoalOK, LogsOK
<1> QED
  BY <1>1, <1>8, <1>9, <1>10

LEMMA BForwardCommit ==
    ASSUME Undisturbed, BInv, AInv', ForwardCommit
    PROVE  BInv'
<1> USE DEF BInv
<1>1. /\ op.phase = "commit" /\ op.at # op.tip /\ op.tip \in Blocks /\ op.at \in anc[op.tip]
      /\ PutHeader(NextBlock) /\ op' = Operation("forward", NextBlock, op.tip, <<>>)
      /\ UNCHANGED <<head, st, tree, hollow, base, bodies, crashes, reorg>>
  BY DEF ForwardCommit, AInv, OpOK, memory, loop
<1>2. /\ NextBlock \in Blocks \ {Genesis} /\ parent[NextBlock] = op.at
      /\ anc[NextBlock] = {NextBlock} \cup anc[op.at]
  <2>1. op.tip \in Blocks /\ op.at \in anc[op.tip] /\ op.at # op.tip
    BY <1>1
  <2>2. /\ Toward(op.at, op.tip) \in Blocks \ {Genesis}
        /\ parent[Toward(op.at, op.tip)] = op.at
        /\ anc[Toward(op.at, op.tip)] = {Toward(op.at, op.tip)} \cup anc[op.at]
    BY <2>1, TowardStep, SMT
  <2> QED  BY <2>2 DEF NextBlock
<1>3. head # None /\ st = Post[NextBlock] /\ Canonical(headers, op.at)
  BY <1>1 DEF HeadOK, StateOK, Executed, Written
<1>4. Canonical(headers', NextBlock)
  BY <1>1, <1>2, <1>3, CanonicalNext DEF AInv
<1>5. op'.phase = "forward" /\ op'.at = NextBlock /\ op'.tip = op.tip
  BY <1>1 DEF Operation
<1>6. Executed' = NextBlock /\ Written' = NextBlock
  BY <1>5 DEF Executed, Written
<1>7. StateOK'
  BY <1>1, <1>3, <1>4, <1>6 DEF StateOK
<1>8. HeadOK' /\ ConnectedOK'
  BY <1>1, <1>3, <1>5 DEF HeadOK, ConnectedOK, TrueBase
<1>9. GoalOK' /\ LogsOK'
  BY <1>1, <1>2, <1>5 DEF GoalOK, LogsOK
<1> QED
  BY <1>1, <1>7, <1>8, <1>9

LEMMA BForwardDone ==
    ASSUME Undisturbed, BInv, AInv', ForwardDone
    PROVE  BInv'
<1> USE DEF BInv
<1>1. /\ op.phase = "forward" /\ op.at = op.tip /\ op.tip \in Blocks
      /\ head' = op.tip /\ op' = Finality(op.tip, bodies \cup hollow)
      /\ UNCHANGED <<st, tree, hollow, base, headers, bodies, crashes, reorg>>
  BY DEF ForwardDone, AInv, OpOK, disk, loop
<1>2. head # None /\ st = Post[op.tip] /\ Canonical(headers, op.tip)
  BY <1>1 DEF HeadOK, StateOK, Executed, Written
<1>3. op.tip = Best(tree) /\ head \in anc[op.tip] /\ reorg
  BY <1>1 DEF GoalOK, LogsOK
<1>4. TrueBase(base) /\ base.id \in anc[op.tip]
  BY <1>1, <1>2, <1>3, AncTransitive DEF HeadOK
<1>5. op.tip \in bodies' /\ ConnectedOK'
  BY <1>1, <1>2, <1>3, Places DEF ConnectedOK
<1> QED
  BY <1>1, <1>2, <1>3, <1>4, <1>5, BNewHead

LEMMA BReplayNext ==
    ASSUME Undisturbed, BInv, AInv', ReplayNext
    PROVE  BInv'
<1> USE DEF BInv
<1>1. /\ op.phase = "replay" /\ op.at # op.tip /\ op.tip \in Blocks /\ op.at \in anc[op.tip]
      /\ op.ns = Post[op.at]
      /\ UNCHANGED <<head, st, tree, hollow, base, headers, bodies, logsAt, crashes, reorg>>
  BY DEF ReplayNext, AInv, OpOK, memory, disk, loop
<1>2. /\ head # None /\ head \in Blocks /\ st = Post[head] /\ Canonical(headers, head)
  BY <1>1, Places DEF HeadOK, StateOK, Executed, Written
<1>3. NextBlock \in Blocks \ {Genesis} /\ parent[NextBlock] = op.at
  BY <1>1, TowardStep DEF NextBlock
<1>4. Executes(op.ns, NextBlock)
  BY <1>1, <1>2, <1>3, AlwaysExecutes
<1>5. op'.phase = "replay" /\ op'.tip = op.tip
  BY <1>4 DEF ReplayNext, Operation
<1>6. StateOK'
  BY <1>1, <1>2, <1>5 DEF StateOK, Executed, Written
<1>7. HeadOK' /\ ConnectedOK'
  BY <1>1, <1>2, <1>5 DEF HeadOK, ConnectedOK, TrueBase
<1>8. GoalOK' /\ LogsOK'
  BY <1>1, <1>5 DEF GoalOK, LogsOK
<1> QED
  BY <1>1, <1>6, <1>7, <1>8

LEMMA BReplayDone ==
    ASSUME Undisturbed, BInv, AInv', ReplayDone
    PROVE  BInv'
<1> USE DEF BInv
<1>1. /\ op.phase = "replay" /\ op.at = op.tip /\ op.ns = Post[op.at] /\ st' = op.ns
      /\ op' = Operation("install", base.id, op.tip, <<>>)
      /\ UNCHANGED <<head, tree, hollow, base, headers, bodies, logsAt, crashes, reorg>>
  BY DEF ReplayDone, AInv, OpOK, disk, loop
<1>2. /\ head # None /\ head \in Blocks /\ Canonical(headers, head)
      /\ base.id \in anc[head]
  BY <1>1, Places DEF HeadOK, StateOK, Written
<1>3. Canonical(headers, base.id)
  BY <1>2, AncTransitive DEF Canonical
<1>4. op'.phase = "install" /\ op'.at = base.id /\ op'.tip = op.tip
  BY <1>1 DEF Operation
<1>5. StateOK'
  BY <1>1, <1>3, <1>4 DEF StateOK, Executed, Written
<1>6. HeadOK' /\ ConnectedOK'
  BY <1>1, <1>2, <1>4 DEF HeadOK, ConnectedOK, TrueBase
<1>7. GoalOK' /\ LogsOK'
  BY <1>1, <1>4 DEF GoalOK, LogsOK
<1> QED
  BY <1>1, <1>5, <1>6, <1>7

LEMMA BInstallNext ==
    ASSUME Undisturbed, BInv, AInv', InstallNext
    PROVE  BInv'
<1> USE DEF BInv
<1>1. /\ op.phase = "install" /\ op.at # op.tip /\ op.tip \in Blocks /\ op.at \in anc[op.tip]
      /\ PutHeader(NextBlock) /\ op' = [op EXCEPT !.at = NextBlock]
      /\ UNCHANGED <<head, st, tree, hollow, base, bodies, crashes, reorg>>
  BY DEF InstallNext, AInv, OpOK, memory, loop
<1>2. NextBlock \in Blocks \ {Genesis} /\ parent[NextBlock] = op.at
  BY <1>1, TowardStep DEF NextBlock
<1>3. head # None /\ st = Post[op.tip] /\ Canonical(headers, op.at)
  BY <1>1 DEF HeadOK, StateOK, Executed, Written
<1>4. Canonical(headers', NextBlock)
  BY <1>1, <1>2, <1>3, CanonicalNext DEF AInv
<1>5. op'.phase = "install" /\ op'.at = NextBlock /\ op'.tip = op.tip
  BY <1>1 DEF AInv, OpOK, Operation
<1>6. StateOK'
  BY <1>1, <1>3, <1>4, <1>5 DEF StateOK, Executed, Written
<1>7. HeadOK' /\ ConnectedOK'
  BY <1>1, <1>3, <1>5 DEF HeadOK, ConnectedOK, TrueBase
<1>8. GoalOK' /\ LogsOK'
  BY <1>1, <1>5 DEF GoalOK, LogsOK
<1> QED
  BY <1>1, <1>6, <1>7, <1>8

LEMMA BInstallDone ==
    ASSUME Undisturbed, BInv, AInv', InstallDone
    PROVE  BInv'
<1> USE DEF BInv
<1>1. /\ op.phase = "install" /\ op.at = op.tip /\ op.tip \in Blocks
      /\ TrueBase(base) /\ base.id \in anc[op.tip]
      /\ UNCHANGED <<st, tree, hollow, base, headers, bodies, crashes, reorg>>
  BY DEF InstallDone, AInv, OpOK, disk, loop
<1>2. op.tip = Best(tree) /\ op.tip # base.id /\ reorg
  BY <1>1 DEF GoalOK, LogsOK
<1>3. head' = op.tip /\ op' = Finality(op.tip, bodies \cup hollow)
  BY <1>2 DEF InstallDone
<1>4. head # None /\ st = Post[op.tip] /\ Canonical(headers, op.tip)
  BY <1>1 DEF HeadOK, StateOK, Executed, Written
<1>5. op.tip \in bodies' /\ ConnectedOK'
  BY <1>1, <1>2, <1>4, Places DEF ConnectedOK
<1> QED
  BY <1>1, <1>2, <1>3, <1>4, <1>5, BNewHead

\* A new block on top of the head is executed.
LEMMA BExtend ==
    ASSUME Undisturbed, BInv, AInv', NEW b \in Blocks, Produce(b) \/ ApplyExternalBlock(b)
    PROVE  BInv'
<1> USE DEF BInv
<1>1. /\ op.phase = "idle" /\ b \in Blocks \ {Genesis} /\ parent[b] = head
      /\ st' = Append(st, b) /\ lastLogs' = b
      /\ op' = Operation("persist", Genesis, b, <<>>)
      /\ UNCHANGED <<head, tree, hollow, base, headers, bodies, logsAt, crashes, reorg>>
  BY ParamsAssumption
  DEF Produce, ApplyExternalBlock, disk, loop, idle, Undisturbed
<1>2. head # None /\ Post[b] = Append(Post[head], b)
  <2>1. parent[b] \in Blocks /\ Post[b] = Append(Post[parent[b]], b) /\ None \notin Blocks
    BY <1>1, TreeAssumption
  <2> QED  BY <2>1, <1>1
<1>3. st = Post[head] /\ Canonical(headers, head)
  BY <1>1, <1>2 DEF StateOK, Executed, Written
<1>4. op'.phase = "persist" /\ op'.tip = b
  BY <1>1 DEF Operation
<1>5. StateOK'
  BY <1>1, <1>2, <1>3, <1>4 DEF StateOK, Executed, Written
<1>6. HeadOK' /\ ConnectedOK'
  BY <1>1, <1>2, <1>4 DEF HeadOK, ConnectedOK, TrueBase
<1>7. GoalOK'
  BY <1>1, <1>2, <1>4 DEF GoalOK, Heaviest
<1>8. LogsOK'
  BY <1>1, <1>2, <1>4 DEF LogsOK, Written
<1> QED
  BY <1>1, <1>5, <1>6, <1>7, <1>8

LEMMA BPersistBlock ==
    ASSUME Undisturbed, BInv, AInv', PersistBlock
    PROVE  BInv'
<1> USE DEF BInv
<1>1. /\ op.phase = "persist" /\ op.tip \in Blocks
      /\ PutHeader(op.tip) /\ PutLogs(op.tip) /\ op' = [op EXCEPT !.phase = "record"]
      /\ UNCHANGED <<head, st, tree, hollow, base, bodies, crashes, reorg>>
  BY DEF PersistBlock, AInv, OpOK, memory, loop
<1>2. op.tip # Genesis /\ parent[op.tip] = head /\ head # None
  BY <1>1 DEF GoalOK, HeadOK
<1>3. st = Post[op.tip] /\ Canonical(headers, head)
  BY <1>1, <1>2 DEF StateOK, Executed, Written
<1>4. Canonical(headers', op.tip)
  BY <1>1, <1>2, <1>3, CanonicalNext DEF AInv
<1>5. op'.phase = "record" /\ op'.tip = op.tip
  BY <1>1 DEF AInv, OpOK, Operation
<1>6. StateOK'
  BY <1>1, <1>3, <1>4, <1>5 DEF StateOK, Executed, Written
<1>7. HeadOK' /\ ConnectedOK'
  BY <1>1, <1>2, <1>5 DEF HeadOK, ConnectedOK, TrueBase
<1>8. GoalOK'
  BY <1>1, <1>5 DEF GoalOK, Heaviest
<1>9. LogsOK'
  <2>1. ASSUME ~ reorg PROVE Readable(logsAt', op.tip)
    <3>1. lastLogs = op.tip /\ Readable(logsAt, head)
      BY <2>1, <1>1, <1>2 DEF LogsOK, Written
    <3> QED  BY <3>1, <1>1, <1>2, ReadableNext
  <2> QED  BY <2>1, <1>1, <1>5 DEF LogsOK, Written
<1> QED
  BY <1>1, <1>6, <1>7, <1>8, <1>9

\* A block on top of the heaviest tip is the heaviest; on top of another head
\* it leaves the heaviest tip where it was or takes its place.
LEMMA ExtendedBest ==
    ASSUME BInv, ConnectedOK', TreeOK(tree'), head # None,
           NEW b \in Blocks \ {Genesis}, parent[b] = head,
           tree' = Add(tree, b), bodies' = bodies \cup {b}
    PROVE  Best(tree') = b \/ (head # Best(tree) /\ Best(tree') = Best(tree))
<1> USE DEF BInv
<1>1. /\ head \in bodies /\ DOMAIN tree # {} /\ Best(tree) \in bodies
      /\ bodies = DOMAIN tree /\ bodies' = DOMAIN tree' /\ bodies' \subseteq Blocks
      /\ \A c \in DOMAIN tree : tree'[c] = tree[c]
  BY Places, AddOK DEF HeadOK, ConnectedOK, AInv, TreeOK
<1>2. /\ Best(tree') \in bodies'
      /\ \A c \in bodies' \ {Best(tree')} : Heavier(tree', Best(tree'), c)
  BY <1>1, BestOK
<1>3. SUFFICES ASSUME Best(tree') # b
               PROVE  head # Best(tree) /\ Best(tree') = Best(tree)
  OBVIOUS
<1>4. Best(tree') \in DOMAIN tree
  BY <1>1, <1>2, <1>3
<1>5. \A c \in DOMAIN tree \ {Best(tree')} : Heavier(tree, Best(tree'), c)
  BY <1>1, <1>2, <1>4 DEF Heavier
<1>6. Best(tree) = Best(tree')
  BY <1>4, <1>5, BestUnique DEF AInv
<1>7. head # Best(tree')
  <2>1. SUFFICES ASSUME head = Best(tree') PROVE FALSE
    OBVIOUS
  <2>2. Heavier(tree', head, b)
    BY <2>1, <1>2, <1>3
  <2>3. /\ tree'[head] = height[head] + 1 /\ tree'[b] = height[b] + 1
        /\ height[b] = height[head] + 1 /\ height[head] \in Nat
    BY <1>1, TreeAssumption DEF ConnectedOK
  <2> QED  BY <2>2, <2>3, SMT DEF Heavier
<1> QED
  BY <1>6, <1>7

LEMMA BRecordHead ==
    ASSUME Undisturbed, BInv, AInv', RecordHead
    PROVE  BInv'
<1> USE DEF BInv
<1>1. /\ op.phase = "record" /\ op.tip \in Blocks /\ head' = op.tip
      /\ tree' = Add(tree, op.tip) /\ bodies' = bodies \cup {op.tip}
      /\ op' = Finality(op.tip, bodies' \cup hollow)
      /\ UNCHANGED <<st, hollow, base, headers, logsAt, crashes, reorg>>
  BY DEF RecordHead, RecordBlock, AInv, OpOK
<1>2. op.tip \in Blocks \ {Genesis} /\ parent[op.tip] = head /\ head # None
  BY <1>1 DEF GoalOK, HeadOK
<1>3. st = Post[op.tip] /\ Canonical(headers, op.tip) /\ (~ reorg => Readable(logsAt, op.tip))
  BY <1>1, <1>2 DEF StateOK, LogsOK, Executed, Written
<1>4. ConnectedOK' /\ TreeOK(tree')
  BY <1>1, <1>2, AddConnected DEF AInv, HeadOK
<1>5. TrueBase(base) /\ base.id \in anc[op.tip]
  <2>1. TrueBase(base) /\ base.id \in anc[head]
    BY <1>2 DEF HeadOK
  <2>2. anc[op.tip] = {op.tip} \cup anc[head]
    BY <1>2, TreeAssumption
  <2> QED  BY <2>1, <2>2
<1>6. op.tip = Best(tree') \/ base.id \notin anc[Best(tree')]
  <2>1. \/ Best(tree') = op.tip
        \/ head # Best(tree) /\ Best(tree') = Best(tree)
    BY <1>1, <1>2, <1>4, ExtendedBest
  <2>2. head = Best(tree) \/ base.id \notin anc[Best(tree)]
    BY <1>1, <1>2 DEF GoalOK, Heaviest
  <2> QED  BY <2>1, <2>2
<1> QED
  BY <1>1, <1>2, <1>3, <1>4, <1>5, <1>6, BNewHead

LEMMA BFinalizeNext ==
    ASSUME Undisturbed, BInv, AInv', FinalizeNext
    PROVE  BInv'
<1> USE DEF BInv
<1>1. /\ op.phase = "finalize" /\ op.tip = head
      /\ UNCHANGED <<head, st, tree, hollow, base, headers, bodies, logsAt, crashes, reorg>>
  BY DEF FinalizeNext, GoalOK, memory, disk, loop
<1>2. op'.phase \in {"idle", "finalize"} /\ (op'.phase = "finalize" => op'.tip = head)
  BY <1>1 DEF FinalizeNext, Idle, Operation
<1>3. head # None
  BY <1>1 DEF HeadOK
<1>4. StateOK' /\ LogsOK'
  BY <1>1, <1>2, <1>3 DEF StateOK, LogsOK, Executed, Written
<1>5. HeadOK' /\ ConnectedOK'
  BY <1>1, <1>2, <1>3 DEF HeadOK, ConnectedOK, TrueBase
<1>6. GoalOK'
  BY <1>1, <1>2, <1>3 DEF GoalOK, Heaviest
<1> QED
  BY <1>1, <1>4, <1>5, <1>6

LEMMA BFinalizeDone ==
    ASSUME Undisturbed, BInv, AInv', FinalizeDone
    PROVE  BInv'
<1> USE DEF BInv
<1>1. /\ op.phase = "finalize" /\ op.tip = head /\ op' = Idle
      /\ op.at \in anc[op.tip] /\ op.ns = Post[op.at] /\ base.id \in anc[op.at]
      /\ base' = [id |-> op.at, st |-> op.ns]
      /\ UNCHANGED <<head, st, tree, hollow, headers, bodies, logsAt, crashes, reorg>>
  BY DEF FinalizeDone, GoalOK, AInv, OpOK, loop
<1>2. op'.phase = "idle" /\ head # None /\ head \in Blocks /\ Best(tree) \in Blocks
  BY <1>1, Places DEF HeadOK, Idle, Operation
<1>3. TrueBase(base)' /\ base'.id = op.at
  BY <1>1, <1>2, AncEnds DEF TrueBase
<1>4. head = Best(tree) \/ op.at \notin anc[Best(tree)]
  BY <1>1, <1>2, AncTransitive DEF GoalOK, Heaviest
<1>5. HeadOK' /\ ConnectedOK'
  BY <1>1, <1>2, <1>3 DEF HeadOK, ConnectedOK
<1>6. GoalOK'
  BY <1>1, <1>2, <1>3, <1>4 DEF GoalOK, Heaviest
<1>7. StateOK' /\ LogsOK'
  BY <1>1, <1>2 DEF StateOK, LogsOK, Executed, Written
<1> QED
  BY <1>1, <1>5, <1>6, <1>7

LEMMA BNext ==
    ASSUME Undisturbed, BInv, [Next]_vars
    PROVE  BInv'
<1>1. AInv'
  BY ANext DEF BInv, Undisturbed, SnapshotsMatch
<1>2. CASE UNCHANGED vars
  <2>1. Executed' = Executed /\ Written' = Written
    BY <1>2 DEF vars, memory, Executed, Written, NextBlock
  <2> QED
    BY <1>1, <1>2, <2>1
    DEF vars, memory, disk, loop, BInv, ConnectedOK, HeadOK, StateOK, GoalOK, LogsOK,
        Heaviest, TrueBase
<1>3. CASE GenesisHeader \/ GenesisRecord
  BY <1>1, <1>3, BGenesisHeader, BGenesisRecord
<1>4. CASE \E b \in Blocks : Gossip(b) \/ Produce(b)
  BY <1>1, <1>4, BAcceptBlock, BExtend, BQuiet DEF Gossip
<1>5. CASE ForwardApply \/ ForwardCommit \/ ForwardDone
  BY <1>1, <1>5, BForwardApply, BForwardCommit, BForwardDone
<1>6. CASE ReplayNext \/ ReplayDone \/ InstallNext \/ InstallDone
  BY <1>1, <1>6, BReplayNext, BReplayDone, BInstallNext, BInstallDone
<1>7. CASE PersistBlock \/ RecordHead \/ FinalizeNext \/ FinalizeDone
  BY <1>1, <1>7, BPersistBlock, BRecordHead, BFinalizeNext, BFinalizeDone
<1>8. CASE \/ GenesisSave \/ ReadHead \/ CanProduce \/ ProduceNothing
           \/ SaveTimer \/ TrailingSave
  BY <1>1, <1>8, BQuiet
<1>9. CASE (\E p \in SyncTips : SyncFrom(p)) \/ SyncInstall
  BY <1>9 DEF SyncInstall, Undisturbed, BInv, AInv, SyncOK
<1>10. CASE SyncHeader \/ SyncDone
  BY <1>10 DEF SyncHeader, SyncDone, Undisturbed, BInv, AInv, OpOK
<1>11. CASE Crash
  <2>1. crashes < MaxCrashes
    BY <1>11 DEF Crash, Restart
  <2>2. crashes \in Nat /\ MaxCrashes = 0
    BY DEF Undisturbed, BInv
  <2> QED  BY <2>1, <2>2, SMT
<1> QED
  BY <1>2, <1>3, <1>4, <1>5, <1>6, <1>7, <1>8, <1>9, <1>10, <1>11 DEF Next, Continue

LEMMA BAlways ==
    ASSUME Undisturbed
    PROVE  Spec => []BInv
<1>1. Init => BInv
  BY BInit
<1>2. BInv /\ [Next]_vars => BInv'
  BY BNext
<1> QED
  BY <1>1, <1>2, PTL DEF Spec

-----------------------------------------------------------------------------
(* Theorems *)

\* Whenever Chain.mu is free, the account state is what executing the canonical
\* chain from genesis gives (reorgToBest, ProduceBlock, ApplyExternalBlock).
THEOREM StateAlwaysMatchesHead ==
    ASSUME Undisturbed
    PROVE  Spec => []StateMatchesHead
<1>1. BInv => StateMatchesHead
  BY DEF BInv, StateOK, Executed, StateMatchesHead, idle
<1> QED
  BY <1>1, BAlways, PTL

\* Whenever Chain.mu is free, the head is the heaviest tip the node knows, or
\* that tip does not descend from the finalized block (reorgToBest): the head
\* depends on which blocks arrived and not on their order.
THEOREM HeadAlwaysHeaviest ==
    ASSUME Undisturbed
    PROVE  Spec => []HeadIsHeaviest
<1>1. BInv => HeadIsHeaviest
  BY DEF BInv, GoalOK, Heaviest, HeadIsHeaviest, idle
<1> QED
  BY <1>1, BAlways, PTL

\* Whenever Chain.mu is free, the header files of all heights up to the head
\* are those of the canonical chain, although a reorg overwrites them one by
\* one and never removes any (commitCanonical, PutHeader).
THEOREM HeadersAlwaysCanonical ==
    ASSUME Undisturbed
    PROVE  Spec => []HeadersAreCanonical
<1>1. BInv => HeadersAreCanonical
  BY DEF BInv, StateOK, Written, Canonical, HeadersAreCanonical, idle
<1> QED
  BY <1>1, BAlways, PTL

\* The canonical chain always goes through the finalized block
\* (advanceFinality, reorgToBest).
THEOREM HeadAlwaysKeepsFinalized ==
    ASSUME Undisturbed
    PROVE  Spec => []HeadKeepsFinalized
<1>1. BInv => HeadKeepsFinalized
  BY DEF BInv, HeadOK, HeadKeepsFinalized
<1> QED
  BY <1>1, BAlways, PTL

\* On the linear path the logs stored for every canonical block are its own
\* (persistLogs).
THEOREM LogsAlwaysReadable ==
    ASSUME Undisturbed
    PROVE  Spec => []LogsReadable
<1>1. BInv => LogsReadable
  BY DEF BInv, LogsOK, Written, Readable, LogsReadable, idle
<1> QED
  BY <1>1, BAlways, PTL

\* No step makes the canonical chain shorter (reorgToBest).
THEOREM ChainNeverShorter ==
    ASSUME Undisturbed
    PROVE  Spec => NeverShorter
<1> DEFINE Longer == head # None => head' # None /\ height[head'] >= height[head]
<1>1. BInv /\ [Next]_vars => [Longer]_vars
  <2> SUFFICES ASSUME BInv, [Next]_vars, head # None
               PROVE  head' # None /\ height[head'] >= height[head]
    OBVIOUS
  <2>1. head \in Blocks /\ height[head] \in Nat /\ head \in bodies /\ bodies = DOMAIN tree
    BY Places, TreeAssumption DEF BInv, HeadOK, ConnectedOK
  <2>2. CASE head' = head
    BY <2>1, <2>2, SMT
  <2>3. op.tip \in Blocks /\ height[op.tip] \in Nat /\ op.tip # None
    BY TreeAssumption DEF BInv, AInv, OpOK
  <2>4. CASE ForwardDone
    <3>1. head' = op.tip /\ head \in anc[op.tip]
      BY <2>4 DEF ForwardDone, BInv, GoalOK
    <3>2. head = op.tip \/ height[head] < height[op.tip]
      BY <3>1, <2>3, AncLower
    <3> QED  BY <3>1, <3>2, <2>1, <2>3, SMT
  <2>5. CASE InstallDone /\ head' # head
    <3>1. head' = op.tip /\ op.tip = Best(tree)
      BY <2>5 DEF InstallDone, BInv, GoalOK
    <3>2. op.tip \in bodies /\ Heavier(tree, op.tip, head)
      BY <3>1, <2>1, <2>5, BestOK, Places DEF BInv, AInv
    <3>3. tree[op.tip] = height[op.tip] + 1 /\ tree[head] = height[head] + 1
      BY <3>2, <2>1 DEF BInv, ConnectedOK
    <3>4. height[op.tip] >= height[head]
      BY <3>2, <3>3, <2>1, <2>3, SMT DEF Heavier
    <3> QED  BY <3>1, <3>4, <2>3
  <2>6. CASE RecordHead
    <3>1. head' = op.tip /\ op.tip # Genesis /\ parent[op.tip] = head
      BY <2>6 DEF RecordHead, BInv, GoalOK
    <3>2. height[op.tip] = height[head] + 1
      BY <3>1, <2>3, TreeAssumption
    <3> QED  BY <3>1, <3>2, <2>1, <2>3, SMT
  <2>7. CASE GenesisRecord
    BY <2>7 DEF GenesisRecord, BInv, HeadOK
  <2>8. CASE SyncDone
    BY <2>8 DEF SyncDone, Undisturbed, BInv, AInv, OpOK
  <2>9. CASE Crash
    <3>1. crashes < MaxCrashes
      BY <2>9 DEF Crash, Restart
    <3>2. crashes \in Nat /\ MaxCrashes = 0
      BY DEF Undisturbed, BInv
    <3> QED  BY <3>1, <3>2, SMT
  <2>10. CASE ~ (ForwardDone \/ InstallDone \/ RecordHead \/ GenesisRecord \/ SyncDone \/ Crash)
    <3>1. head' = head
      BY <2>10
      DEF Next, Continue, Gossip, GenesisHeader, GenesisSave, ForwardApply, ForwardCommit,
          ReplayNext, ReplayDone, InstallNext, PersistBlock, FinalizeNext, FinalizeDone,
          SyncHeader, AcceptBlock, ApplyExternalBlock, StrikeSender, Produce, ReadHead,
          CanProduce, ProduceNothing, SyncFrom, SyncInstall, SaveTimer, TrailingSave,
          vars, memory
    <3> QED  BY <3>1, <2>2
  <2> QED  BY <2>2, <2>4, <2>5, <2>6, <2>7, <2>8, <2>9, <2>10
<1> QED
  BY <1>1, BAlways, PTL DEF Spec, NeverShorter

=============================================================================
