------------------------------- MODULE Chain --------------------------------
(***************************************************************************)
(* One node's chain: internal/chain with its fork-choice tree, the header  *)
(* and body store, the account state, finality, fast sync and restarts.    *)
(*                                                                         *)
(* Chain.mu makes the operations exclude each other, so one operation `op` *)
(* is in progress at a time.  It is still taken in steps, because its disk *)
(* writes and its updates of the live account state are not atomic: the    *)
(* node's save timer (which takes only State.mu) and a crash may come      *)
(* between any two of them.                                                *)
(*                                                                         *)
(* Abstractions.  A block is a member of Blocks; its place in the tree is  *)
(* constant.  The account state is the sequence of the blocks that were    *)
(* applied to it; Applies(s, b) says whether State.ApplyBlock accepts b on *)
(* s (Ledger.tla models it), Authorizes(s, b) whether the PoStorage engine *)
(* accepts the header of b, which it judges by the validators registered   *)
(* in the LIVE state s.  Shards and timestamps are left out.               *)
(***************************************************************************)
EXTENDS Integers, Sequences

CONSTANTS
    Blocks, Genesis, None,
    parent,             \* Header.PrevHash
    height,             \* Header.Height
    anc,                \* a block and its ancestors
    rank,               \* the order of the block ids (forkchoice.less)
    Post,               \* the state a block's branch leads to
    Anchor,             \* the block a transaction of the block refers to by
                        \* height (a faucet claim, a storage proof), or None
    Applies(_, _), Authorizes(_, _)

CONSTANTS
    Emits,              \* blocks whose execution emits event logs
    BadLogs,            \* blocks whose LogsRoot is not what execution yields
    Own,                \* blocks this node may produce
    Listed,             \* blocks of the validators the Authority engine knows
    Engines,            \* the values of Server.reorg: TRUE for PoStorage
    FinalityDepth,
    GenesisConfig,      \* TRUE: the node's config has the genesis funding
    SyncTips,           \* heads a peer may report to SyncFrom
    Unsigned,           \* those of peers that derived genesis themselves, so
                        \* that its header has no signature
    Snapshots,          \* Snapshots[p]: heads of that peer when it is asked
                        \* for its state, after its headers were fetched
    MaxCrashes          \* bound of the model

ASSUME TreeAssumption ==
    /\ Genesis \in Blocks /\ None \notin Blocks
    /\ parent \in [Blocks \ {Genesis} -> Blocks]
    /\ height \in [Blocks -> Nat] /\ height[Genesis] = 0
    /\ anc \in [Blocks -> SUBSET Blocks] /\ anc[Genesis] = {Genesis}
    /\ Anchor \in [Blocks -> Blocks \cup {None}]
    /\ rank \in [Blocks -> Nat]
    /\ \A a, b \in Blocks : rank[a] = rank[b] => a = b
    /\ Post \in [Blocks -> Seq(Blocks)] /\ Post[Genesis] = <<Genesis>>
    /\ \A b \in Blocks \ {Genesis} :
          /\ height[b] = height[parent[b]] + 1
          /\ anc[b] = {b} \cup anc[parent[b]]
          /\ Post[b] = Append(Post[parent[b]], b)

ASSUME NoneAssumption == \A b \in Blocks : None # [id |-> b, st |-> Post[b]]

ASSUME ParamsAssumption ==
    /\ Emits \subseteq Blocks /\ BadLogs \subseteq Blocks
    /\ Own \subseteq Blocks \ {Genesis}
    /\ Listed \subseteq Blocks
    /\ Engines \subseteq BOOLEAN /\ GenesisConfig \in BOOLEAN
    /\ FinalityDepth \in Nat /\ MaxCrashes \in Nat
    /\ SyncTips \subseteq Blocks /\ Unsigned \subseteq SyncTips
    /\ Snapshots \in [SyncTips -> SUBSET Blocks]

VARIABLES              \* memory
    head,              \* Chain.head, None while hasGen is false
    st,                \* Chain.state
    lastLogs,          \* the block whose logs State.LastLogs() returns
    tree,              \* Chain.tree: cumulative weight of the known blocks
    hollow,            \* headers put in blockByID without a body (by sync)
    base,              \* replayBase, replayBaseID (None without one)
    sync,              \* SyncFrom between its requests and SyncInstall
    turn,              \* maybeProduce: the head it read, then the block it may
                       \* build on it, then the block it builds
    saving,            \* maybeProduce or trySync has its trailing save to do
    op                 \* the operation that holds Chain.mu

VARIABLES              \* disk
    headers,           \* blocks/<height>.hdr
    bodies,            \* bodies/<id>.json
    logsAt,            \* the block whose logs were stored for a height
    baseFile,          \* replaybase.json
    stateFile          \* state.json

VARIABLES
    reorg,             \* Server.reorg: gossip goes to AcceptBlock (PoStorage)
                       \* or to ApplyExternalBlock (Authority); never changes
    crashes,           \* counts towards MaxCrashes
    struck             \* history: blocks whose sender was struck for forgery

memory == <<head, st, lastLogs, tree, hollow, base>>
loop == <<sync, turn, saving, crashes, struck, reorg>>
disk == <<headers, bodies, logsAt, baseFile>>
vars == <<memory, disk, loop, op, stateFile>>

Max(S) == CHOOSE n \in S : \A k \in S : k <= n

-----------------------------------------------------------------------------
(* The fork-choice tree *)

Add(tr, b) ==
    IF b \in DOMAIN tr THEN tr
    ELSE [c \in DOMAIN tr \cup {b} |->
             IF c # b THEN tr[c]
             ELSE IF b # Genesis /\ parent[b] \in DOMAIN tr
                  THEN tr[parent[b]] + 1
                  ELSE 1]

\* Mutant: only the ids are compared.
HeavierById(tr, b, c) == rank[b] > rank[c]

Heavier(tr, b, c) ==
    \/ tr[b] > tr[c]
    \/ tr[b] = tr[c] /\ rank[b] < rank[c]

Best(tr) ==
    CHOOSE b \in DOMAIN tr : \A c \in DOMAIN tr \ {b} : Heavier(tr, b, c)

-----------------------------------------------------------------------------
(* Walking a branch *)

\* Chain.block(id): every body in memory is on disk too, but for the headers
\* that a sync left there.
Known(b) == b \in bodies \cup hollow

\* walkDown(tip, stop), and the same walk in advanceFinality.
CanWalk(bs, tip, stop) == stop \in anc[tip] /\ anc[tip] \ anc[stop] \subseteq bs

\* The block after `at` on the way to `tip`.
Toward(at, tip) == CHOOSE b \in anc[tip] \ {Genesis} : parent[b] = at

Operation(phase, at, tip, ns) ==
    [phase |-> phase, at |-> at, tip |-> tip, ns |-> ns]

Idle == Operation("idle", Genesis, Genesis, <<>>)

idle == op.phase = "idle"

NextBlock == Toward(op.at, op.tip)

-----------------------------------------------------------------------------
(* The ledger and the consensus engine *)

\* BodyHashAt and ShardAt look a height up in the header files of now, whichever
\* branch is being executed.
AnchorMet(b) ==
    LET a == Anchor[b] IN
    a # None => height[a] \in DOMAIN headers /\ headers[height[a]] = a

\* ApplyBlock of b on the state s.
Executes(s, b) == Applies(s, b) /\ AnchorMet(b)

\* Engine.AuthorizeHeader, which reads the live registry or the config.
AuthorizeHeader(b) == IF reorg THEN Authorizes(st, b) ELSE b \in Listed

-----------------------------------------------------------------------------
(* Finality *)

\* advanceFinality, called when `h` has become the head: whether there are
\* blocks to finalize and the walk to the replay base succeeds.
Finality(h, bs) ==
    IF /\ FinalityDepth # 0
       /\ base # None
       /\ height[h] >= FinalityDepth
       /\ height[h] - FinalityDepth > height[base.id]
       /\ CanWalk(bs, h, base.id)
    THEN Operation("finalize", base.id, h, base.st)
    ELSE Idle

FinalizeNext ==
    /\ op.phase = "finalize"
    /\ height[op.at] < height[op.tip] - FinalityDepth
    /\ op' = IF Executes(op.ns, NextBlock)
             THEN Operation("finalize", NextBlock, op.tip,
                            Append(op.ns, NextBlock))
             ELSE Idle
    /\ UNCHANGED <<memory, disk, loop, stateFile>>

\* Mutant: the live state is taken for the state of the finalized block.
FinalizeDoneLive ==
    /\ op.phase = "finalize"
    /\ height[op.at] = height[op.tip] - FinalityDepth
    /\ base' = [id |-> op.at, st |-> st]
    /\ baseFile' = base'
    /\ op' = Idle
    /\ UNCHANGED <<head, st, lastLogs, tree, hollow, headers, bodies, logsAt,
                   loop, stateFile>>

\* Mutant: the new replay base is not written to disk.
FinalizeDoneUnsaved ==
    /\ op.phase = "finalize"
    /\ height[op.at] = height[op.tip] - FinalityDepth
    /\ base' = [id |-> op.at, st |-> op.ns]
    /\ op' = Idle
    /\ UNCHANGED <<head, st, lastLogs, tree, hollow, disk, loop, stateFile>>

FinalizeDone ==
    /\ op.phase = "finalize"
    /\ height[op.at] = height[op.tip] - FinalityDepth
    /\ base' = [id |-> op.at, st |-> op.ns]
    /\ baseFile' = base'
    /\ op' = Idle
    /\ UNCHANGED <<head, st, lastLogs, tree, hollow, headers, bodies, logsAt,
                   loop, stateFile>>

-----------------------------------------------------------------------------
(* Persisting a block *)

\* PutHeader overwrites the height's file, but never removes higher ones.
PutHeader(b) ==
    headers' = [h \in DOMAIN headers \cup {height[b]} |->
                   IF h = height[b] THEN b ELSE headers[h]]

\* persistLogs stores the logs the LIVE state executed last, whichever block
\* it persists.
PutLogs(b) ==
    logsAt' = IF lastLogs = None \/ lastLogs \notin Emits THEN logsAt
              ELSE [h \in DOMAIN logsAt \cup {height[b]} |->
                       IF h = height[b] THEN lastLogs ELSE logsAt[h]]

RecordBlock(b) ==
    /\ tree' = Add(tree, b)
    /\ bodies' = bodies \cup {b}

-----------------------------------------------------------------------------
(* Genesis *)

\* bootstrapGenesis and Chain.Genesis, before the servers and the timers
\* start: the funding is credited and the header is written ...
GenesisHeader ==
    /\ GenesisConfig
    /\ idle
    /\ head = None
    /\ DOMAIN headers = {}
    /\ st' = Append(st, Genesis)
    /\ PutHeader(Genesis)
    /\ op' = Operation("genesis", Genesis, Genesis, <<>>)
    /\ UNCHANGED <<head, lastLogs, tree, hollow, base, bodies, logsAt, baseFile,
                   loop, stateFile>>

\* ... then the head, the replay base, the tree and the body ...
GenesisRecord ==
    /\ op.phase = "genesis"
    /\ head' = Genesis
    /\ base' = [id |-> Genesis, st |-> st]
    /\ baseFile' = base'
    /\ RecordBlock(Genesis)
    /\ op' = [op EXCEPT !.phase = "save"]
    /\ UNCHANGED <<st, lastLogs, hollow, headers, logsAt, loop, stateFile>>

\* ... and the state is saved.
GenesisSave ==
    /\ op.phase = "save"
    /\ stateFile' = st
    /\ op' = Idle
    /\ UNCHANGED <<memory, disk, loop>>

-----------------------------------------------------------------------------
(* AcceptBlock and reorgToBest *)

\* Mutant: only fast-forwards.
ReorgToBestForward(tr, bs) ==
    LET best == Best(tr) IN
    IF best # head /\ CanWalk(bs, best, head)
    THEN Operation("forward", head, best, <<>>)
    ELSE Idle

\* What reorgToBest starts, given the tree and the bodies it sees.
ReorgToBest(tr, bs) ==
    LET best == Best(tr) IN
    IF best = head THEN Idle
    ELSE IF CanWalk(bs, best, head)
    THEN Operation("forward", head, best, <<>>)
    ELSE IF base # None /\ CanWalk(bs, best, base.id)
    THEN Operation("replay", base.id, best, base.st)
    ELSE Idle

\* A new block of a known parent, authorized by the live validator set.
AcceptBlock(b) ==
    /\ reorg
    /\ idle /\ head # None
    /\ b # Genesis /\ b \notin DOMAIN tree
    /\ AuthorizeHeader(b)
    /\ Known(parent[b])
    /\ RecordBlock(b)
    /\ op' = ReorgToBest(tree', bodies' \cup hollow)
    /\ UNCHANGED <<head, st, lastLogs, hollow, base, headers, logsAt, baseFile,
                   loop, stateFile>>

\* Fast-forward: the live state takes the next block ...
ForwardApply ==
    /\ op.phase = "forward"
    /\ op.at # op.tip
    /\ IF Executes(st, NextBlock)
       THEN /\ st' = Append(st, NextBlock)
            /\ lastLogs' = NextBlock
            /\ op' = [op EXCEPT !.phase = "commit"]
       ELSE /\ op' = Idle
            /\ UNCHANGED <<st, lastLogs>>
    /\ UNCHANGED <<head, tree, hollow, base, disk, loop, stateFile>>

\* ... and commitCanonical writes it, before the next one is tried.
ForwardCommit ==
    /\ op.phase = "commit"
    /\ PutHeader(NextBlock)
    /\ PutLogs(NextBlock)
    /\ op' = Operation("forward", NextBlock, op.tip, <<>>)
    /\ UNCHANGED <<memory, bodies, baseFile, loop, stateFile>>

ForwardDone ==
    /\ op.phase = "forward"
    /\ op.at = op.tip
    /\ head' = op.tip
    /\ op' = Finality(op.tip, bodies \cup hollow)
    /\ UNCHANGED <<st, lastLogs, tree, hollow, base, disk, loop, stateFile>>

\* Reorg: the branch is replayed on a clone of the replay base.
ReplayNext ==
    /\ op.phase = "replay"
    /\ op.at # op.tip
    /\ op' = IF Executes(op.ns, NextBlock)
             THEN Operation("replay", NextBlock, op.tip,
                            Append(op.ns, NextBlock))
             ELSE Idle
    /\ UNCHANGED <<memory, disk, loop, stateFile>>

\* Mutant: the replayed state is not installed.
ReplayDoneKeepsState ==
    /\ op.phase = "replay"
    /\ op.at = op.tip
    /\ op' = Operation("install", base.id, op.tip, <<>>)
    /\ UNCHANGED <<memory, disk, loop, stateFile>>

\* state.ReplaceWith(ns) does not touch the last logs.
ReplayDone ==
    /\ op.phase = "replay"
    /\ op.at = op.tip
    /\ st' = op.ns
    /\ op' = Operation("install", base.id, op.tip, <<>>)
    /\ UNCHANGED <<head, lastLogs, tree, hollow, base, disk, loop, stateFile>>

\* Mutant: the headers of the winning branch are not written.
InstallNextUnwritten ==
    /\ op.phase = "install"
    /\ op.at # op.tip
    /\ op' = [op EXCEPT !.at = NextBlock]
    /\ UNCHANGED <<memory, disk, loop, stateFile>>

InstallNext ==
    /\ op.phase = "install"
    /\ op.at # op.tip
    /\ PutHeader(NextBlock)
    /\ PutLogs(NextBlock)
    /\ op' = [op EXCEPT !.at = NextBlock]
    /\ UNCHANGED <<memory, bodies, baseFile, loop, stateFile>>

\* A branch without blocks (the best tip is the replay base) leaves the head.
InstallDone ==
    /\ op.phase = "install"
    /\ op.at = op.tip
    /\ IF op.tip = base.id
       THEN op' = Idle /\ UNCHANGED head
       ELSE /\ head' = op.tip
            /\ op' = Finality(op.tip, bodies \cup hollow)
    /\ UNCHANGED <<st, lastLogs, tree, hollow, base, disk, loop, stateFile>>

-----------------------------------------------------------------------------
(* ProduceBlock and ApplyExternalBlock *)

\* The loop goroutine is between two timer events.
loopFree == sync = None /\ turn = None /\ ~ saving

Turn(phase, on, block) == [phase |-> phase, on |-> on, block |-> block]

\* maybeProduce reads the head (under Chain.mu) ...
ReadHead ==
    /\ idle /\ head # None /\ loopFree /\ Own # {}
    /\ turn' = Turn("read", head, None)
    /\ UNCHANGED <<memory, disk, op, sync, saving, stateFile, crashes, struck, reorg>>

\* ... asks the engine whether it leads a round on that head, which the engine
\* answers from the live state, without Chain.mu ...
CanProduce ==
    /\ turn # None /\ turn.phase = "read"
    /\ \E b \in Own :
          /\ parent[b] = turn.on /\ AuthorizeHeader(b)
          /\ turn' = Turn("elected", turn.on, b)
    /\ UNCHANGED <<memory, disk, op, sync, saving, stateFile, crashes, struck, reorg>>

\* ... and calls ProduceBlock, which extends the head of now.  If that is still
\* the head of the election, the block is the one the node was elected for; if
\* not, it is the block with the same round on the new head.
Produce(b) ==
    /\ idle /\ turn # None /\ turn.phase = "elected"
    /\ b \in Own /\ b \notin bodies /\ parent[b] = head
    /\ turn.on = head => b = turn.block
    /\ Executes(st, b)
    /\ st' = Append(st, b)
    /\ lastLogs' = b
    /\ turn' = Turn("producing", turn.on, b)
    /\ op' = Operation("persist", Genesis, b, <<>>)
    /\ UNCHANGED <<head, tree, hollow, base, disk, sync, saving, stateFile,
                   crashes, struck, reorg>>

\* A peer is ahead, another validator leads the round, there is nothing to put
\* in a block, or ApplyBlock refuses it.
ProduceNothing ==
    /\ idle /\ turn # None /\ turn.phase # "producing"
    /\ turn' = None
    /\ UNCHANGED <<memory, disk, op, sync, saving, stateFile, crashes, struck, reorg>>

\* The linear path (authority engine): only the successor of the head.  The
\* logs root is compared after the state has changed.
ApplyExternalBlock(b) ==
    /\ ~ reorg
    /\ idle /\ head # None
    /\ b # Genesis /\ parent[b] = head
    /\ AuthorizeHeader(b)
    /\ Executes(st, b)
    /\ st' = Append(st, b)
    /\ lastLogs' = b
    /\ IF b \in BadLogs
       THEN op' = Idle /\ struck' = struck \cup {b}
       ELSE op' = Operation("persist", Genesis, b, <<>>) /\ UNCHANGED struck
    /\ UNCHANGED <<head, tree, hollow, base, disk, sync, turn, saving,
                   stateFile, crashes, reorg>>

\* Mutant: the logs are not stored.
PersistBlockNoLogs ==
    /\ op.phase = "persist"
    /\ PutHeader(op.tip)
    /\ op' = [op EXCEPT !.phase = "record"]
    /\ UNCHANGED <<memory, bodies, logsAt, baseFile, loop, stateFile>>

\* persistBlockSet and persistLogs.
PersistBlock ==
    /\ op.phase = "persist"
    /\ PutHeader(op.tip)
    /\ PutLogs(op.tip)
    /\ op' = [op EXCEPT !.phase = "record"]
    /\ UNCHANGED <<memory, bodies, baseFile, loop, stateFile>>

\* The new head, and only then its body.
RecordHead ==
    /\ op.phase = "record"
    /\ head' = op.tip
    /\ RecordBlock(op.tip)
    /\ op' = Finality(op.tip, bodies' \cup hollow)
    /\ IF turn # None /\ turn.phase = "producing"
       THEN turn' = None /\ saving' = TRUE
       ELSE UNCHANGED <<turn, saving>>
    /\ UNCHANGED <<st, lastLogs, hollow, base, headers, logsAt, baseFile, sync,
                   stateFile, crashes, struck, reorg>>

\* A header the engine does not authorize: IsForgery(err), so the gossip
\* handler strikes the sender.
StrikeSender(b) ==
    /\ idle /\ head # None
    /\ b # Genesis /\ (reorg => b \notin DOMAIN tree)
    /\ ~ AuthorizeHeader(b)
    /\ struck' = struck \cup {b}
    /\ UNCHANGED <<memory, disk, op, sync, turn, saving, stateFile, crashes, reorg>>

-----------------------------------------------------------------------------
(* Fast sync *)

\* Mutant: off by one, a node one block behind does not sync.
SyncFromLate(p) ==
    /\ idle /\ loopFree
    /\ IF head = None THEN ~ GenesisConfig ELSE height[p] > height[head] + 1
    /\ \E q \in Snapshots[p] : sync' = [tip |-> p, snap |-> Post[q]]
    /\ UNCHANGED <<memory, disk, op, turn, saving, stateFile, crashes, struck, reorg>>

\* SyncFrom: a peer reports a greater height, sends its headers and, some
\* time later, its state.  The local height is not looked at again.
SyncFrom(p) ==
    /\ idle /\ loopFree
    /\ IF head = None THEN ~ GenesisConfig ELSE height[p] > height[head]
    /\ \E q \in Snapshots[p] : sync' = [tip |-> p, snap |-> Post[q]]
    /\ UNCHANGED <<memory, disk, op, turn, saving, stateFile, crashes, struck, reorg>>

SyncInstall ==
    /\ idle /\ sync # None
    /\ op' = Operation("sync", None, sync.tip, sync.snap)
    /\ UNCHANGED <<memory, disk, loop, stateFile>>

\* Every header is authorized by the live state, and overwrites the stored
\* one before the next is looked at.
SyncHeader ==
    LET b == IF op.at = None THEN Genesis ELSE NextBlock IN
    /\ op.phase = "sync"
    /\ op.at # op.tip
    /\ IF AuthorizeHeader(b) /\ (b = Genesis => op.tip \notin Unsigned)
       THEN /\ PutHeader(b)
            /\ op' = [op EXCEPT !.at = b]
            /\ UNCHANGED sync
       ELSE op' = Idle /\ sync' = None /\ UNCHANGED headers
    /\ UNCHANGED <<memory, bodies, logsAt, baseFile, turn, saving, stateFile,
                   crashes, struck, reorg>>

\* Mutant: the snapshot is not installed.
SyncDoneKeepsState ==
    /\ op.phase = "sync"
    /\ op.at = op.tip
    /\ head' = op.tip
    /\ base' = [id |-> op.tip, st |-> op.ns]
    /\ baseFile' = base'
    /\ tree' = Add(tree, op.tip)
    /\ hollow' = hollow \cup {op.tip}
    /\ sync' = None
    /\ saving' = (height[op.tip] > 0)
    /\ op' = Idle
    /\ UNCHANGED <<st, lastLogs, headers, bodies, logsAt, turn, stateFile,
                   crashes, struck, reorg>>

\* Mutant: the synced tip does not become the replay base.
SyncDoneNoCheckpoint ==
    /\ op.phase = "sync"
    /\ op.at = op.tip
    /\ st' = op.ns
    /\ head' = op.tip
    /\ tree' = Add(tree, op.tip)
    /\ hollow' = hollow \cup {op.tip}
    /\ sync' = None
    /\ saving' = (height[op.tip] > 0)
    /\ op' = Idle
    /\ UNCHANGED <<lastLogs, base, disk, turn, stateFile, crashes, struck, reorg>>

SyncDone ==
    /\ op.phase = "sync"
    /\ op.at = op.tip
    /\ st' = op.ns
    /\ head' = op.tip
    /\ base' = [id |-> op.tip, st |-> op.ns]
    /\ baseFile' = base'
    /\ tree' = Add(tree, op.tip)
    /\ hollow' = hollow \cup {op.tip}
    /\ sync' = None
    /\ saving' = (height[op.tip] > 0)
    /\ op' = Idle
    /\ UNCHANGED <<lastLogs, headers, bodies, logsAt, turn, stateFile, crashes,
                   struck, reorg>>

-----------------------------------------------------------------------------
(* Saving, crashing and restarting *)

\* The save timer, which State.mu alone guards: it may come inside a gossip
\* handler.  The timers of Node.loops run on one goroutine, so it does not come
\* inside maybeProduce or trySync.
SaveTimer ==
    /\ loopFree /\ op.phase \notin {"genesis", "save"}
    /\ stateFile # st
    /\ stateFile' = st
    /\ UNCHANGED <<memory, disk, loop, op>>

\* The save at the end of maybeProduce and of trySync, after Chain.mu is free.
TrailingSave ==
    /\ saving /\ op.phase # "finalize"
    /\ saving' = FALSE
    /\ stateFile' = st
    /\ UNCHANGED <<memory, disk, sync, turn, crashes, struck, reorg, op>>

\* Node.New and chain.New over what is on disk.
Restart(file) ==
    LET top == headers[Max(DOMAIN headers)] IN
    /\ crashes < MaxCrashes
    /\ crashes' = crashes + 1
    /\ st' = file
    /\ stateFile' = file
    /\ lastLogs' = None
    /\ IF DOMAIN headers = {}
       THEN head' = None /\ tree' = [b \in {} |-> 0]
       ELSE head' = top /\ tree' = [b \in {top} |-> 1]
    /\ hollow' = {}
    /\ base' = baseFile
    /\ sync' = None /\ turn' = None /\ saving' = FALSE
    /\ op' = Idle
    /\ UNCHANGED <<disk, struck, reorg>>

\* The process ends at any point; state.json is as it was saved last, or
\* unreadable if a save was cut short (then the node starts with an empty
\* state).  shutdown() is a save followed by this: the servers run on meanwhile.
Crash ==
    \/ Restart(stateFile)
    \/ stateFile # <<>> /\ Restart(<<>>)

-----------------------------------------------------------------------------
Init ==
    /\ head = None
    /\ st = <<>>
    /\ lastLogs = None
    /\ tree = [b \in {} |-> 0]
    /\ hollow = {}
    /\ base = None
    /\ sync = None
    /\ turn = None
    /\ saving = FALSE
    /\ op = Idle
    /\ headers = [h \in {} |-> Genesis]
    /\ bodies = {}
    /\ logsAt = [h \in {} |-> Genesis]
    /\ baseFile = None
    /\ stateFile = <<>>
    /\ crashes = 0
    /\ struck = {}
    /\ reorg \in Engines

\* The steps of an operation that has begun.
Continue ==
    \/ GenesisRecord \/ GenesisSave
    \/ ForwardApply \/ ForwardCommit \/ ForwardDone
    \/ ReplayNext \/ ReplayDone \/ InstallNext \/ InstallDone
    \/ PersistBlock \/ RecordHead
    \/ FinalizeNext \/ FinalizeDone
    \/ SyncHeader \/ SyncDone

Gossip(b) == AcceptBlock(b) \/ ApplyExternalBlock(b) \/ StrikeSender(b)

Next ==
    \/ GenesisHeader
    \/ Continue
    \/ \E b \in Blocks : Gossip(b) \/ Produce(b)
    \/ ReadHead \/ CanProduce \/ ProduceNothing
    \/ \E p \in SyncTips : SyncFrom(p)
    \/ SyncInstall
    \/ SaveTimer \/ TrailingSave \/ Crash

Spec == Init /\ [][Next]_vars

\* The goroutine that holds Chain.mu keeps running, genesis is derived before
\* anything else, and the discovery timer retries the sync for ever.
FairSpec ==
    /\ Spec
    /\ WF_vars(Continue)
    /\ WF_vars(GenesisHeader)
    /\ WF_vars(SyncInstall)
    /\ WF_vars(ProduceNothing)
    /\ WF_vars(TrailingSave)
    /\ \A p \in SyncTips : WF_vars(SyncFrom(p))

-----------------------------------------------------------------------------
(* Properties *)

\* Whenever Chain.mu is free, the account state is exactly what executing the
\* canonical chain from genesis gives: fast-forwards, reorgs, own blocks and
\* finality leave no block out, apply none twice and mix no two branches.
StateMatchesHead == idle /\ head # None => st = Post[head]

\* Whenever Chain.mu is free the head is the heaviest tip the node knows, so
\* it depends on the blocks received and not on their order (two nodes that
\* know the same blocks agree).  The exception is a tip that does not descend
\* from the finalized block.
HeadIsHeaviest ==
    idle /\ head # None =>
       \/ head = Best(tree)
       \/ base.id \notin anc[Best(tree)]

\* The header files that /headers serves to joining nodes are those of the
\* canonical chain, at every height up to the head.
HeadersAreCanonical ==
    idle /\ head # None =>
       \A a \in anc[head] : height[a] \in DOMAIN headers /\ headers[height[a]] = a

\* The replay base in memory and the one on disk are the true state of a
\* block, whatever happened to the live state.
BaseIsTrueState ==
    \A r \in {base, baseFile} : r # None => r.st = Post[r.id]

\* The canonical chain goes through the finalized block.
HeadKeepsFinalized ==
    head # None /\ base # None => base.id \in anc[head]

\* advanceFinality "moves that floor up ..., never moving back"
\* (docs/CONSENSUS.md:20): the finalized block only gives way to a descendant,
\* on disk too.
FinalityNeverMovesBack ==
    [][/\ base # None /\ base' # None => base.id \in anc[base'.id]
       /\ baseFile # None => baseFile' # None /\ baseFile.id \in anc[baseFile'.id]
      ]_vars

\* With one unit of weight per block, following the heaviest tip never makes
\* the chain shorter (chain.AcceptBlock, "makes the canonical chain follow the
\* heaviest tip").
NeverShorter ==
    [][head # None => head' # None /\ height[head'] >= height[head]]_vars

\* On the linear path the event logs stored for a canonical block are its own:
\* Logs(height) can reconstruct them and verify them against LogsRoot.
LogsReadable ==
    ~ reorg /\ idle /\ head # None =>
       \A b \in anc[head] \cap Emits :
          height[b] \in DOMAIN logsAt /\ logsAt[height[b]] = b

\* A block that its own branch authorizes is never taken for a forgery.
HonestNeverStruck ==
    reorg => \A b \in struck : ~ Authorizes(Post[parent[b]], b) \/ b \in BadLogs

\* A block this node produces is authorized by the state it extends.
OwnBlocksAuthorized ==
    reorg /\ turn # None /\ turn.phase = "producing" =>
       Authorizes(Post[parent[turn.block]], turn.block)

\* A node that joins late ends up on the chain of the peers it syncs from.
JoinerCatchesUp ==
    \A p \in SyncTips : <>(head # None /\ height[head] >= height[p])

=============================================================================
