--------------------------- MODULE NetworkProofs ----------------------------
(***************************************************************************)
(* No validator signs two blocks of one height: for any number of nodes,   *)
(* any scores, any transactions that change validators and weights, and    *)
(* any loss and order of the messages.                                     *)
(*                                                                         *)
(* It needs that a head never moves below a block that its node signed.    *)
(* Fork choice compares weights, not heights, and a sync enters its tip    *)
(* with weight 1; but above the replay base weights grow with the height,  *)
(* and a synced tip is never above the base.                               *)
(***************************************************************************)
EXTENDS Network, DataLemmas

\* Most steps are first-order; the few that calculate name SMT.
USE Zenon

-----------------------------------------------------------------------------
(* The inductive invariant *)

Txs == {None} \cup UNION {w.txs : w \in Networks}
Headers == [v : Nodes, round : Nat, ts : Nat, tx : Txs]
Block == Seq(Headers)
Trees == UNION {[S -> Nat] : S \in SUBSET Block}

\* The ids are a strict total order: no two blocks have the same hash.
IdsOrdered ==
    /\ \A b \in Block : ~ IdLess(b, b)
    /\ \A b, c \in Block : b # c => IdLess(b, c) \/ IdLess(c, b)
    /\ \A b, c, d \in Block : IdLess(b, c) /\ IdLess(c, d) => IdLess(b, d)

Types ==
    /\ net \in Networks /\ now \in Nat /\ ticked \subseteq Nodes
    /\ head \in [Nodes -> Block] /\ base \in [Nodes -> Block]
    /\ tree \in [Nodes -> Trees]
    /\ bodies \in [Nodes -> SUBSET Block] /\ hollow \in [Nodes -> SUBSET Block]
    /\ turn \in [Nodes -> Nat \cup {None}]
    /\ sync \in [Nodes -> [tip : Block, signed : BOOLEAN] \cup {None}]
    /\ inbox \in [Nodes -> SUBSET (Block \ {Genesis})]

\* Only the loop of a node that is up has a turn or a sync, never both.
LoopOK(n) ==
    /\ turn[n] # None => n \in Up /\ sync[n] = None
    /\ sync[n] # None => n \in Up
    /\ inbox[n] # {} => n \in Up

\* A block with a body came after its parent and weighs one more.
Weighed(tr, without) ==
    \A b \in DOMAIN tr : b \notin without /\ b # Genesis =>
       Parent(b) \in DOMAIN tr /\ tr[b] = tr[Parent(b)] + 1

\* The tree has the blocks of the node, those from the replay base to the head
\* among them.  A block without a body, which may weigh less than its parent, is
\* not above the base, nor above the tip a sync is about to install.
TreeOK(n) ==
    /\ IsFiniteSet(DOMAIN tree[n])
    /\ DOMAIN tree[n] = bodies[n] \cup hollow[n]
    /\ base[n] \in DOMAIN tree[n] /\ head[n] \in DOMAIN tree[n]
    /\ CanWalk(DOMAIN tree[n], head[n], base[n])
    /\ Weighed(tree[n], hollow[n])
    /\ \A b \in hollow[n] : /\ Height(b) <= Height(base[n])
                            /\ sync[n] # None => Height(b) <= Height(sync[n].tip)

\* What n signed is not above its head, nor the tip it is about to install.
OwnOK(n) ==
    \A b \in bodies[n] \ {Genesis} :
       Last(b).v = n =>
          /\ Height(b) <= Height(head[n])
          /\ sync[n] # None => Height(b) <= Height(sync[n].tip)
          /\ \A c \in bodies[n] \ {Genesis} :
                Last(c).v = n /\ Height(c) = Height(b) => c = b

\* The blocks that exist: stored, posted, or fetched by a sync.
Of(n) == DOMAIN tree[n] \cup inbox[n] \cup (IF sync[n] = None THEN {} ELSE {sync[n].tip})
All == UNION {Of(n) : n \in Nodes}

\* The validator that signed a block has it.
Kept == \A b \in All \ {Genesis} : b \in bodies[Last(b).v] /\ Last(b).v \in Up

\* And no block is of the future.
Past == \A b \in All : Timestamp(b) <= now

NInv ==
    /\ Types
    /\ \A n \in Nodes : LoopOK(n) /\ TreeOK(n) /\ OwnOK(n)
    /\ Kept /\ Past

-----------------------------------------------------------------------------
(* Blocks *)

\* Genesis, and what a block with one more header is.
LEMMA GenesisIsBlock == Genesis \in Block /\ Height(Genesis) = 0
BY SMT DEF Genesis, Block, Height

LEMMA HeightType ==
    ASSUME NEW b \in Block
    PROVE  Height(b) \in Nat /\ (Height(b) = 0 <=> b = Genesis)
<1>1. Len(b) \in Nat
  BY SMT DEF Block
<1>2. Len(b) = 0 => b = <<>>
  BY SMT DEF Block
<1>3. Len(<<>>) = 0
  OBVIOUS
<1> QED BY <1>1, <1>2, <1>3 DEF Height, Genesis

LEMMA LastIsHeader ==
    ASSUME NEW b \in Block, b # Genesis
    PROVE  Last(b) \in Headers /\ Last(b).v \in Nodes /\ Last(b).ts \in Nat
<1>1. Len(b) \in 1 .. Len(b)
  BY HeightType, SMT DEF Height
<1>2. b[Len(b)] \in Headers
  BY <1>1, SMT DEF Block
<1> QED BY <1>2 DEF Last, Headers

\* The first k headers of a block.
LEMMA Ancestor ==
    ASSUME NEW b \in Block, NEW k \in 0 .. Height(b)
    PROVE  /\ SubSeq(b, 1, k) \in Block
           /\ Height(SubSeq(b, 1, k)) = k
           /\ \A i \in 1 .. k : SubSeq(b, 1, k)[i] = b[i]
<1>1. Len(b) \in Nat /\ \A i \in 1 .. Len(b) : b[i] \in Headers
  BY SMT DEF Block
<1>2. \A i \in 1 .. k : b[i] \in Headers
  BY <1>1, SMT DEF Height
<1>3. k \in Int /\ 1 \in Int
  BY <1>1, SMT DEF Height
<1> QED BY <1>2, <1>3, SMT DEF Block, Height

LEMMA SameBlock ==
    ASSUME NEW b \in Block, NEW c \in Block, Height(b) = Height(c),
           \A i \in 1 .. Height(b) : b[i] = c[i]
    PROVE  b = c
BY SMT DEF Block, Height

\* IsPrefix, header by header.
LEMMA PrefixDef ==
    ASSUME NEW b \in Block, NEW c \in Block
    PROVE  IsPrefix(b, c) <=> /\ Height(b) <= Height(c)
                              /\ \A i \in 1 .. Height(b) : b[i] = c[i]
<1>1. Height(b) \in Nat /\ Height(c) \in Nat
  BY HeightType
<1>2. SubSeq(b, 1, Height(b)) = b
  BY SMT DEF Block, Height
<1>3. CASE Height(b) <= Height(c)
  <2>1. Height(b) \in 0 .. Height(c)
    BY <1>1, <1>3, SMT
  <2>2. /\ SubSeq(c, 1, Height(b)) \in Block
        /\ Height(SubSeq(c, 1, Height(b))) = Height(b)
        /\ \A i \in 1 .. Height(b) : SubSeq(c, 1, Height(b))[i] = c[i]
    BY <2>1, Ancestor
  <2>3. b = SubSeq(c, 1, Height(b)) <=> \A i \in 1 .. Height(b) : b[i] = c[i]
    BY <2>2, SameBlock
  <2> QED BY <1>2, <1>3, <2>3 DEF IsPrefix, Height
<1>4. CASE ~ (Height(b) <= Height(c))
  BY <1>4 DEF IsPrefix, Height
<1> QED BY <1>3, <1>4

LEMMA PrefixOrder ==
    ASSUME NEW b \in Block, NEW c \in Block, NEW d \in Block
    PROVE  /\ IsPrefix(b, b)
           /\ IsPrefix(b, c) => Height(b) <= Height(c)
           /\ IsPrefix(b, c) /\ IsPrefix(c, d) => IsPrefix(b, d)
           /\ IsPrefix(b, c) /\ Height(b) = Height(c) => b = c
           /\ IsPrefix(b, d) /\ IsPrefix(c, d) => IsPrefix(b, c) \/ IsPrefix(c, b)
<1>1. Height(b) \in Nat /\ Height(c) \in Nat /\ Height(d) \in Nat
  BY HeightType
<1>2. IsPrefix(b, b) /\ (IsPrefix(b, c) => Height(b) <= Height(c))
  BY <1>1, PrefixDef, SMT
<1>3. IsPrefix(b, c) /\ IsPrefix(c, d) => IsPrefix(b, d)
  BY <1>1, PrefixDef, SMT
<1>4. IsPrefix(b, c) /\ Height(b) = Height(c) => b = c
  BY <1>1, PrefixDef, SameBlock
<1>5. IsPrefix(b, d) /\ IsPrefix(c, d) => IsPrefix(b, c) \/ IsPrefix(c, b)
  BY <1>1, PrefixDef, SMT
<1> QED BY <1>2, <1>3, <1>4, <1>5

\* Cutting a block off: it is the part of a longer block up to its own height.
LEMMA CutIsPrefix ==
    ASSUME NEW b \in Block, NEW k \in 0 .. Height(b), NEW c \in Block
    PROVE  /\ IsPrefix(SubSeq(b, 1, k), b)
           /\ IsPrefix(c, b) /\ k <= Height(c) => SubSeq(b, 1, k) = SubSeq(c, 1, k)
           /\ IsPrefix(c, b) /\ k >= Height(c) => IsPrefix(c, SubSeq(b, 1, k))
           /\ IsPrefix(c, b) => SubSeq(b, 1, Height(c)) = c
           /\ SubSeq(b, 1, Height(b)) = b
<1>1. Height(b) \in Nat /\ Height(c) \in Nat /\ k \in Nat /\ k <= Height(b)
  BY HeightType, SMT
<1> DEFINE cut == SubSeq(b, 1, k)
<1>2. cut \in Block /\ Height(cut) = k /\ \A i \in 1 .. k : cut[i] = b[i]
  BY Ancestor
<1> HIDE DEF cut
<1>3. IsPrefix(cut, b)
  BY <1>1, <1>2, PrefixDef
<1>4. ASSUME IsPrefix(c, b), k <= Height(c)
      PROVE  cut = SubSeq(c, 1, k)
  <2>1. k \in 0 .. Height(c)
    BY <1>1, <1>4, SMT
  <2>2. /\ SubSeq(c, 1, k) \in Block /\ Height(SubSeq(c, 1, k)) = k
        /\ \A i \in 1 .. k : SubSeq(c, 1, k)[i] = c[i]
    BY <2>1, Ancestor
  <2>3. \A i \in 1 .. k : b[i] = c[i]
    BY <1>1, <1>4, PrefixDef, SMT
  <2> QED BY <1>2, <2>2, <2>3, SameBlock
<1>5. ASSUME IsPrefix(c, b), k >= Height(c)
      PROVE  IsPrefix(c, cut)
  BY <1>1, <1>2, <1>5, PrefixDef, SMT
<1>6. SubSeq(b, 1, Height(b)) = b /\ SubSeq(c, 1, Height(c)) = c
  BY SMT DEF Block, Height
<1>7. IsPrefix(c, b) => SubSeq(b, 1, Height(c)) = c
  BY <1>6 DEF IsPrefix, Height
<1> QED BY <1>3, <1>4, <1>5, <1>6, <1>7 DEF cut

\* The parent of a block.
LEMMA ParentOK ==
    ASSUME NEW b \in Block, b # Genesis
    PROVE  /\ Parent(b) \in Block /\ Height(Parent(b)) = Height(b) - 1
           /\ IsPrefix(Parent(b), b)
           /\ Parent(b) = SubSeq(b, 1, Height(b) - 1)
<1>1. Height(b) - 1 \in 0 .. Height(b)
  BY HeightType, SMT
<1> QED BY <1>1, Ancestor, CutIsPrefix DEF Parent, Height

\* The block with the header r on top of b.
LEMMA ChildOK ==
    ASSUME NEW b \in Block, NEW r \in Headers
    PROVE  /\ Append(b, r) \in Block \ {Genesis}
           /\ Height(Append(b, r)) = Height(b) + 1
           /\ Last(Append(b, r)) = r
           /\ Parent(Append(b, r)) = b
           /\ IsPrefix(b, Append(b, r))
<1> DEFINE c == Append(b, r)
<1>1. /\ c \in Block /\ c # <<>> /\ Height(c) = Height(b) + 1
      /\ \A i \in 1 .. Height(b) : c[i] = b[i]
      /\ c[Height(b) + 1] = r
  BY SMT DEF Block, Height
<1> HIDE DEF c
<1>2. Height(b) \in Nat
  BY HeightType
<1>3. IsPrefix(b, c)
  BY <1>1, <1>2, PrefixDef, SMT
<1>4. SubSeq(c, 1, Height(b)) = b
  BY <1>1, <1>2, <1>3, CutIsPrefix, SMT
<1>5. Len(c) - 1 = Height(b)
  BY <1>1, <1>2, SMT DEF Height
<1>6. Parent(c) = b
  BY <1>4, <1>5 DEF Parent
<1>7. Last(c) = r
  BY <1>1 DEF Last, Height
<1> QED BY <1>1, <1>3, <1>6, <1>7 DEF c, Genesis

-----------------------------------------------------------------------------
(* Trees and fork choice *)

LEMMA TreeType ==
    ASSUME NEW tr \in Trees
    PROVE  /\ DOMAIN tr \subseteq Block
           /\ \A b \in DOMAIN tr : tr[b] \in Nat
BY DEF Trees

LEMMA IsTree ==
    ASSUME NEW S \in SUBSET Block, NEW tr \in [S -> Nat]
    PROVE  tr \in Trees
BY DEF Trees

LEMMA AddOK ==
    ASSUME NEW tr \in Trees, NEW b \in Block
    PROVE  /\ Add(tr, b) \in Trees
           /\ DOMAIN Add(tr, b) = DOMAIN tr \cup {b}
           /\ \A c \in DOMAIN tr : Add(tr, b)[c] = tr[c]
           /\ IsFiniteSet(DOMAIN tr) => IsFiniteSet(DOMAIN Add(tr, b))
           /\ b \notin DOMAIN tr /\ b # Genesis /\ Parent(b) \in DOMAIN tr =>
                 Add(tr, b)[b] = tr[Parent(b)] + 1
<1> DEFINE D == DOMAIN tr
<1>1. D \subseteq Block /\ (\A c \in D : tr[c] \in Nat)
  BY TreeType
<1>2. CASE b \in D
  BY <1>2 DEF Add
<1>3. CASE b \notin D
  <2> DEFINE w == IF b # Genesis /\ Parent(b) \in D THEN tr[Parent(b)] + 1 ELSE 1
  <2>1. w \in Nat
    BY <1>1, SMT
  <2>2. Add(tr, b) = [c \in D \cup {b} |-> IF c # b THEN tr[c] ELSE w]
    BY <1>3 DEF Add
  <2> HIDE DEF w
  <2>3. Add(tr, b) \in [D \cup {b} -> Nat] /\ D \cup {b} \in SUBSET Block
    BY <1>1, <2>1, <2>2
  <2>4. Add(tr, b) \in Trees
    BY <2>3, IsTree
  <2>5. \A c \in D : Add(tr, b)[c] = tr[c]
    BY <1>3, <2>2
  <2>6. Add(tr, b)[b] = w
    BY <2>2
  <2>7. IsFiniteSet(D) => IsFiniteSet(D \cup {b})
    BY FS_AddElement
  <2> QED BY <2>2, <2>4, <2>5, <2>6, <2>7 DEF w
<1> QED BY <1>2, <1>3

\* Walking down in two parts.
LEMMA WalkFurther ==
    ASSUME NEW known, NEW b \in Block, NEW c \in Block, NEW d \in Block,
           CanWalk(known, c, b), CanWalk(known, d, c)
    PROVE  CanWalk(known, d, b)
<1>1. Height(b) \in Nat /\ Height(c) \in Nat /\ Height(d) \in Nat
  BY HeightType
<1>2. IsPrefix(b, c) /\ IsPrefix(c, d) /\ IsPrefix(b, d) /\ Height(c) <= Height(d)
  BY PrefixOrder DEF CanWalk
<1>3. ASSUME NEW h \in Height(b) + 1 .. Height(d)
      PROVE  SubSeq(d, 1, h) \in known
  <2>1. CASE h <= Height(c)
    <3>1. h \in 0 .. Height(d) /\ h \in Height(b) + 1 .. Height(c)
      BY <1>1, <1>2, <2>1, SMT
    <3>2. SubSeq(d, 1, h) = SubSeq(c, 1, h)
      BY <1>2, <2>1, <3>1, CutIsPrefix
    <3> QED BY <3>1, <3>2 DEF CanWalk
  <2>2. CASE ~ (h <= Height(c))
    <3>1. h \in Height(c) + 1 .. Height(d)
      BY <1>1, <2>2, SMT
    <3> QED BY <3>1 DEF CanWalk
  <2> QED BY <2>1, <2>2
<1> QED BY <1>2, <1>3 DEF CanWalk

LEMMA WalkNowhere ==
    ASSUME NEW known, NEW b \in Block
    PROVE  CanWalk(known, b, b)
BY HeightType, PrefixOrder, SMT DEF CanWalk

LEMMA WalkMore ==
    ASSUME NEW known, NEW more, known \subseteq more, NEW b, NEW c,
           CanWalk(known, b, c)
    PROVE  CanWalk(more, b, c)
BY DEF CanWalk

\* One block further.
LEMMA WalkChild ==
    ASSUME NEW known, NEW b \in Block, b # Genesis, b \in known
    PROVE  CanWalk(known, b, Parent(b))
<1>1. /\ Parent(b) \in Block /\ Height(Parent(b)) = Height(b) - 1
      /\ IsPrefix(Parent(b), b)
  BY ParentOK
<1>2. Height(b) \in Nat /\ SubSeq(b, 1, Height(b)) = b
  BY HeightType, CutIsPrefix, SMT
<1>3. \A h \in Height(Parent(b)) + 1 .. Height(b) : h = Height(b)
  BY <1>1, <1>2, SMT
<1> QED BY <1>1, <1>2, <1>3 DEF CanWalk

\* The end of a walk is a block that is known.
LEMMA WalkEnds ==
    ASSUME NEW known, NEW b \in Block, NEW c \in Block, CanWalk(known, b, c), c \in known
    PROVE  b \in known
<1>1. Height(b) \in Nat /\ Height(c) \in Nat /\ Height(c) <= Height(b)
  BY HeightType, PrefixOrder DEF CanWalk
<1>2. CASE Height(b) = Height(c)
  <2>1. c = b
    BY <1>2, PrefixOrder DEF CanWalk
  <2> QED BY <2>1
<1>3. CASE Height(b) # Height(c)
  <2>1. Height(b) \in Height(c) + 1 .. Height(b)
    BY <1>1, <1>3, SMT
  <2>2. SubSeq(b, 1, Height(b)) = b
    BY <1>1, CutIsPrefix, SMT
  <2> QED BY <2>1, <2>2 DEF CanWalk
<1> QED BY <1>2, <1>3

\* Above a base that no block without a body is above, weights count blocks.
LEMMA Weight ==
    ASSUME NEW tr \in Trees, NEW without, NEW from \in DOMAIN tr, NEW b \in Block,
           Weighed(tr, without), \A c \in without : Height(c) <= Height(from),
           CanWalk(DOMAIN tr, b, from)
    PROVE  b \in DOMAIN tr /\ tr[b] = tr[from] + (Height(b) - Height(from))
<1> DEFINE D == DOMAIN tr
           hf == Height(from)
           at(k) == SubSeq(b, 1, hf + k)
           S == {k \in Nat : hf + k <= Height(b) =>
                                at(k) \in D /\ tr[at(k)] = tr[from] + k}
<1>1. D \subseteq Block /\ (\A c \in D : tr[c] \in Nat) /\ from \in Block
  BY TreeType
<1>2. hf \in Nat /\ Height(b) \in Nat /\ hf <= Height(b)
  BY <1>1, HeightType, PrefixOrder DEF CanWalk
<1>3. 0 \in S
  <2>1. at(0) = from
    BY <1>1, <1>2, CutIsPrefix, SMT DEF CanWalk
  <2> HIDE DEF at
  <2> QED BY <1>1, <2>1, SMT
<1>4. ASSUME NEW k \in Nat, k \in S
      PROVE  k + 1 \in S
  <2> SUFFICES ASSUME hf + (k + 1) <= Height(b)
               PROVE  at(k + 1) \in D /\ tr[at(k + 1)] = tr[from] + (k + 1)
    BY SMT
  <2>1. hf + k \in 0 .. Height(b) /\ hf + (k + 1) \in 0 .. Height(b)
        /\ hf + (k + 1) \in hf + 1 .. Height(b)
    BY <1>2, SMT
  <2>2. /\ at(k + 1) \in Block /\ Height(at(k + 1)) = hf + (k + 1)
        /\ at(k) \in Block /\ Height(at(k)) = hf + k
        /\ IsPrefix(at(k + 1), b)
    BY <2>1, Ancestor, CutIsPrefix, SMT
  <2>3. at(k + 1) \in D
    BY <2>1 DEF CanWalk
  <2>4. at(k) \in D /\ tr[at(k)] = tr[from] + k
    BY <1>4, <2>1, SMT
  <2>5. SubSeq(b, 1, hf + k) = SubSeq(at(k + 1), 1, hf + k)
    <3>1. hf + k <= Height(at(k + 1))
      BY <1>2, <2>2, SMT
    <3> HIDE DEF at
    <3> QED BY <2>1, <2>2, <3>1, CutIsPrefix
  <2> DEFINE c == at(k + 1)
             p == at(k)
  <2>6. c # Genesis /\ c \notin without
    <3>1. c \in Block /\ Height(c) = hf + (k + 1)
      BY <2>2
    <3>2. \A d \in without : Height(d) <= hf
      OBVIOUS
    <3>3. Height(c) # 0 /\ ~ (Height(c) <= hf)
      BY <1>2, <3>1, SMT
    <3> HIDE DEF c
    <3> QED BY <3>1, <3>2, <3>3, HeightType
  <2>7. Parent(c) = p
    <3>1. Height(c) - 1 = hf + k
      BY <1>2, <2>2, SMT
    <3>2. p = SubSeq(c, 1, hf + k)
      BY <2>5
    <3> HIDE DEF c, p
    <3> QED BY <2>2, <2>6, <3>1, <3>2, ParentOK DEF c
  <2>8. tr[c] = tr[p] + 1
    <3> HIDE DEF c, p
    <3> QED BY <2>3, <2>6, <2>7 DEF Weighed, c
  <2> HIDE DEF at
  <2> QED BY <1>1, <2>3, <2>4, <2>8, SMT
<1>5. Nat \subseteq S
  <2> HIDE DEF S
  <2> QED BY <1>3, <1>4, Induction
<1>6. Height(b) - hf \in Nat /\ hf + (Height(b) - hf) = Height(b)
  BY <1>2, SMT
<1>7. at(Height(b) - hf) = b
  BY <1>2, <1>6, CutIsPrefix, SMT
<1>8. Height(b) - hf \in S
  BY <1>5, <1>6
<1> HIDE DEF at
<1> QED BY <1>2, <1>6, <1>7, <1>8, SMT

\* There is one best block of a tree, and no block weighs more.
LEMMA BestOK ==
    ASSUME IdsOrdered, NEW tr \in Trees, IsFiniteSet(DOMAIN tr), DOMAIN tr # {}
    PROVE  Best(tr) \in DOMAIN tr /\ \A c \in DOMAIN tr : tr[c] <= tr[Best(tr)]
<1> DEFINE D == DOMAIN tr
           Beats(b, c) == tr[b] > tr[c] \/ (tr[b] = tr[c] /\ IdLess(b, c))
           above == [b \in D |-> {c \in D : Beats(c, b)}]
<1>1. D \subseteq Block /\ (\A c \in D : tr[c] \in Nat)
  BY TreeType
<1>2. above \in [D -> SUBSET D] /\ \A b, c \in D : c \in above[b] <=> Beats(c, b)
  OBVIOUS
<1> HIDE DEF above
<1>3. \A b \in D : ~ Beats(b, b)
  BY <1>1, SMT DEF IdsOrdered
<1>4. \A b, c, d \in D : Beats(b, c) /\ Beats(c, d) => Beats(b, d)
  BY <1>1, SMT DEF IdsOrdered
<1>5. \A b, c \in D : b # c => Beats(b, c) \/ Beats(c, b)
  BY <1>1, SMT DEF IdsOrdered
<1>6. PICK x \in D : above[x] = {}
  <2> HIDE DEF Beats
  <2>1. \A b \in D : b \notin above[b]
    BY <1>2, <1>3
  <2>2. \A b, c \in D : c \in above[b] => above[c] \subseteq above[b]
    BY <1>2, <1>4
  <2> HIDE DEF D
  <2>3. IsFiniteSet(D) /\ D # {}
    BY DEF D
  <2> QED BY <1>2, <2>1, <2>2, <2>3, Minimal
<1>7. \A c \in D \ {x} : Beats(x, c)
  BY <1>2, <1>5, <1>6
<1>8. Best(tr) \in D /\ \A c \in D \ {Best(tr)} : Beats(Best(tr), c)
  BY <1>7 DEF Best
<1> HIDE DEF D
<1> QED BY <1>1, <1>8, SMT DEF D

\* Fork choice never takes a head that is lower than the one it replaces, and
\* its choice is linked to the replay base.
LEMMA HeadNeverFalls ==
    ASSUME IdsOrdered, NEW tr \in Trees, IsFiniteSet(DOMAIN tr),
           NEW from \in DOMAIN tr, NEW h \in DOMAIN tr, NEW without,
           Weighed(tr, without), \A c \in without : Height(c) <= Height(from),
           CanWalk(DOMAIN tr, h, from),
           CanWalk(DOMAIN tr, Best(tr), h) \/ CanWalk(DOMAIN tr, Best(tr), from)
    PROVE  /\ Best(tr) \in DOMAIN tr /\ Height(h) <= Height(Best(tr))
           /\ CanWalk(DOMAIN tr, Best(tr), from)
<1> DEFINE b == Best(tr)
<1>1. b \in DOMAIN tr /\ tr[h] <= tr[b]
  BY BestOK
<1> HIDE DEF b
<1>2. b \in Block /\ h \in Block /\ from \in Block /\ \A c \in DOMAIN tr : tr[c] \in Nat
  BY <1>1, TreeType
<1>3. CanWalk(DOMAIN tr, b, h) \/ CanWalk(DOMAIN tr, b, from)
  BY DEF b
<1>4. CanWalk(DOMAIN tr, b, from)
  BY <1>2, <1>3, WalkFurther
<1>5. tr[b] = tr[from] + (Height(b) - Height(from))
  BY <1>2, <1>4, Weight
<1>6. tr[h] = tr[from] + (Height(h) - Height(from))
  BY <1>2, Weight
<1>7. Height(b) \in Nat /\ Height(h) \in Nat /\ Height(from) \in Nat
  BY <1>2, HeightType
<1>8. Height(h) <= Height(b)
  BY <1>1, <1>2, <1>5, <1>6, <1>7, SMT
<1> QED BY <1>1, <1>4, <1>8 DEF b

\* advanceFinality moves the replay base up along the new head, if at all.
LEMMA FinalizedOK ==
    ASSUME NEW n, NEW h \in Block, NEW known, base[n] \in Block, base[n] \in known,
           CanWalk(known, h, base[n])
    PROVE  LET f == Finalized(n, h, known) IN
           /\ f \in Block /\ f \in known /\ CanWalk(known, h, f)
           /\ Height(base[n]) <= Height(f)
<1>1. Height(h) \in Nat /\ Height(base[n]) \in Nat
  BY HeightType
<1>2. CASE Finalized(n, h, known) = base[n]
  BY <1>1, <1>2, SMT
<1>3. CASE Finalized(n, h, known) # base[n]
  <2> DEFINE k == Height(h) - FinalityDepth
             f == SubSeq(h, 1, k)
  <2>1. /\ Height(h) > Height(base[n]) + FinalityDepth
        /\ Finalized(n, h, known) = f
    BY <1>3 DEF Finalized
  <2>2. FinalityDepth \in Nat
    BY NetworkAssumption
  <2>3. /\ k \in 0 .. Height(h) /\ k \in Height(base[n]) + 1 .. Height(h)
    BY <1>1, <2>1, <2>2, SMT
  <2>4. f \in Block /\ Height(f) = k /\ IsPrefix(f, h)
    BY <2>3, Ancestor, CutIsPrefix
  <2>5. f \in known
    BY <2>3 DEF CanWalk
  <2>6. \A i \in Height(f) + 1 .. Height(h) : i \in Height(base[n]) + 1 .. Height(h)
    BY <1>1, <2>3, <2>4, SMT
  <2>7. CanWalk(known, h, f)
    BY <2>4, <2>6 DEF CanWalk
  <2> HIDE DEF f, k
  <2>8. Height(base[n]) <= Height(f)
    BY <1>1, <2>3, <2>4, SMT
  <2> QED BY <2>1, <2>4, <2>5, <2>7, <2>8
<1> QED BY <1>2, <1>3

-----------------------------------------------------------------------------
(* What a step keeps *)

LEMMA UpNodes == Up \subseteq Nodes
BY DEF Up

LEMMA NowStays ==
    ASSUME NInv, now' = now
    PROVE  now' \in Nat /\ now <= now'
<1>1. now \in Nat
  BY DEF NInv, Types
<1> QED BY <1>1, SMT

LEMMA TimestampType ==
    ASSUME NEW b \in Block
    PROVE  Timestamp(b) \in Nat
BY LastIsHeader DEF Timestamp

LEMMA AllMember ==
    \A b : b \in All <=>
       \E n \in Nodes : \/ b \in DOMAIN tree[n]
                        \/ b \in inbox[n]
                        \/ sync[n] # None /\ b = sync[n].tip
BY SMT DEF All, Of

\* The nodes other than n keep their part.
LEMMA Others ==
    ASSUME NEW m, TreeOK(m), OwnOK(m),
           head'[m] = head[m], tree'[m] = tree[m], bodies'[m] = bodies[m],
           hollow'[m] = hollow[m], base'[m] = base[m], sync'[m] = sync[m]
    PROVE  TreeOK(m)' /\ OwnOK(m)'
BY DEF TreeOK, OwnOK

\* Blocks that exist after a step existed before, or their signer stores them now.
LEMMA KeptOK ==
    ASSUME NInv, net' = net, now' \in Nat, now <= now',
           \A m \in Nodes : bodies[m] \subseteq bodies'[m],
           \A b \in All' : b \in All \/ (b \in bodies'[Last(b).v] /\ Last(b).v \in Up
                                       /\ b \in Block /\ Timestamp(b) <= now)
    PROVE  Kept' /\ Past'
<1>1. Up' = Up /\ now \in Nat
  BY DEF Up, NInv, Types
<1>2. Kept'
  BY <1>1, UpNodes DEF NInv, Kept
<1>3. ASSUME NEW b \in All'
      PROVE  Timestamp(b) <= now'
  <2>1. Timestamp(b) <= now
    BY <1>3 DEF NInv, Past
  <2>2. b \in Block
    <3>1. CASE b \in All
      BY <3>1, AllMember, TreeType, SMT DEF NInv, Types
    <3> QED BY <1>3, <3>1
  <2> QED BY <1>1, <2>1, <2>2, TimestampType, SMT
<1> QED BY <1>2, <1>3 DEF Past, Timestamp

\* recordBlock on node n, whose head becomes h.
LEMMA RecordOK ==
    ASSUME NInv, NEW n \in Nodes, NEW b \in Block, b # Genesis,
           b \notin DOMAIN tree[n], Parent(b) \in DOMAIN tree[n],
           NEW h \in Block, h \in DOMAIN tree[n] \cup {b},
           CanWalk(DOMAIN tree[n] \cup {b}, h, base[n]),
           Height(head[n]) <= Height(h),
           Last(b).v = n => /\ sync[n] = None /\ Height(b) <= Height(h)
                            /\ \A c \in bodies[n] \ {Genesis} :
                                  Last(c).v = n => Height(c) # Height(b),
           Record(n, b, h), sync' = sync
    PROVE  /\ head' \in [Nodes -> Block] /\ base' \in [Nodes -> Block]
           /\ tree' \in [Nodes -> Trees]
           /\ bodies' \in [Nodes -> SUBSET Block] /\ hollow' \in [Nodes -> SUBSET Block]
           /\ head'[n] = h /\ DOMAIN tree'[n] = DOMAIN tree[n] \cup {b}
           /\ bodies'[n] = bodies[n] \cup {b}
           /\ \A m \in Nodes : m # n =>
                 /\ head'[m] = head[m] /\ tree'[m] = tree[m] /\ bodies'[m] = bodies[m]
           /\ \A m \in Nodes : TreeOK(m)' /\ OwnOK(m)'
<1> DEFINE tr == Add(tree[n], b)
           known == bodies[n] \cup {b} \cup hollow[n]
           f == Finalized(n, h, known)
<1>1. /\ tree[n] \in Trees /\ base[n] \in Block /\ head[n] \in Block
      /\ TreeOK(n) /\ OwnOK(n)
      /\ bodies[n] \subseteq Block /\ hollow[n] \subseteq Block
  BY DEF NInv, Types
<1>2. /\ tr \in Trees /\ DOMAIN tr = DOMAIN tree[n] \cup {b}
      /\ \A c \in DOMAIN tree[n] : tr[c] = tree[n][c]
      /\ IsFiniteSet(DOMAIN tr)
      /\ tr[b] = tree[n][Parent(b)] + 1
  BY <1>1, AddOK DEF TreeOK
<1>3. known = DOMAIN tr /\ base[n] \in known
  BY <1>1, <1>2 DEF TreeOK
<1>4. /\ f \in Block /\ f \in known /\ CanWalk(known, h, f)
      /\ Height(base[n]) <= Height(f)
  BY <1>1, <1>2, <1>3, FinalizedOK
<1>5. /\ tree' = [tree EXCEPT ![n] = tr]
      /\ bodies' = [bodies EXCEPT ![n] = @ \cup {b}]
      /\ head' = [head EXCEPT ![n] = h]
      /\ hollow' = hollow
      /\ base' = [base EXCEPT ![n] = Finalized(n, h, bodies'[n] \cup hollow[n])]
  BY DEF Record
<1>6. bodies'[n] = bodies[n] \cup {b}
  BY <1>5 DEF NInv, Types
<1>7. base' = [base EXCEPT ![n] = f]
  BY <1>5, <1>6
<1> HIDE DEF tr, known, f
<1>8. /\ head' \in [Nodes -> Block] /\ base' \in [Nodes -> Block]
      /\ tree' \in [Nodes -> Trees]
      /\ bodies' \in [Nodes -> SUBSET Block] /\ hollow' \in [Nodes -> SUBSET Block]
  BY <1>2, <1>4, <1>5, <1>7, SMT DEF NInv, Types
<1>9. tree'[n] = tr /\ head'[n] = h /\ base'[n] = f /\ hollow'[n] = hollow[n]
  BY <1>5, <1>7 DEF NInv, Types
<1>10. \A m \in Nodes : m # n =>
          /\ head'[m] = head[m] /\ tree'[m] = tree[m] /\ bodies'[m] = bodies[m]
          /\ base'[m] = base[m] /\ hollow'[m] = hollow[m] /\ sync'[m] = sync[m]
  BY <1>5, <1>7 DEF NInv, Types
<1>11. TreeOK(n)'
  <2>1. Weighed(tr, hollow[n])
    <3>1. Weighed(tree[n], hollow[n])
      BY <1>1 DEF TreeOK
    <3> QED BY <1>2, <3>1 DEF Weighed
  <2>2. \A c \in hollow[n] :
           /\ Height(c) <= Height(f)
           /\ sync[n] # None => Height(c) <= Height(sync[n].tip)
    <3>1. \A c \in hollow[n] : Height(c) \in Nat
      BY <1>1, HeightType
    <3>2. Height(base[n]) \in Nat /\ Height(f) \in Nat
      BY <1>1, <1>4, HeightType
    <3>3. \A c \in hollow[n] : Height(c) <= Height(base[n])
      BY <1>1 DEF TreeOK
    <3>4. \A c \in hollow[n] : Height(c) <= Height(f)
      BY <1>4, <3>1, <3>2, <3>3, SMT
    <3> QED BY <1>1, <3>4 DEF TreeOK
  <2>3. h \in DOMAIN tr /\ f \in DOMAIN tr /\ DOMAIN tr = bodies'[n] \cup hollow[n]
        /\ CanWalk(DOMAIN tr, h, f)
    BY <1>2, <1>3, <1>4, <1>6 DEF known
  <2> QED BY <1>2, <1>9, <2>1, <2>2, <2>3 DEF TreeOK
<1>12. OwnOK(n)'
  <2>1. \A c \in bodies[n] \ {Genesis} : Last(c).v = n => Height(c) <= Height(h)
    <3>1. \A c \in bodies[n] : Height(c) \in Nat
      BY <1>1, HeightType
    <3>2. Height(head[n]) \in Nat /\ Height(h) \in Nat
      BY <1>1, HeightType
    <3>3. \A c \in bodies[n] \ {Genesis} : Last(c).v = n => Height(c) <= Height(head[n])
      BY <1>1 DEF OwnOK
    <3> QED BY <3>1, <3>2, <3>3, SMT
  <2> QED BY <1>1, <1>6, <1>9, <2>1 DEF OwnOK
<1>13. ASSUME NEW m \in Nodes, m # n
       PROVE  TreeOK(m)' /\ OwnOK(m)'
  BY <1>10, <1>13, Others DEF NInv
<1> QED BY <1>2, <1>6, <1>8, <1>9, <1>10, <1>11, <1>12, <1>13

-----------------------------------------------------------------------------
(* NInv holds in every reachable state *)

LEMMA NInit == Init => NInv
<1> SUFFICES ASSUME Init PROVE NInv
  OBVIOUS
<1> DEFINE tr == [b \in {Genesis} |-> 1]
<1>1. Genesis \in Block /\ Height(Genesis) = 0
  BY GenesisIsBlock
<1>2. tr \in Trees /\ DOMAIN tr = {Genesis} /\ IsFiniteSet(DOMAIN tr)
  <2>1. tr \in [{Genesis} -> Nat] /\ {Genesis} \in SUBSET Block
    BY <1>1
  <2> QED BY <2>1, IsTree, FS_Singleton
<1>3. CanWalk(DOMAIN tr, Genesis, Genesis)
  BY <1>1, WalkNowhere
<1>4. \A n \in Nodes : tree[n] = tr
  BY DEF Init
<1> HIDE DEF tr
<1>5. Types
  <2>1. tree \in [Nodes -> Trees]
    BY <1>2 DEF Init, tr
  <2>2. head \in [Nodes -> Block] /\ base \in [Nodes -> Block]
    BY <1>1 DEF Init
  <2>3. bodies \in [Nodes -> SUBSET Block] /\ hollow \in [Nodes -> SUBSET Block]
    BY <1>1 DEF Init
  <2>4. inbox \in [Nodes -> SUBSET (Block \ {Genesis})]
    BY DEF Init
  <2> QED BY <2>1, <2>2, <2>3, <2>4 DEF Init, Types
<1>6. ASSUME NEW n \in Nodes
      PROVE  LoopOK(n) /\ TreeOK(n) /\ OwnOK(n)
  <2>1. /\ turn[n] = None /\ sync[n] = None /\ inbox[n] = {} /\ head[n] = Genesis
        /\ bodies[n] = {Genesis} /\ hollow[n] = {} /\ base[n] = Genesis
    BY DEF Init
  <2>2. Weighed(tr, {})
    BY <1>2 DEF Weighed
  <2>3. TreeOK(n)
    BY <1>2, <1>3, <1>4, <2>1, <2>2 DEF TreeOK
  <2> QED BY <2>1, <2>3 DEF LoopOK, OwnOK
<1>7. All \subseteq {Genesis}
  <2>1. \A n \in Nodes : inbox[n] = {} /\ sync[n] = None
    BY DEF Init
  <2> QED BY <1>2, <1>4, <2>1, AllMember
<1>8. Kept /\ Past
  BY <1>7, SMT DEF Kept, Past, Timestamp, Init
<1> QED BY <1>5, <1>6, <1>8 DEF NInv

\* maybeProduce up to CanProduce: the turn is a number.
LEMMA DivOK ==
    ASSUME NEW a \in Nat, NEW d \in Nat \ {0}
    PROVE  a \div d \in Nat /\ d * (a \div d) <= a /\ a < d * ((a \div d) + 1)
BY SMT

LEMMA RoundOK ==
    ASSUME NInv, NEW n \in Nodes
    PROVE  /\ Round(n) \in Nat /\ Timestamp(head[n]) \in Nat
           /\ Timestamp(head[n]) <= now
           /\ BlockTime * Round(n) <= now - Timestamp(head[n])
           /\ now - Timestamp(head[n]) < BlockTime * (Round(n) + 1)
<1>1. head[n] \in Block /\ now \in Nat /\ head[n] \in DOMAIN tree[n]
  BY DEF NInv, Types, TreeOK
<1>2. Timestamp(head[n]) \in Nat /\ Timestamp(head[n]) <= now
  BY <1>1, TimestampType, AllMember DEF NInv, Past
<1>3. now - Timestamp(head[n]) \in Nat
  BY <1>1, <1>2, SMT
<1>4. BlockTime \in Nat \ {0}
  BY NetworkAssumption
<1> QED BY <1>2, <1>3, <1>4, DivOK DEF Round

LEMMA ElectN ==
    ASSUME NInv, NEW n \in Nodes, Elect(n)
    PROVE  NInv'
<1>1. /\ net' = net /\ now' = now /\ sync' = sync /\ inbox' = inbox
      /\ head' = head /\ tree' = tree /\ bodies' = bodies /\ hollow' = hollow
      /\ base' = base /\ signed' = signed
      /\ ticked' = ticked \cup {n}
      /\ n \in Up /\ sync[n] = None
  BY DEF Elect, chains, loopFree
<1>2. PICK t \in Nat \cup {None} : turn' = [turn EXCEPT ![n] = t]
  <2>1. Round(n) \in Nat
    BY RoundOK
  <2> QED BY <2>1 DEF Elect
<1>3. Types'
  BY <1>1, <1>2 DEF NInv, Types
<1>4. Up' = Up
  BY <1>1 DEF Up
<1>5. \A m \in Nodes : m # n => turn'[m] = turn[m]
  BY <1>2 DEF NInv, Types
<1>6. \A m \in Nodes : LoopOK(m)'
  BY <1>1, <1>4, <1>5 DEF NInv, LoopOK
<1>7. \A m \in Nodes : TreeOK(m)' /\ OwnOK(m)'
  BY <1>1, Others DEF NInv
<1>8. All' = All
  BY <1>1 DEF All, Of
<1>9. Kept' /\ Past'
  BY <1>1, <1>4, <1>8 DEF NInv, Kept, Past
<1> QED BY <1>3, <1>6, <1>7, <1>9 DEF NInv

\* The block that n produces, of a transaction t.
Produced(n, t) == Append(head[n], [v |-> n, round |-> turn[n], ts |-> now, tx |-> t])

LEMMA ProducedOK ==
    ASSUME NInv, NEW n \in Nodes, turn[n] # None, NEW t \in net.txs \cup {None}
    PROVE  LET b == Produced(n, t) IN
           /\ b \in Block /\ b # Genesis /\ Parent(b) = head[n] /\ IsPrefix(head[n], b)
           /\ Height(b) = Height(head[n]) + 1 /\ Height(head[n]) \in Nat
           /\ Last(b).v = n /\ Last(b).ts = now /\ Timestamp(b) = now
           /\ n \in Up /\ sync[n] = None
           /\ b \notin DOMAIN tree[n]
           /\ \A c \in bodies[n] \ {Genesis} : Last(c).v = n => Height(c) < Height(b)
<1> DEFINE r == [v |-> n, round |-> turn[n], ts |-> now, tx |-> t]
           b == Append(head[n], r)
<1>1. head[n] \in Block /\ turn[n] \in Nat /\ now \in Nat /\ bodies[n] \subseteq Block
  BY DEF NInv, Types
<1>2. t \in Txs
  <2>1. net \in Networks
    BY DEF NInv, Types
  <2> QED BY <2>1 DEF Txs
<1>3. r \in Headers
  BY <1>1, <1>2 DEF Headers
<1>4. r.v = n /\ r.ts = now
  OBVIOUS
<1> HIDE DEF r
<1>5. /\ b \in Block /\ b # Genesis /\ Height(b) = Height(head[n]) + 1 /\ Last(b) = r
      /\ Parent(b) = head[n] /\ IsPrefix(head[n], b)
  BY <1>1, <1>3, ChildOK
<1> HIDE DEF b
<1>6. Timestamp(b) = now
  BY <1>4, <1>5 DEF Timestamp
<1>7. n \in Up /\ sync[n] = None
  BY DEF NInv, LoopOK
<1>8. Height(head[n]) \in Nat
  BY <1>1, HeightType
<1>9. \A c \in bodies[n] \ {Genesis} : Last(c).v = n => Height(c) < Height(b)
  <2>1. \A c \in bodies[n] : Height(c) \in Nat
    BY <1>1, HeightType
  <2>2. \A c \in bodies[n] \ {Genesis} : Last(c).v = n => Height(c) <= Height(head[n])
    BY DEF NInv, OwnOK
  <2> QED BY <1>5, <1>8, <2>1, <2>2, SMT
<1>10. b \notin DOMAIN tree[n]
  <2> SUFFICES ASSUME b \in DOMAIN tree[n] PROVE FALSE
    OBVIOUS
  <2>1. b \in All \ {Genesis}
    BY <1>5, AllMember
  <2>2. b \in bodies[n]
    BY <1>4, <1>5, <2>1 DEF NInv, Kept
  <2>3. Height(b) < Height(b)
    BY <1>4, <1>5, <1>9, <2>2
  <2> QED BY <1>5, <1>8, <2>3, SMT
<1>11. b = Produced(n, t)
  BY DEF b, r, Produced
<1> QED BY <1>4, <1>5, <1>6, <1>7, <1>8, <1>9, <1>10, <1>11

LEMMA OneNewBlock ==
    ASSUME NInv, NEW n \in Nodes, ProduceBlock(n), NEW t \in net.txs \cup {None},
           Record(n, Produced(n, t), Produced(n, t)), Broadcast(n, Produced(n, t))
    PROVE  \A c \in All' : c \in All \/ c = Produced(n, t)
<1> DEFINE b == Produced(n, t)
<1>1. \A c : c \in All' => \E m \in Nodes : c \in DOMAIN tree'[m] \/ c \in inbox'[m]
                             \/ (sync'[m] # None /\ c = sync'[m].tip)
  BY DEF All, Of
<1>2. sync' = sync /\ turn[n] # None
  BY DEF ProduceBlock
<1>3. b \in Block /\ tree[n] \in Trees
  BY <1>2, ProducedOK DEF NInv, Types
<1>4. tree' = [tree EXCEPT ![n] = Add(tree[n], b)] /\ Broadcast(n, b)
  BY DEF Record, NInv, Types
<1> HIDE DEF b
<1>5. \A m \in Nodes : inbox'[m] \subseteq inbox[m] \cup {b}
  BY <1>4 DEF Broadcast
<1>6. \A m \in Nodes : DOMAIN tree'[m] \subseteq DOMAIN tree[m] \cup {b}
  <2>1. DOMAIN Add(tree[n], b) = DOMAIN tree[n] \cup {b}
    BY <1>3, AddOK
  <2>2. \A m \in Nodes : tree'[m] = tree[m] \/ (m = n /\ tree'[m] = Add(tree[n], b))
    BY <1>4 DEF NInv, Types
  <2> QED BY <2>1, <2>2
<1>7. \A c \in All' : c \in All \/ c = b
  BY <1>1, <1>2, <1>5, <1>6, AllMember, SMT
<1> QED BY <1>7 DEF b

LEMMA ProduceBlockN ==
    ASSUME NInv, NEW n \in Nodes, ProduceBlock(n)
    PROVE  NInv'
<1>1. PICK t \in net.txs \cup {None} :
         Record(n, Produced(n, t), Produced(n, t)) /\ Broadcast(n, Produced(n, t))
  BY DEF ProduceBlock, Produced
<1> DEFINE b == Produced(n, t)
<1>2. /\ net' = net /\ now' = now /\ sync' = sync /\ ticked' = ticked
      /\ turn' = [turn EXCEPT ![n] = None] /\ turn[n] # None
  BY DEF ProduceBlock
<1>3. /\ b \in Block /\ b # Genesis /\ Parent(b) = head[n]
      /\ Height(b) = Height(head[n]) + 1 /\ Height(head[n]) \in Nat
      /\ Last(b).v = n /\ Timestamp(b) = now
      /\ n \in Up /\ sync[n] = None
      /\ b \notin DOMAIN tree[n]
      /\ \A c \in bodies[n] \ {Genesis} : Last(c).v = n => Height(c) < Height(b)
  BY <1>2, ProducedOK
<1>4. Record(n, b, b) /\ Broadcast(n, b)
  BY <1>1
<1> HIDE DEF b
<1> DEFINE D == DOMAIN tree[n] \cup {b}
<1>5. /\ head[n] \in Block /\ base[n] \in Block /\ bodies[n] \subseteq Block
      /\ head[n] \in DOMAIN tree[n] /\ CanWalk(DOMAIN tree[n], head[n], base[n])
  BY DEF NInv, Types, TreeOK
<1>6. CanWalk(D, b, base[n])
  <2>1. CanWalk(D, head[n], base[n])
    BY <1>5, WalkMore
  <2>2. CanWalk(D, b, head[n])
    BY <1>3, WalkChild
  <2> HIDE DEF D
  <2> QED BY <1>3, <1>5, <2>1, <2>2, WalkFurther
<1>7. \A c \in bodies[n] \ {Genesis} : Last(c).v = n => Height(c) # Height(b)
  BY <1>3, <1>5, HeightType, SMT
<1>8. /\ Height(head[n]) <= Height(b) /\ Height(b) <= Height(b)
      /\ Parent(b) \in DOMAIN tree[n]
  BY <1>3, <1>5, SMT
<1>9. /\ head' \in [Nodes -> Block] /\ base' \in [Nodes -> Block]
      /\ tree' \in [Nodes -> Trees]
      /\ bodies' \in [Nodes -> SUBSET Block] /\ hollow' \in [Nodes -> SUBSET Block]
      /\ DOMAIN tree'[n] = DOMAIN tree[n] \cup {b}
      /\ bodies'[n] = bodies[n] \cup {b}
      /\ \A m \in Nodes : m # n => tree'[m] = tree[m] /\ bodies'[m] = bodies[m]
      /\ \A m \in Nodes : TreeOK(m)' /\ OwnOK(m)'
  BY <1>2, <1>3, <1>4, <1>6, <1>7, <1>8, RecordOK, SMT
<1>10. /\ inbox' \in [Nodes -> SUBSET (Block \ {Genesis})]
       /\ \A m \in Nodes : inbox'[m] # inbox[m] => m \in Up /\ inbox'[m] = inbox[m] \cup {b}
  BY <1>3, <1>4 DEF Broadcast, NInv, Types
<1>11. turn' \in [Nodes -> Nat \cup {None}]
       /\ \A m \in Nodes : turn'[m] = turn[m] \/ turn'[m] = None
  BY <1>2 DEF NInv, Types
<1>12. Types'
  BY <1>2, <1>9, <1>10, <1>11 DEF NInv, Types
<1>13. Up' = Up
  BY <1>2 DEF Up
<1>14. \A m \in Nodes : LoopOK(m)'
  BY <1>2, <1>10, <1>11, <1>13 DEF NInv, LoopOK
<1>15. \A c \in All' : c \in All \/ c = b
  BY <1>1, <1>2, OneNewBlock DEF b
<1>16. Kept' /\ Past'
  <2>1. \A m \in Nodes : bodies[m] \subseteq bodies'[m]
    BY <1>9
  <2>2. b \in bodies'[Last(b).v] /\ Last(b).v \in Up /\ b \in Block /\ Timestamp(b) <= now
    BY <1>3, <1>9, SMT DEF NInv, Types
  <2>3. now' \in Nat /\ now <= now'
    BY <1>2, NowStays
  <2> QED BY <1>2, <1>15, <2>1, <2>2, <2>3, KeptOK
<1> QED BY <1>9, <1>12, <1>14, <1>16 DEF NInv

\* The body of a block that a node accepts is not its own: it has those.
LEMMA AcceptedOK ==
    ASSUME IdsOrdered, NInv, NEW n \in Nodes, NEW b, AcceptBlock(n, b)
    PROVE  LET tr == Add(tree[n], b)
               h == ReorgToBest(n, tr, bodies[n] \cup hollow[n] \cup {b})
           IN  /\ b \in Block /\ b # Genesis /\ b \in inbox[n] /\ b \in All
               /\ b \notin DOMAIN tree[n] /\ Parent(b) \in DOMAIN tree[n]
               /\ Last(b).v # n
               /\ h \in Block /\ h \in DOMAIN tree[n] \cup {b}
               /\ CanWalk(DOMAIN tree[n] \cup {b}, h, base[n])
               /\ Height(head[n]) <= Height(h)
               /\ Record(n, b, h)
<1> DEFINE tr == Add(tree[n], b)
           D == DOMAIN tree[n] \cup {b}
           known == bodies[n] \cup hollow[n] \cup {b}
           h == ReorgToBest(n, tr, known)
<1>1. /\ b \in inbox[n] /\ b \notin DOMAIN tree[n] /\ Known(n, Parent(b))
      /\ Record(n, b, h)
  BY DEF AcceptBlock, Handled
<1>2. /\ b \in Block /\ b # Genesis
      /\ tree[n] \in Trees /\ base[n] \in Block /\ head[n] \in Block
      /\ base[n] \in DOMAIN tree[n] /\ head[n] \in DOMAIN tree[n]
      /\ CanWalk(DOMAIN tree[n], head[n], base[n])
      /\ DOMAIN tree[n] = bodies[n] \cup hollow[n]
      /\ Weighed(tree[n], hollow[n])
      /\ \A c \in hollow[n] : Height(c) <= Height(base[n])
      /\ IsFiniteSet(DOMAIN tree[n])
  BY <1>1 DEF NInv, Types, TreeOK
<1>3. Parent(b) \in DOMAIN tree[n]
  BY <1>1, <1>2 DEF Known
<1>4. b \in All
  BY <1>1, AllMember
<1>5. Last(b).v # n
  <2>1. b \in bodies[Last(b).v]
    BY <1>2, <1>4 DEF NInv, Kept
  <2> QED BY <1>1, <1>2, <2>1
<1>6. known = D
  BY <1>2
<1>7. /\ tr \in Trees /\ DOMAIN tr = D /\ IsFiniteSet(DOMAIN tr)
      /\ \A c \in DOMAIN tree[n] : tr[c] = tree[n][c]
      /\ tr[b] = tree[n][Parent(b)] + 1
  <2> HIDE DEF tr
  <2> QED BY <1>1, <1>2, <1>3, AddOK DEF tr
<1>8. Weighed(tr, hollow[n])
  BY <1>2, <1>3, <1>7 DEF Weighed
<1>9. CanWalk(D, head[n], base[n])
  BY <1>2, WalkMore
<1> HIDE DEF tr, known
<1>10. Height(head[n]) \in Nat
  BY <1>2, HeightType
<1>11. CASE CanWalk(D, Best(tr), head[n]) \/ CanWalk(D, Best(tr), base[n])
  <2>1. h = Best(tr)
    BY <1>6, <1>11 DEF ReorgToBest
  <2>2. base[n] \in DOMAIN tr /\ head[n] \in DOMAIN tr
    BY <1>2, <1>7
  <2>3. /\ Best(tr) \in DOMAIN tr /\ Height(head[n]) <= Height(Best(tr))
        /\ CanWalk(DOMAIN tr, Best(tr), base[n])
    <3> HIDE DEF D
    <3> QED BY <1>2, <1>7, <1>8, <1>9, <1>11, <2>2, HeadNeverFalls
  <2>4. Best(tr) \in Block
    BY <1>2, <1>7, <2>3, TreeType
  <2> HIDE DEF h, D
  <2> QED BY <1>1, <1>2, <1>3, <1>4, <1>5, <1>7, <2>1, <2>3, <2>4 DEF h, tr, D, known
<1>12. CASE ~ (CanWalk(D, Best(tr), head[n]) \/ CanWalk(D, Best(tr), base[n]))
  <2>1. h = head[n]
    BY <1>6, <1>12 DEF ReorgToBest
  <2>2. head[n] \in D /\ Height(head[n]) <= Height(head[n])
    BY <1>2, <1>10, SMT
  <2> HIDE DEF h
  <2> QED BY <1>1, <1>2, <1>3, <1>4, <1>5, <1>9, <2>1, <2>2 DEF h, tr, known
<1> QED BY <1>11, <1>12

\* inbox after a block is handled.
LEMMA HandledOK ==
    ASSUME Types, NEW n \in Nodes, NEW b, Handled(n, b)
    PROVE  /\ inbox' \in [Nodes -> SUBSET (Block \ {Genesis})]
           /\ inbox'[n] = inbox[n] \ {b}
           /\ \A m \in Nodes : inbox'[m] \subseteq inbox[m]
BY DEF Types, Handled

\* The heights of some nodes' heads have a maximum.
LEMMA BestPeerHeightOK ==
    ASSUME Types, NEW peers \in SUBSET Nodes
    PROVE  /\ BestPeerHeight(peers) \in Nat
           /\ \A m \in peers : Height(head[m]) <= BestPeerHeight(peers)
           /\ peers # {} => \E m \in peers : Height(head[m]) = BestPeerHeight(peers)
<1> DEFINE hs == [m \in peers |-> Height(head[m])]
           H == {hs[m] : m \in peers}
           S == H \cup {0}
<1>1. IsFiniteSet(peers)
  BY NetworkAssumption, FS_Subset
<1>2. \A m \in peers : Height(head[m]) \in Nat
  BY HeightType DEF Types
<1>3. \A m \in peers : hs[m] = Height(head[m])
  OBVIOUS
<1>4. IsFiniteSet(H)
  <2>1. DOMAIN hs = peers /\ hs = [m \in peers |-> hs[m]]
    OBVIOUS
  <2> HIDE DEF hs
  <2> QED BY <1>1, <2>1, FiniteImage, SMT
<1>5. H \subseteq Nat
  <2> HIDE DEF hs
  <2> QED BY <1>2, <1>3
<1>6. H = {Height(head[m]) : m \in peers}
  OBVIOUS
<1>7. BestPeerHeight(peers) = Max(S)
  BY <1>6 DEF BestPeerHeight
<1>8. IsFiniteSet(S) /\ S # {} /\ S \in SUBSET Int
  <2> HIDE DEF H
  <2> QED BY <1>4, <1>5, FS_AddElement, SMT
<1>9. Max(S) \in S /\ \A y \in S : y <= Max(S)
  <2> HIDE DEF S
  <2> QED BY <1>8, MaxIsMax
<1>10. \A m \in peers : Height(head[m]) \in S
  BY <1>6
<1>11. Max(S) = 0 \/ \E m \in peers : Max(S) = Height(head[m])
  BY <1>9
<1> HIDE DEF S
<1>12. Max(S) \in Nat
  BY <1>2, <1>11, SMT
<1>13. \A m \in peers : Height(head[m]) <= Max(S)
  BY <1>9, <1>10
<1>14. ASSUME peers # {}
       PROVE  \E m \in peers : Height(head[m]) = Max(S)
  <2>1. CASE Max(S) = 0
    <3>1. \A m \in peers : Height(head[m]) = 0
      BY <1>2, <1>13, <2>1, SMT
    <3> QED BY <1>14, <2>1, <3>1
  <2> QED BY <1>11, <2>1
<1> QED BY <1>7, <1>12, <1>13, <1>14

LEMMA BestPeerOK ==
    ASSUME Types, NEW peers \in SUBSET Nodes, peers # {}
    PROVE  BestPeer(peers) \in peers
<1> DEFINE S == {p \in peers : Height(head[p]) = BestPeerHeight(peers)}
<1>1. S # {}
  BY BestPeerHeightOK
<1>2. S \subseteq peers /\ IsFiniteSet(S)
  BY NetworkAssumption, FS_Subset
<1>3. S \in SUBSET Int
  <2>1. Nodes \subseteq Int
    BY NetworkAssumption, SMT
  <2> HIDE DEF S
  <2> QED BY <1>2, <2>1
<1>4. BestPeer(peers) = Max(S)
  BY DEF BestPeer
<1> HIDE DEF S
<1> QED BY <1>1, <1>2, <1>3, <1>4, MaxIsMax

LEMMA SyncFromOK ==
    ASSUME NInv, NEW n \in Nodes, SyncFrom(n)
    PROVE  \E p \in Up : /\ Height(head[n]) < Height(head[p])
                         /\ sync' = [sync EXCEPT ![n] = [tip |-> head[p], signed |-> p \in signed]]
<1>1. PICK peers \in Answering(n) \ {{}} :
         /\ Height(head[BestPeer(peers)]) > Height(head[n])
         /\ sync' = [sync EXCEPT ![n] = [tip |-> head[BestPeer(peers)],
                                         signed |-> BestPeer(peers) \in signed]]
  BY DEF SyncFrom
<1>2. peers \subseteq Up /\ peers \in SUBSET Nodes /\ peers # {}
  BY UpNodes DEF Answering
<1>3. BestPeer(peers) \in peers
  BY <1>2, BestPeerOK DEF NInv
<1>4. head[n] \in Block /\ head[BestPeer(peers)] \in Block
  BY <1>2, <1>3 DEF NInv, Types
<1>5. Height(head[n]) < Height(head[BestPeer(peers)])
  BY <1>1, <1>4, HeightType
<1> QED BY <1>1, <1>2, <1>3, <1>5

\* No block comes into being when blocks are handled or synced.
LEMMA NoNewBlocks ==
    ASSUME NInv, NEW n \in Nodes,
           \/ \E b : AcceptBlock(n, b) \/ RejectBlock(n, b)
           \/ SyncFrom(n) \/ SyncInstall(n)
    PROVE  \A c \in All' : c \in All
<1>1. \A c : c \in All' => \E m \in Nodes : c \in DOMAIN tree'[m] \/ c \in inbox'[m]
                             \/ (sync'[m] # None /\ c = sync'[m].tip)
  BY DEF All, Of
<1>2. ASSUME NEW b, AcceptBlock(n, b)
      PROVE  \A c \in All' : c \in All
  <2>1. b \in inbox[n] /\ sync' = sync /\ b \in Block
    BY <1>2 DEF AcceptBlock, Handled, NInv, Types
  <2>2. \A m \in Nodes : inbox'[m] \subseteq inbox[m]
    BY <1>2, HandledOK DEF AcceptBlock, NInv
  <2>3. tree[n] \in Trees /\ tree' = [tree EXCEPT ![n] = Add(tree[n], b)]
    BY <1>2 DEF AcceptBlock, Record, NInv, Types
  <2>4. \A m \in Nodes : DOMAIN tree'[m] \subseteq DOMAIN tree[m] \cup {b}
    <3>1. DOMAIN Add(tree[n], b) \subseteq DOMAIN tree[n] \cup {b}
      BY <2>1, <2>3, AddOK
    <3>2. tree'[n] = Add(tree[n], b) /\ \A m \in Nodes : m # n => tree'[m] = tree[m]
      BY <2>3 DEF NInv, Types
    <3> QED BY <3>1, <3>2
  <2>5. \A m \in Nodes : m # n => tree'[m] = tree[m]
    BY <2>3 DEF NInv, Types
  <2> QED BY <1>1, <2>1, <2>2, <2>4, <2>5, AllMember, SMT
<1>3. ASSUME NEW b, RejectBlock(n, b)
      PROVE  \A c \in All' : c \in All
  <2>1. tree' = tree /\ sync' = sync
    BY <1>3 DEF RejectBlock, chains
  <2>2. \A m \in Nodes : inbox'[m] \subseteq inbox[m]
    BY <1>3, HandledOK DEF RejectBlock, NInv
  <2> QED BY <1>1, <2>1, <2>2, AllMember, SMT
<1>4. ASSUME SyncFrom(n)
      PROVE  \A c \in All' : c \in All
  <2>1. tree' = tree /\ inbox' = inbox
    BY <1>4 DEF SyncFrom, chains
  <2>2. PICK p \in Up :
           sync' = [sync EXCEPT ![n] = [tip |-> head[p], signed |-> p \in signed]]
    BY <1>4, SyncFromOK
  <2>3. \A m \in Nodes : sync'[m] = sync[m] \/ sync'[m].tip = head[p]
    BY <2>2 DEF NInv, Types
  <2>4. p \in Nodes /\ head[p] \in DOMAIN tree[p]
    BY UpNodes DEF NInv, TreeOK
  <2> QED BY <1>1, <2>1, <2>3, <2>4, AllMember, SMT
<1>5. ASSUME SyncInstall(n)
      PROVE  \A c \in All' : c \in All
  <2> DEFINE tip == sync[n].tip
  <2>1. /\ inbox' = inbox /\ sync[n] # None /\ sync' = [sync EXCEPT ![n] = None]
        /\ tree' = tree \/ tree' = [tree EXCEPT ![n] = Add(@, tip)]
    BY <1>5 DEF SyncInstall
  <2>2. tip \in Block /\ tree[n] \in Trees
    BY <2>1 DEF NInv, Types
  <2>3. tip \in All
    BY <2>1, AllMember
  <2>4. \A m \in Nodes : sync'[m] = sync[m] \/ sync'[m] = None
    BY <2>1 DEF NInv, Types
  <2>5. \A m \in Nodes : DOMAIN tree'[m] \subseteq DOMAIN tree[m] \cup {tip}
    <3> HIDE DEF tip
    <3>1. DOMAIN Add(tree[n], tip) = DOMAIN tree[n] \cup {tip}
      BY <2>2, AddOK
    <3>2. \A m \in Nodes : tree'[m] = tree[m] \/ (m = n /\ tree'[m] = Add(tree[n], tip))
      BY <2>1 DEF NInv, Types
    <3> QED BY <3>1, <3>2
  <2> HIDE DEF tip
  <2> QED BY <1>1, <2>1, <2>3, <2>4, <2>5, AllMember, SMT
<1> QED BY <1>2, <1>3, <1>4, <1>5

LEMMA AcceptBlockN ==
    ASSUME IdsOrdered, NInv, NEW n \in Nodes, NEW b, AcceptBlock(n, b)
    PROVE  NInv'
<1> DEFINE h == ReorgToBest(n, Add(tree[n], b), bodies[n] \cup hollow[n] \cup {b})
<1>1. /\ net' = net /\ now' = now /\ sync' = sync /\ ticked' = ticked /\ turn' = turn
      /\ Handled(n, b)
  BY DEF AcceptBlock
<1>2. /\ b \in Block /\ b # Genesis /\ b \in All
      /\ b \notin DOMAIN tree[n] /\ Parent(b) \in DOMAIN tree[n]
      /\ Last(b).v # n
      /\ h \in Block /\ h \in DOMAIN tree[n] \cup {b}
      /\ CanWalk(DOMAIN tree[n] \cup {b}, h, base[n])
      /\ Height(head[n]) <= Height(h)
      /\ Record(n, b, h)
  BY AcceptedOK
<1> HIDE DEF h
<1>3. /\ head' \in [Nodes -> Block] /\ base' \in [Nodes -> Block]
      /\ tree' \in [Nodes -> Trees]
      /\ bodies' \in [Nodes -> SUBSET Block] /\ hollow' \in [Nodes -> SUBSET Block]
      /\ DOMAIN tree'[n] = DOMAIN tree[n] \cup {b}
      /\ bodies'[n] = bodies[n] \cup {b}
      /\ \A m \in Nodes : m # n => tree'[m] = tree[m] /\ bodies'[m] = bodies[m]
      /\ \A m \in Nodes : TreeOK(m)' /\ OwnOK(m)'
  BY <1>1, <1>2, RecordOK
<1>4. /\ inbox' \in [Nodes -> SUBSET (Block \ {Genesis})]
      /\ \A m \in Nodes : inbox'[m] \subseteq inbox[m]
  BY <1>1, HandledOK DEF NInv
<1>5. Types'
  BY <1>1, <1>3, <1>4 DEF NInv, Types
<1>6. Up' = Up
  BY <1>1 DEF Up
<1>7. \A m \in Nodes : LoopOK(m)'
  BY <1>1, <1>4, <1>6 DEF NInv, LoopOK
<1>8. \A c \in All' : c \in All
  BY NoNewBlocks
<1>9. Kept' /\ Past'
  <2>1. \A m \in Nodes : bodies[m] \subseteq bodies'[m]
    BY <1>3
  <2>2. now' \in Nat /\ now <= now'
    BY <1>1, NowStays
  <2> QED BY <1>1, <1>8, <2>1, <2>2, KeptOK
<1> QED BY <1>3, <1>5, <1>7, <1>9 DEF NInv

LEMMA RejectBlockN ==
    ASSUME NInv, NEW n \in Nodes, NEW b, RejectBlock(n, b)
    PROVE  NInv'
<1>1. /\ net' = net /\ now' = now /\ sync' = sync /\ ticked' = ticked /\ turn' = turn
      /\ head' = head /\ tree' = tree /\ bodies' = bodies /\ hollow' = hollow
      /\ base' = base /\ Handled(n, b)
  BY DEF RejectBlock, chains
<1>2. /\ inbox' \in [Nodes -> SUBSET (Block \ {Genesis})]
      /\ \A m \in Nodes : inbox'[m] \subseteq inbox[m]
  BY <1>1, HandledOK DEF NInv
<1>3. Types'
  BY <1>1, <1>2 DEF NInv, Types
<1>4. Up' = Up
  BY <1>1 DEF Up
<1>5. \A m \in Nodes : LoopOK(m)'
  BY <1>1, <1>2, <1>4 DEF NInv, LoopOK
<1>6. \A m \in Nodes : TreeOK(m)' /\ OwnOK(m)'
  BY <1>1, Others DEF NInv
<1>7. \A c \in All' : c \in All
  BY NoNewBlocks
<1>8. Kept' /\ Past'
  <2>1. \A m \in Nodes : bodies[m] \subseteq bodies'[m]
    BY <1>1
  <2>2. now' \in Nat /\ now <= now'
    BY <1>1, NowStays
  <2> QED BY <1>1, <1>7, <2>1, <2>2, KeptOK
<1> QED BY <1>3, <1>5, <1>6, <1>8 DEF NInv

LEMMA SyncFromN ==
    ASSUME NInv, NEW n \in Nodes, SyncFrom(n)
    PROVE  NInv'
<1>1. /\ net' = net /\ now' = now /\ ticked' = ticked /\ turn' = turn
      /\ head' = head /\ tree' = tree /\ bodies' = bodies /\ hollow' = hollow
      /\ base' = base /\ inbox' = inbox /\ n \in Up /\ turn[n] = None
  BY DEF SyncFrom, chains, loopFree
<1>2. PICK p \in Up : /\ Height(head[n]) < Height(head[p])
                      /\ sync' = [sync EXCEPT ![n] = [tip |-> head[p], signed |-> p \in signed]]
  BY SyncFromOK
<1>3. p \in Nodes /\ head[p] \in Block /\ head[n] \in Block /\ base[n] \in Block
      /\ hollow[n] \subseteq Block /\ bodies[n] \subseteq Block
  BY UpNodes DEF NInv, Types
<1>4. /\ sync' \in [Nodes -> [tip : Block, signed : BOOLEAN] \cup {None}]
      /\ sync'[n].tip = head[p]
      /\ \A m \in Nodes : m # n => sync'[m] = sync[m]
  <2> DEFINE s == [tip |-> head[p], signed |-> p \in signed]
  <2>1. sync \in [Nodes -> [tip : Block, signed : BOOLEAN] \cup {None}]
    BY DEF NInv, Types
  <2>2. s \in [tip : Block, signed : BOOLEAN] /\ s.tip = head[p]
    BY <1>3, SMT
  <2>3. sync' = [sync EXCEPT ![n] = s]
    BY <1>2
  <2> HIDE DEF s
  <2> QED BY <2>1, <2>2, <2>3
<1>5. Types'
  BY <1>1, <1>4 DEF NInv, Types
<1>6. Up' = Up
  BY <1>1 DEF Up
<1>7. \A m \in Nodes : LoopOK(m)'
  BY <1>1, <1>4, <1>6 DEF NInv, LoopOK
<1>8. TreeOK(n)'
  <2>1. \A b \in hollow[n] : Height(b) <= Height(head[p])
    <3>1. \A b \in hollow[n] : Height(b) \in Nat
      BY <1>3, HeightType
    <3>2. Height(base[n]) \in Nat /\ Height(head[n]) \in Nat /\ Height(head[p]) \in Nat
      BY <1>3, HeightType
    <3>3. Height(base[n]) <= Height(head[n])
      BY <1>3, PrefixOrder DEF NInv, TreeOK, CanWalk
    <3>4. \A b \in hollow[n] : Height(b) <= Height(base[n])
      BY DEF NInv, TreeOK
    <3>5. Height(base[n]) <= Height(head[p])
      <4>1. Height(head[n]) < Height(head[p])
        BY <1>2
      <4> QED BY <3>2, <3>3, <4>1, SMT
    <3> TAKE b \in hollow[n]
    <3>6. Height(b) \in Nat /\ Height(b) <= Height(base[n])
      BY <3>1, <3>4
    <3> QED BY <3>2, <3>5, <3>6, SMT
  <2>2. TreeOK(n)
    BY DEF NInv
  <2> QED BY <1>1, <1>4, <2>1, <2>2 DEF TreeOK
<1>9. OwnOK(n)'
  <2>1. \A b \in bodies[n] \ {Genesis} : Last(b).v = n => Height(b) <= Height(head[p])
    <3>1. \A b \in bodies[n] : Height(b) \in Nat
      BY <1>3, HeightType
    <3>2. Height(head[n]) \in Nat /\ Height(head[p]) \in Nat
      BY <1>3, HeightType
    <3>3. \A b \in bodies[n] \ {Genesis} : Last(b).v = n => Height(b) <= Height(head[n])
      BY DEF NInv, OwnOK
    <3> QED BY <1>2, <3>1, <3>2, <3>3, SMT
  <2>2. OwnOK(n)
    BY DEF NInv
  <2> QED BY <1>1, <1>4, <2>1, <2>2 DEF OwnOK
<1>10. \A m \in Nodes : TreeOK(m)' /\ OwnOK(m)'
  BY <1>1, <1>4, <1>8, <1>9, Others DEF NInv
<1>11. \A c \in All' : c \in All
  BY NoNewBlocks
<1>12. Kept' /\ Past'
  <2>1. now' \in Nat /\ now <= now'
    BY <1>1, NowStays
  <2> QED BY <1>1, <1>11, <2>1, KeptOK
<1> QED BY <1>5, <1>7, <1>10, <1>12 DEF NInv

LEMMA SyncInstallN ==
    ASSUME NInv, NEW n \in Nodes, SyncInstall(n)
    PROVE  NInv'
<1> DEFINE tip == sync[n].tip
<1>1. /\ net' = net /\ now' = now /\ ticked' = ticked /\ turn' = turn
      /\ inbox' = inbox /\ bodies' = bodies /\ sync[n] # None
      /\ sync' = [sync EXCEPT ![n] = None]
  BY DEF SyncInstall
<1>2. /\ tip \in Block /\ tree[n] \in Trees /\ hollow[n] \subseteq Block
      /\ bodies[n] \subseteq Block
      /\ TreeOK(n) /\ OwnOK(n)
  BY <1>1 DEF NInv, Types
<1>3. /\ sync' \in [Nodes -> [tip : Block, signed : BOOLEAN] \cup {None}]
      /\ sync'[n] = None
      /\ \A m \in Nodes : m # n => sync'[m] = sync[m]
  BY <1>1 DEF NInv, Types
<1>4. Up' = Up
  BY <1>1 DEF Up
<1>5. \A m \in Nodes : LoopOK(m)'
  BY <1>1, <1>3, <1>4 DEF NInv, LoopOK
<1>6. now' \in Nat /\ now <= now' /\ tip \in All
  BY <1>1, AllMember, NowStays
<1>7. CASE UNCHANGED <<head, base, tree, hollow>>
  <2>1. Types'
    BY <1>1, <1>3, <1>7 DEF NInv, Types
  <2>2. TreeOK(n)' /\ OwnOK(n)'
    BY <1>1, <1>2, <1>3, <1>7 DEF TreeOK, OwnOK
  <2>3. \A m \in Nodes : TreeOK(m)' /\ OwnOK(m)'
    BY <1>1, <1>3, <1>7, <2>2, Others DEF NInv
  <2>4. \A c \in All' : c \in All
    BY NoNewBlocks
  <2>5. Kept' /\ Past'
    BY <1>1, <1>6, <2>4, KeptOK
  <2> QED BY <1>5, <2>1, <2>3, <2>5 DEF NInv
<1>8. CASE /\ head' = [head EXCEPT ![n] = tip] /\ base' = [base EXCEPT ![n] = tip]
           /\ tree' = [tree EXCEPT ![n] = Add(@, tip)]
           /\ hollow' = [hollow EXCEPT ![n] = @ \cup {tip}]
  <2> DEFINE tr == Add(tree[n], tip)
  <2>1. /\ tr \in Trees /\ DOMAIN tr = DOMAIN tree[n] \cup {tip}
        /\ \A c \in DOMAIN tree[n] : tr[c] = tree[n][c]
        /\ IsFiniteSet(DOMAIN tr)
    <3> HIDE DEF tip, tr
    <3> QED BY <1>2, AddOK DEF TreeOK, tr
  <2>2. tree' = [tree EXCEPT ![n] = tr]
    BY <1>8 DEF NInv, Types
  <2> HIDE DEF tr
  <2>3. Types'
    <3> HIDE DEF tip
    <3>1. head' \in [Nodes -> Block] /\ base' \in [Nodes -> Block]
      BY <1>2, <1>8 DEF NInv, Types
    <3>2. tree' \in [Nodes -> Trees]
      BY <2>1, <2>2 DEF NInv, Types
    <3>3. hollow' \in [Nodes -> SUBSET Block]
      BY <1>2, <1>8 DEF NInv, Types
    <3> QED BY <1>1, <1>3, <3>1, <3>2, <3>3 DEF NInv, Types
  <2>4. /\ head'[n] = tip /\ base'[n] = tip /\ tree'[n] = tr
        /\ hollow'[n] = hollow[n] \cup {tip}
    BY <1>8, <2>2 DEF NInv, Types
  <2>5. \A m \in Nodes : m # n =>
           /\ head'[m] = head[m] /\ tree'[m] = tree[m] /\ bodies'[m] = bodies[m]
           /\ base'[m] = base[m] /\ hollow'[m] = hollow[m] /\ sync'[m] = sync[m]
    BY <1>1, <1>3, <1>8, <2>2 DEF NInv, Types
  <2>6. TreeOK(n)'
    <3>1. Weighed(tr, hollow[n] \cup {tip})
      <4> HIDE DEF tip
      <4> QED BY <1>2, <2>1 DEF TreeOK, Weighed
    <3>2. \A b \in hollow[n] \cup {tip} : Height(b) <= Height(tip)
      <4>1. \A b \in hollow[n] : Height(b) <= Height(tip)
        BY <1>1, <1>2 DEF TreeOK
      <4>2. tip \in Block
        BY <1>2
      <4> HIDE DEF tip
      <4>3. Height(tip) \in Nat
        BY <4>2, HeightType
      <4>4. Height(tip) <= Height(tip)
        BY <4>3, SMT
      <4> QED BY <4>1, <4>4
    <3>3. CanWalk(DOMAIN tr, tip, tip)
      BY <1>2, WalkNowhere
    <3>4. DOMAIN tr = bodies[n] \cup (hollow[n] \cup {tip}) /\ tip \in DOMAIN tr
      BY <1>2, <2>1 DEF TreeOK
    <3> HIDE DEF tip
    <3> QED BY <1>1, <1>3, <2>1, <2>4, <3>1, <3>2, <3>3, <3>4 DEF TreeOK
  <2>7. OwnOK(n)'
    BY <1>1, <1>2, <1>3, <2>4 DEF OwnOK
  <2>8. \A m \in Nodes : TreeOK(m)' /\ OwnOK(m)'
    BY <2>5, <2>6, <2>7, Others DEF NInv
  <2>9. \A c \in All' : c \in All
    BY NoNewBlocks
  <2>10. Kept' /\ Past'
    BY <1>1, <1>6, <2>9, KeptOK
  <2> QED BY <1>5, <2>3, <2>8, <2>10 DEF NInv
<1> QED BY <1>7, <1>8 DEF SyncInstall

LEMMA TickN ==
    ASSUME NInv, Tick
    PROVE  NInv'
<1>1. /\ net' = net /\ turn' = turn /\ sync' = sync /\ inbox' = inbox
      /\ head' = head /\ tree' = tree /\ bodies' = bodies /\ hollow' = hollow
      /\ base' = base /\ ticked' = {} /\ now' = now + BlockTime
  BY DEF Tick, chains
<1>2. now' \in Nat /\ now <= now'
  BY <1>1, NetworkAssumption, SMT DEF NInv, Types
<1>3. Types'
  BY <1>1, <1>2 DEF NInv, Types
<1>4. Up' = Up /\ All' = All
  BY <1>1 DEF Up, All, Of
<1>5. \A m \in Nodes : LoopOK(m)'
  BY <1>1, <1>4 DEF NInv, LoopOK
<1>6. \A m \in Nodes : TreeOK(m)' /\ OwnOK(m)'
  BY <1>1, Others DEF NInv
<1>7. Kept' /\ Past'
  BY <1>1, <1>2, <1>4, KeptOK
<1> QED BY <1>3, <1>5, <1>6, <1>7 DEF NInv

LEMMA NNext == ASSUME IdsOrdered, NInv, [Next]_vars PROVE NInv'
<1>1. CASE UNCHANGED vars
  <2>1. /\ net' = net /\ now' = now /\ ticked' = ticked /\ turn' = turn /\ sync' = sync
        /\ inbox' = inbox /\ head' = head /\ tree' = tree /\ bodies' = bodies
        /\ hollow' = hollow /\ base' = base
    BY <1>1 DEF vars, chains
  <2>2. Up' = Up /\ All' = All
    BY <2>1 DEF Up, All, Of
  <2>3. Types' /\ \A m \in Nodes : LoopOK(m)'
    BY <2>1, <2>2 DEF NInv, Types, LoopOK
  <2>4. \A m \in Nodes : TreeOK(m)' /\ OwnOK(m)'
    BY <2>1, Others DEF NInv
  <2>5. Kept' /\ Past'
    BY <2>1, <2>2 DEF NInv, Kept, Past
  <2> QED BY <2>3, <2>4, <2>5 DEF NInv
<1>2. CASE Next
  BY <1>2, ElectN, ProduceBlockN, AcceptBlockN, RejectBlockN, SyncFromN, SyncInstallN, TickN
  DEF Next, Handle
<1> QED BY <1>1, <1>2

\* No validator ever signs two blocks of one height.
THEOREM SpecNoEquivocation ==
    ASSUME IdsOrdered
    PROVE  Spec => []NoEquivocation
<1>1. NInv => NoEquivocation
  <2> SUFFICES ASSUME NInv, NEW b \in Signed, NEW c \in Signed,
                      Height(b) = Height(c), Last(b).v = Last(c).v
               PROVE  b = c
    BY DEF NoEquivocation
  <2> DEFINE v == Last(b).v
  <2>1. b \in All \ {Genesis} /\ c \in All \ {Genesis}
    <3>1. \A n \in Nodes : bodies[n] \subseteq DOMAIN tree[n]
      BY DEF NInv, TreeOK
    <3> QED BY <3>1, AllMember, SMT DEF Signed
  <2>2. b \in bodies[v] /\ c \in bodies[v] /\ v \in Nodes
    BY <2>1, UpNodes DEF NInv, Kept
  <2> QED BY <2>1, <2>2 DEF NInv, OwnOK
<1> QED BY <1>1, NInit, NNext, PTL DEF Spec

=============================================================================
