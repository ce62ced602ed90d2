------------------------------ MODULE MCChain -------------------------------
(***************************************************************************)
(* Small block trees for Chain.  A tree is given by a parent function; the *)
(* block numbers are the order of the ids, so that a lower number wins a   *)
(* tie.  Transactions are one account's nonces: a block in `Carries` has   *)
(* one transaction, with the nonce its own branch calls for.               *)
(***************************************************************************)
EXTENDS Chain, FiniteSets, TLC

CONSTANTS Parent, Carries, Invalid, Registers, NewValidators

NoSnapshots == [p \in {} |-> {}]

MCBlocks == DOMAIN Parent \cup {Genesis}

RECURSIVE Path(_)
Path(b) == IF b = Genesis THEN <<b>> ELSE Append(Path(Parent[b]), b)

MCheight == [b \in MCBlocks |-> Len(Path(b)) - 1]
MCanc == [b \in MCBlocks |-> {Path(b)[i] : i \in 1 .. Len(Path(b))}]
MCrank == [b \in MCBlocks |-> b]
MCPost == [b \in MCBlocks |-> Path(b)]

Nonce(s) == Cardinality({i \in 1 .. Len(s) : s[i] \in Carries})

\* ApplyBlock accepts a transaction only with the account's current nonce; a
\* block without transactions applies to any state.
MCApplies(s, b) ==
    /\ b \notin Invalid
    /\ b \in Carries => Nonce(s) = Nonce(Path(Parent[b]))

\* PoStorage takes the validators from the state: there are none before
\* genesis, and blocks in NewValidators are signed by one that a block in
\* Registers registered.
MCAuthorizes(s, b) ==
    /\ s # <<>>
    /\ b \in NewValidators => \E i \in 1 .. Len(s) : s[i] \in Registers

\* A claim in block 5 that refers to genesis, or to block 1 of its own branch.
NoAnchor == [b \in MCBlocks |-> None]
GenesisAnchor == [NoAnchor EXCEPT ![5] = Genesis]
BranchAnchor == [NoAnchor EXCEPT ![5] = 1]

\* 0 is genesis.  Two branches of length 4 and 3 that fork at genesis, and a
\* fork of the first at height 2.
ForkTree == 1 :> 0 @@ 3 :> 1 @@ 5 :> 3 @@ 6 :> 5 @@
            2 :> 0 @@ 4 :> 2 @@ 8 :> 4 @@ 7 :> 3

\* A smaller tree, for runs with crashes.
SmallTree == 1 :> 0 @@ 3 :> 1 @@ 5 :> 3 @@ 2 :> 0 @@ 4 :> 2

SameSnapshot == [p \in SyncTips |-> {p}]
LaterSnapshot == [p \in SyncTips |-> {q \in MCBlocks : p \in MCanc[q]}]

=============================================================================
