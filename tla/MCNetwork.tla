----------------------------- MODULE MCNetwork ------------------------------
(***************************************************************************)
(* Instances of Network for TLC.                                           *)
(***************************************************************************)
EXTENDS Network, Integers

Condition(timely, down, txs, maxTime, maxHeight) ==
    [timely |-> timely, down |-> down, txs |-> txs,
     maxTime |-> maxTime, maxHeight |-> maxHeight]

Tx(kind, v) == [kind |-> kind, who |-> v]

\* Timely gossip among three nodes, one of which registers; between two, one of
\* which proves storage, or which elect a third that is down.  Unreliable
\* gossip between two validators.
MCNetworks ==
    {Condition(TRUE, {}, {Tx("register", 2)}, 1, 2),
     Condition(TRUE, {2}, {Tx("prove", 1)}, 3, 3),
     Condition(TRUE, {2}, {Tx("register", 2)}, 4, 3),
     Condition(FALSE, {2}, {}, 2, 3)}

\* Three nodes, and the block with the registration may arrive after its child.
MCLateNews == {Condition(TRUE, {}, {Tx("register", 2)}, 1, 2)}

\* A number for every block, in place of its hash.
Header(r) == 1 + r.v + 5 * r.round + 25 * r.ts
                 + 200 * (IF r.tx = None THEN 0 ELSE IF r.tx.kind = "prove" THEN 1 ELSE 2)
RECURSIVE Id(_)
Id(b) == IF b = Genesis THEN 11 ELSE (Id(Parent(b)) * 29 + Header(Last(b))) % 8191

\* Pseudo-random, with collisions.
MCScore(prev, v, round, copy) ==
    LET id == Id(prev)
    IN  (id * (2 * v + 1) + 17 * v + (id + 5 * v) * round + 13 * copy * (v + 1)) % 23

MCIdLess(b, c) == Id(b) < Id(c)

=============================================================================
