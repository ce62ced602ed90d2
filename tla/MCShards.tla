------------------------------ MODULE MCShards ------------------------------
(***************************************************************************)
(* Three nodes, three shards (K = 2, M = 1).  One node alone keeps all     *)
(* shards, two keep one copy of each, three keep two.  Node 1 ranks last   *)
(* for two of the shards.                                                  *)
(***************************************************************************)
EXTENDS Shards

MCRank == [i \in 0 .. 2 |-> CASE i = 0 -> <<3, 1, 2>>
                              [] i = 1 -> <<1, 2, 3>>
                              [] i = 2 -> <<3, 2, 1>>]

=============================================================================
