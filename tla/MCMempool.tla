----------------------------- MODULE MCMempool ------------------------------
(***************************************************************************)
(* Two senders.  a replaces its first transaction and goes on, and blocks  *)
(* of other producers carry a's transactions too, or nothing; b's is one   *)
(* that ApplyBlock refuses.                                                *)
(***************************************************************************)
EXTENDS Mempool

CONSTANTS a, b

Tx(id, from, nonce, cost) ==
    [id |-> id, from |-> from, nonce |-> nonce, cost |-> cost, applies |-> TRUE]

a0 == Tx(1, a, 0, 1)
a0x == Tx(2, a, 0, 1)
a1 == Tx(3, a, 1, 1)
a2 == Tx(4, a, 2, 1)
b0 == [Tx(5, b, 0, 1) EXCEPT !.applies = FALSE]

MCTxs == {a0, a0x, a1, a2, b0}

MCFunds == [s \in {a, b} |-> IF s = a THEN 3 ELSE 1]

MCForeign == {<<a0, a1>>, <<>>}

=============================================================================
