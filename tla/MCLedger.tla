------------------------------ MODULE MCLedger ------------------------------
(***************************************************************************)
(* A small network for Ledger: the genesis validator g, which is also the  *)
(* treasury (as on mainnet), a user u and the contracts k and m.           *)
(***************************************************************************)
EXTENDS Ledger

CONSTANTS g, u, k, m

MCAddr == {g, u, k, m}

MCSubsidy == [i \in 0 .. 63 |-> IF i > 30 THEN 0 ELSE InitialReward \div 2^i]

\* A transaction that only needs naming what it is about.
Tx(kind, from, nonce, amount) ==
    [kind |-> kind, from |-> from, to |-> u, nonce |-> nonce,
     amount |-> amount, fee |-> 0, valid |-> TRUE, proof |-> TRUE, ref |-> 0,
     accused |-> u, created |-> IF nonce = 0 THEN k ELSE m,
     enters |-> {}, commits |-> {}, reverts |-> FALSE]

\* Money: transfers with a fee, one whose Amount + Fee wraps around, the
\* faucet with and without value, and a bad signature.
MoneyTxs ==
    { Tx("Transfer", g, 0, 3), Tx("Transfer", g, 1, 2),
      [Tx("Transfer", u, 0, 1) EXCEPT !.to = g, !.fee = 1],
      [Tx("Transfer", u, 0, Word - 1) EXCEPT !.to = k, !.fee = 1],
      [Tx("Transfer", u, 1, 0) EXCEPT !.valid = FALSE],
      Tx("Faucet", u, 0, 0), Tx("Faucet", u, 1, 1), Tx("Faucet", u, 2, 0),
      Tx("Faucet", g, 1, 0) }

\* Validators: bonds at and below the minimum, slashing by and of both,
\* leaving with a value, storage proofs.
ValidatorTxs ==
    { Tx("Transfer", g, 0, 6), Tx("Register", u, 0, MinBond),
      Tx("Register", u, 0, MinBond - 1), Tx("Register", u, 1, MinBond),
      Tx("Register", u, 2, MinBond), Tx("Unregister", u, 1, 1),
      Tx("StorageProof", u, 1, 1), Tx("StorageProof", u, 2, 0),
      Tx("Slash", g, 1, 0), Tx("Slash", u, 1, 1),
      [Tx("Slash", g, 1, 0) EXCEPT !.accused = g] }

\* Contracts: u deploys k and then m; k is called, enters m, and reverts
\* after m's run was committed; calls enter k again, and contracts that do not
\* exist yet.
ContractTxs ==
    { Tx("Deploy", u, 0, 1), Tx("Deploy", u, 1, 0),
      [Tx("Call", u, 2, 1) EXCEPT !.to = k, !.fee = 1, !.reverts = TRUE,
                                  !.enters = {k, m}, !.commits = {m}],
      [Tx("Call", g, 1, 1) EXCEPT !.to = k, !.enters = {m, k}, !.commits = {m, k}] }

\* Both, so that blocks mix them.
RegistryAndContractTxs == ValidatorTxs \cup ContractTxs

=============================================================================
