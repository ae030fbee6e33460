------------------------------ MODULE MCTxRelay ------------------------------
(***************************************************************************)
(* An instance of TxRelay for TLC: p pays the wallet, whose transaction w  *)
(* spends p.  Of the transactions of others c spends p, d spends both p    *)
(* and c, and e spends p and is invalid.                                   *)
(***************************************************************************)
EXTENDS TxRelay, TLC

MCTx == {"p", "w", "c", "d", "e"}
MCParents == [t \in MCTx |-> CASE t \in {"w", "c", "e"} -> {"p"}
                             [] t = "d" -> {"p", "c"}
                             [] OTHER -> {}]

=============================================================================
