---------------------------- MODULE MCWalletCoins ----------------------------
(***************************************************************************)
(* Two coins of the wallet from a coinbase g.  The coinstake s spends one, *)
(* a and d compete for the other, b spends the change of a.                *)
(***************************************************************************)
EXTENDS WalletCoins

MCTx   == {"g", "s", "a", "b", "d"}
MCVin  == [t \in MCTx |-> CASE t = "g" -> {}
                            [] t = "s" -> {<<"g", 2>>}
                            [] t = "a" -> {<<"g", 1>>}
                            [] t = "b" -> {<<"a", 1>>}
                            [] t = "d" -> {<<"g", 1>>}]
MCNOut == [t \in MCTx |-> IF t \in {"g", "s"} THEN 2 ELSE 1]
MCMine == {<<"g", 1>>, <<"g", 2>>, <<"s", 2>>, <<"a", 1>>, <<"b", 1>>}

=============================================================================
