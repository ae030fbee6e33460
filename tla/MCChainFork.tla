----------------------------- MODULE MCChainFork -----------------------------
(***************************************************************************)
(* Two branches that overtake each other block by block, so that a node    *)
(* reorganizes back and forth, up to three blocks deep.                    *)
(*                                                                         *)
(*               / a1 (t1, t5) -- a2 (stakeA, t4) -- a3 (t3)               *)
(*   g - f (cf) - e                                                        *)
(*               \ b1 (d1) -- b2 (stakeB, t3) -- x3 (stakeX)               *)
(*                                                                         *)
(* cf pays four outputs; t1 and d1 spend the first, t4 spends t1, stakeA   *)
(* and stakeB spend the second, the kernel of a2 and of b2, t3 the third   *)
(* and t5 the fourth.  x3 breaks a rule of ConnectBlock.                   *)
(***************************************************************************)
EXTENDS ChainState, TLC

MCPrev == ("f" :> "g") @@ ("e" :> "f") @@ ("a1" :> "e") @@ ("a2" :> "a1") @@ ("a3" :> "a2")
          @@ ("b1" :> "e") @@ ("b2" :> "b1") @@ ("x3" :> "b2")
MCBlock == DOMAIN MCPrev \cup {"g"}

\* Trust: e 3, a1 4, b1 5, a2 6, b2 7, a3 8, x3 9.
MCWork == [b \in MCBlock |-> IF b \in {"g", "f", "e", "a1"} THEN 1 ELSE 2]

MCTx == {"cf", "t1", "d1", "t3", "t4", "t5", "stakeA", "stakeB", "stakeX"}
MCNOut == [t \in MCTx |-> CASE t = "cf" -> 4 [] t \in {"t1", "t5"} -> 1 [] OTHER -> 0]
MCVin == [t \in MCTx |->
            CASE t = "cf" -> {}
              [] t \in {"t1", "d1"} -> {<<"cf", 1>>}
              [] t \in {"stakeA", "stakeB"} -> {<<"cf", 2>>}
              [] t = "t3" -> {<<"cf", 3>>}
              [] t = "t5" -> {<<"cf", 4>>}
              [] t = "t4" -> {<<"t1", 1>>}
              [] t = "stakeX" -> {<<"t5", 1>>}]
MCVtx == [b \in MCBlock |->
            CASE b = "f" -> <<"cf">>
              [] b = "a1" -> <<"t1", "t5">>
              [] b = "a2" -> <<"stakeA", "t4">>
              [] b = "a3" -> <<"t3">>
              [] b = "b1" -> <<"d1">>
              [] b = "b2" -> <<"stakeB", "t3">>
              [] b = "x3" -> <<"stakeX">>
              [] OTHER -> << >>]
MCGenerated == {"cf", "stakeA", "stakeB", "stakeX"}
MCStandard == MCTx \ MCGenerated
MCStake == [b \in MCBlock |-> CASE b \in {"a2", "b2"} -> <<"cf", 2>>
                              [] b = "x3" -> <<"t5", 1>>
                              [] OTHER -> NoStake]

=============================================================================
