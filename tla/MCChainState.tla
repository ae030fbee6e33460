---------------------------- MODULE MCChainState ----------------------------
(***************************************************************************)
(* Instances of ChainState for TLC.                                        *)
(*                                                                         *)
(*        / a1 (t1) -- a2 (stakeA, t3)                                     *)
(*   g - f (cf)                                                            *)
(*        \ b1 (d1) -- b2 (stakeB, t3)                                     *)
(*               \---- x1 (t3, t4) -- x2                                   *)
(*                                                                         *)
(* cf pays three outputs; t1 and d1 spend the first, t4 spends t1, stakeA  *)
(* and stakeB spend the second, which is the kernel of a2 and of b2, and   *)
(* t3 the third.  t4 of x1 spends an output that its branch does not have. *)
(***************************************************************************)
EXTENDS ChainState, TLC

MCPrev == ("f" :> "g") @@ ("a1" :> "f") @@ ("a2" :> "a1") @@ ("b1" :> "f")
          @@ ("b2" :> "b1") @@ ("x1" :> "b1") @@ ("x2" :> "x1")
MCBlock == DOMAIN MCPrev \cup {"g"}

\* Trust: f 2, a1 3, b1 3, a2 5, b2 6, x1 4, x2 7.
MCWork == [b \in MCBlock |-> CASE b \in {"b2", "x2"} -> 3 [] b = "a2" -> 2 [] OTHER -> 1]

MCTx == {"cf", "t1", "d1", "t3", "t4", "stakeA", "stakeB"}
MCNOut == [t \in MCTx |-> CASE t = "cf" -> 3 [] t = "t1" -> 1 [] OTHER -> 0]
MCVin == [t \in MCTx |->
            CASE t = "cf" -> {}
              [] t \in {"t1", "d1"} -> {<<"cf", 1>>}
              [] t \in {"stakeA", "stakeB"} -> {<<"cf", 2>>}
              [] t = "t3" -> {<<"cf", 3>>}
              [] t = "t4" -> {<<"t1", 1>>}]
MCVtx == [b \in MCBlock |->
            CASE b = "g" -> << >>
              [] b = "f" -> <<"cf">>
              [] b = "a1" -> <<"t1">>
              [] b = "a2" -> <<"stakeA", "t3">>
              [] b = "b1" -> <<"d1">>
              [] b = "b2" -> <<"stakeB", "t3">>
              [] b = "x1" -> <<"t3", "t4">>
              [] b = "x2" -> << >>]
MCGenerated == {"cf", "stakeA", "stakeB"}
MCStandard == MCTx \ MCGenerated
MCStake == [b \in MCBlock |-> IF b \in {"a2", "b2"} THEN <<"cf", 2>> ELSE NoStake]

=============================================================================
