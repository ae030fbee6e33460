--------------------------- MODULE MCSyncCheckpoint ---------------------------
(***************************************************************************)
(* Two branches above e and a block f next to e.  The branch of b has less *)
(* trust than that of a at equal height.  The second release hardens b1.   *)
(*                                                                         *)
(*             / a1 - a2                                                   *)
(*    g - - - e        / x2                                                *)
(*     \ f     \ b1 - - - - b2 - x3 - y4                                   *)
(*                                                                         *)
(* x2 and x3 do not connect.  If x3 is postponed the chain ends in it all  *)
(* the same, and y4 closes the chain above it.                             *)
(***************************************************************************)
EXTENDS SyncCheckpoint, TLC

MCPrev == ("e" :> "g") @@ ("f" :> "g") @@ ("a1" :> "e") @@ ("a2" :> "a1")
          @@ ("b1" :> "e") @@ ("b2" :> "b1") @@ ("x3" :> "b2") @@ ("x2" :> "b1") @@ ("y4" :> "x3")
MCBlock == DOMAIN MCPrev \cup {"g"}
MCWork  == [b \in MCBlock |-> IF b \in {"a1", "a2", "x2", "x3"} THEN 2 ELSE 1]
MCHardened == <<{"g", "e"}, {"g", "e", "b1"}>>

=============================================================================
