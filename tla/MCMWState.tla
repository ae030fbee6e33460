------------------------------ MODULE MCMWState ------------------------------
(***************************************************************************)
(* Two branches from a1 that overtake each other, one that replaces all    *)
(* of them, and a block on top of the first one that is refused:           *)
(*                                                                         *)
(*     g -- a1 -- a2 -- a3 -- a4 (refused)                                 *)
(*      \     \-- b2 -- b3 -- b4                                           *)
(*       \-- z1                                                            *)
(*                                                                         *)
(* b3 has no extension block.  With Window = 2 the move to z1 runs out of  *)
(* undo data.  b4 makes the commitment c1 again that b2 has spent, and the *)
(* commitment c3 that is unspent, so that AddOutput does not take it.      *)
(***************************************************************************)
EXTENDS MWState, TLC

MCBlock == {"g", "a1", "a2", "a3", "a4", "b2", "b3", "b4", "z1"}

MCPrev == "a1" :> "g" @@ "a2" :> "a1" @@ "a3" :> "a2" @@ "a4" :> "a3"
          @@ "b2" :> "a1" @@ "b3" :> "b2" @@ "b4" :> "b3" @@ "z1" :> "g"

\* Trust: a1 2, a2 4, b2 3, b3 5, a3 6, b4 7, a4 8, z1 9.
MCWork == "g" :> 1 @@ "a1" :> 1 @@ "a2" :> 2 @@ "b2" :> 1 @@ "b3" :> 2
          @@ "a3" :> 2 @@ "b4" :> 2 @@ "a4" :> 2 @@ "z1" :> 8

MCExt == {"ea1", "ea2", "ea3", "ea4", "eb2", "eb4", "ez1"}

MCExtOf == "g" :> NoExt @@ "a1" :> "ea1" @@ "a2" :> "ea2" @@ "a3" :> "ea3" @@ "a4" :> "ea4"
           @@ "b2" :> "eb2" @@ "b3" :> NoExt @@ "b4" :> "eb4" @@ "z1" :> "ez1"

MCPrevMW == "ea1" :> NoExt @@ "ea2" :> "ea1" @@ "ea3" :> "ea2" @@ "ea4" :> "ea3"
            @@ "eb2" :> "ea1" @@ "eb4" :> "eb2" @@ "ez1" :> NoExt

MCCommitment == {"c1", "c2", "c3", "c4", "c5", "k1", "k2"}

MCOut == "ea1" :> <<"c1", "c2">> @@ "ea2" :> <<"c3">> @@ "ea3" :> <<"c4">> @@ "ea4" :> << >>
         @@ "eb2" :> <<"c4", "c3">> @@ "eb4" :> <<"c3", "c5", "c1">> @@ "ez1" :> <<"c1">>

MCIn == "ea1" :> {} @@ "ea2" :> {"c1"} @@ "ea3" :> {"c2", "c3"} @@ "ea4" :> {}
        @@ "eb2" :> {"c1", "c2"} @@ "eb4" :> {"c4"} @@ "ez1" :> {}

MCKernels == "ea1" :> <<"k1">> @@ "ea2" :> <<"k2">> @@ "ea3" :> <<"k1", "k2">> @@ "ea4" :> <<"k1">>
             @@ "eb2" :> <<"k2", "k1">> @@ "eb4" :> <<"k1">> @@ "ez1" :> <<"k1">>

MCPegIn == "ea1" :> 3 @@ "ea2" :> 0 @@ "ea3" :> 1 @@ "ea4" :> 0
           @@ "eb2" :> 2 @@ "eb4" :> 0 @@ "ez1" :> 1

=============================================================================
