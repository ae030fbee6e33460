------------------------------ MODULE MCKeyPool ------------------------------
(***************************************************************************)
(* Two threads, which are alike.                                           *)
(***************************************************************************)
EXTENDS KeyPool, TLC

CONSTANTS t1, t2

MCThread == {t1, t2}
MCSymmetry == Permutations(MCThread)

=============================================================================
