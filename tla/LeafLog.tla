------------------------------- MODULE LeafLog -------------------------------
(***************************************************************************)
(* What a Merkle mountain range is to the state that uses it: a sequence   *)
(* of leaves that grows at its end and can be cut back to any earlier      *)
(* length.                                                                 *)
(***************************************************************************)
EXTENDS Integers, Sequences

CONSTANT LeafValue

VARIABLE log

AppendLeaf(x) == log' = Append(log, x)

CutTo(n) == log' = SubSeq(log, 1, n)

LeafLogInit == log = << >>

LeafLogNext ==
  \/ \E x \in LeafValue : AppendLeaf(x)
  \/ \E n \in 0 .. Len(log) : CutTo(n)

LeafLogSpec == LeafLogInit /\ [][LeafLogNext]_log

=============================================================================
