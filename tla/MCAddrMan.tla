------------------------------ MODULE MCAddrMan ------------------------------
(***************************************************************************)
(* Four addresses and two sources; every address can be in both new        *)
(* buckets, and there is one tried bucket.  The addresses are alike.       *)
(***************************************************************************)
EXTENDS AddrMan, TLC

CONSTANTS a1, a2, a3, a4

MCAddr == {a1, a2, a3, a4}
MCSource == {"s", "t"}
MCNewBucketOf == [x \in MCAddr \X MCSource |-> IF x[2] = "s" THEN 0 ELSE 1]
MCTriedBucketOf == [a \in MCAddr |-> 0]
MCSymmetry == Permutations(MCAddr)

=============================================================================
