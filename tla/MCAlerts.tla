------------------------------- MODULE MCAlerts -------------------------------
(***************************************************************************)
(* Three nodes in a line; the one in the middle is called by both ends.    *)
(* The alert y cancels x by its list and expires, z is the last alert and  *)
(* cancels both by their numbers; x is meant for one end of the line only. *)
(***************************************************************************)
EXTENDS Alerts

MCLinks == {<<"n1", "n2">>, <<"n3", "n2">>}
MCID    == [a \in Alert |-> CASE a = "x" -> 1 [] a = "y" -> 2 [] a = "z" -> MaxInt]
MCCancel     == [a \in Alert |-> IF a = "z" THEN MaxInt - 1 ELSE 0]
MCSetCancel  == [a \in Alert |-> IF a = "y" THEN {1} ELSE {}]
MCExpiration == [a \in Alert |-> IF a = "y" THEN 1 ELSE 9]
MCRelayUntil == [a \in Alert |-> 1]
MCScope      == [a \in Alert |-> IF a = "x" THEN {"n3"} ELSE Node]

=============================================================================
