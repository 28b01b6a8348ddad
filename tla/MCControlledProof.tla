-------------------------- MODULE MCControlledProof -------------------------
(* A small instance of ControlledProof: two deliveries of one activity, and an attempt *)
(* of another activity with a request of another run.                                  *)
EXTENDS ControlledProof, TLC

CONSTANTS first, retry, changed, none

Deliveries == Permutations({first, retry})

MCActivityOf == [a \in Attempts |-> IF a = changed THEN "third" ELSE "first"]
MCRequestOf == [a \in Attempts |-> IF a = changed THEN "changed" ELSE "request"]
MCRunOf == [q \in Requests |-> IF q = "changed" THEN "run2" ELSE "run1"]
=============================================================================
