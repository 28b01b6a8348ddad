--------------------------- MODULE MCOwnerActivity --------------------------
(* Small instances of OwnerActivity: two deliveries of one request, or one of them and *)
(* a different request under the same idempotency key.                                 *)
EXTENDS OwnerActivity, TLC

CONSTANTS first, second, stranger

MCRequestOf == [a \in Attempts |-> IF a = stranger THEN "other" ELSE "request"]

\* Two attempts are made; the third was lost before it began.
PairInit ==
    \E unmade \in {second, stranger} :
        /\ attempt = [a \in Attempts |->
                        [pc |-> IF a = unmade THEN "ended" ELSE "scheduled", cause |-> "none",
                         outcome |-> IF a = unmade THEN "lost" ELSE "pending", answer |-> None]]
        /\ owner = [a \in Attempts |-> [group |-> "none", response |-> "none"]]
        /\ staging = [a \in Attempts |-> [place |-> "none", writes |-> 0, cached |-> None]]
        /\ committed = None

PairSpec == PairInit /\ [][ActivityNext]_activityVars /\ ActivityFairness
=============================================================================
