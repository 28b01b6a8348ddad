------------------------------ MODULE WriteOnce -----------------------------
(***************************************************************************)
(* What a durable once-only record promises to the callers that share it.  *)
(*                                                                         *)
(* The value of a key is written at most once, by whoever comes first, and *)
(* every caller is told that value, whichever call of theirs wrote it.     *)
(***************************************************************************)
CONSTANTS
    Keys,
    Values,
    None  \* a key that has no value yet

VARIABLES
    written, \* the value of each key, or None
    told     \* the values callers were told, by key

onceVars == <<written, told>>

Init ==
    /\ written = [k \in Keys |-> None]
    /\ told = [k \in Keys |-> {}]

Write(k, v) ==
    /\ written[k] = None
    /\ v \in Values
    /\ written' = [written EXCEPT ![k] = v]
    /\ UNCHANGED told

Tell(k) ==
    /\ written[k] # None
    /\ told' = [told EXCEPT ![k] = @ \cup {written[k]}]
    /\ UNCHANGED written

Next == \E k \in Keys : Tell(k) \/ Write(k, written'[k])

Spec == Init /\ [][Next]_onceVars
=============================================================================
