---------------------------- MODULE DecisionChain ---------------------------
(***************************************************************************)
(* What a readiness ledger promises.                                       *)
(*                                                                         *)
(* A subject has one chain of decisions.  It only grows, at its end, by a  *)
(* decision it does not have yet; a caller is told of a decision that is   *)
(* in its subject's chain.                                                 *)
(***************************************************************************)
EXTENDS Naturals, Sequences

CONSTANT Subjects

VARIABLES
    chains, \* the decisions of each subject, oldest first
    told    \* the decisions callers were told

decisionVars == <<chains, told>>

Has(s, d) == \E n \in 1..Len(chains[s]) : chains[s][n] = d

Init ==
    /\ chains = [s \in Subjects |-> <<>>]
    /\ told = {}

\* A new decision is appended; all there is before it stays.
Decide(s) ==
    /\ Len(chains'[s]) = Len(chains[s]) + 1
    /\ SubSeq(chains'[s], 1, Len(chains[s])) = chains[s]
    /\ ~Has(s, chains'[s][Len(chains[s]) + 1])
    /\ \A t \in Subjects \ {s} : chains'[t] = chains[t]
    /\ UNCHANGED told

Tell(s, d) ==
    /\ Has(s, d)
    /\ told' = told \cup {d}
    /\ UNCHANGED chains

Next == \E s \in Subjects :
    \/ Decide(s)
    \/ \E n \in 1..Len(chains[s]) : Tell(s, chains[s][n])

Spec == Init /\ [][Next]_decisionVars
=============================================================================
