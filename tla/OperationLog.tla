---------------------------- MODULE OperationLog ----------------------------
(***************************************************************************)
(* What the internal operational records promise the operator workflow.    *)
(*                                                                         *)
(* Every operation key decides at most once.  An accepted request extends  *)
(* the log of its record from exactly the state the operator reviewed, and *)
(* what a caller is told about a key is what the log holds, at any later   *)
(* time.                                                                   *)
(***************************************************************************)
EXTENDS Naturals, Sequences

CONSTANTS
    Requests,   \* accepted operator inputs
    Records,    \* record ids of one installation
    KeyOf,      \* the idempotency key of a request
    RecordOf,   \* the record it is about
    ExpectedOf, \* the record state it was reviewed against, or None
    ValueOf,    \* the record value it asks for
    None

VARIABLES
    log,  \* log[r]: the requests accepted for record r, oldest first
    told  \* the requests whose acceptance some caller was told

logVars == <<log, told>>

Init ==
    /\ log = [r \in Records |-> <<>>]
    /\ told = {}

State(r) ==
    IF log[r] = <<>> THEN None
    ELSE [version |-> Len(log[r]), value |-> ValueOf[log[r][Len(log[r])]]]

Decided(k) == \E r \in Records : \E i \in DOMAIN log[r] : KeyOf[log[r][i]] = k

Accept(q) ==
    /\ ~Decided(KeyOf[q])
    /\ ExpectedOf[q] = State(RecordOf[q])
    /\ log' = [log EXCEPT ![RecordOf[q]] = Append(@, q)]
    /\ UNCHANGED told

Tell(q) ==
    /\ \E i \in DOMAIN log[RecordOf[q]] : log[RecordOf[q]][i] = q
    /\ told' = told \cup {q}
    /\ UNCHANGED log

Next == \E q \in Requests : Accept(q) \/ Tell(q)

Spec == Init /\ [][Next]_logVars
=============================================================================
