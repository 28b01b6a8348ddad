----------------------------- MODULE MCReadiness ----------------------------
(* One instance for the readiness ledgers: the chained ones (MCReadinessChain) and the request *)
(* ledgers.  They share no table: while one is explored, the other is one that has ended.      *)
EXTENDS MCReadinessChain, RequestLedger

Processes == Permutations(Workers)

\* One evaluation; its id with other content, or from another caller; and another evaluation of
\* the same request, by either caller.
Submission(id, content, caller) ==
    [is |-> [evaluation |-> id, request |-> "request", key |-> "key", content |-> content], actor |-> caller]

MCSubmissions == {Submission("first", "plain", "orchestration"), Submission("first", "changed", "orchestration"),
                  Submission("first", "plain", "other"), Submission("second", "plain", "orchestration"),
                  Submission("second", "plain", "other")}

\* One service of each kind: repository is like custody, intake, inventory and lifecycle are like
\* publication without its two other claims, and maturity is like landing.
MCServices == {"custody", "transition", "publication", "landing", "closure"}

\* A half whose calls are used up.
LedgerEnded ==
    /\ service = "custody" /\ authority = Nothing /\ records = {} /\ replies = {}
    /\ issued = MaxIssued /\ moved = MaxMoved /\ serving = [w \in Servers |-> Free]

ChainsEnded ==
    /\ ledger = "delivery" /\ source = None /\ rows = {} /\ answers = {}
    /\ calls = MaxCalls /\ moves = MaxMoves /\ call = [w \in Workers |-> Idle]

MCInit == (Init /\ LedgerEnded) \/ (ChainsEnded /\ LedgerInit)

MCNext ==
    \/ Next /\ UNCHANGED ledgerVars
    \/ LedgerNext /\ UNCHANGED vars

MCSpec == MCInit /\ [][MCNext]_<<vars, ledgerVars>>
=============================================================================
