--------------------------- MODULE ReadinessChain ---------------------------
(***************************************************************************)
(* The three readiness ledgers that keep a chain of decisions for each     *)
(* subject: repository_readiness.py, prototype_ingress_readiness.py and    *)
(* delivery_art_readiness.py, with their tables of db/models.py.           *)
(*                                                                         *)
(* A worker is an API process of some release of the code, serving         *)
(* one call at a time.  issue evaluates a request against a source that    *)
(* moves meanwhile, looks for the same decision, reads the subject's last  *)
(* receipt, and inserts the next; each is a database session or a read of  *)
(* its own, at READ COMMITTED.  The services share the protocol, not the   *)
(* table: `ledger` says which one a behaviour is about.                    *)
(*                                                                         *)
(* A decision is what decision_key digests, so it is its own key.          *)
(***************************************************************************)
EXTENDS Naturals, FiniteSets

CONSTANTS
    Workers,   \* the API processes
    Ledgers,   \* of "repository", "prototype", "delivery": the tables considered
    Requests,  \* what callers ask a process of some release for: the subject; the expected record;
               \* for Delivery ART its outcome and the custody instants of the artifacts bound
    Revisions, \* revisions of the source a decision is about: [record, rule]
    Times,     \* the readings the process clocks may return, for each table
    None,
    MaxCalls,  \* bound: calls started
    MaxMoves   \* bound: moves of the source

Subjects == {q.subject : q \in Requests}
Records == {s.record : s \in Revisions}
Rules == {s.rule : s \in Revisions}

\* Of a record or rule that is in force, and of what a rule, a packet or a registry lacks.
Outcomes ==
    {"stale", "repository-rule-missing", "repository-rule-mismatch", "ready",
     "packet-record-missing", "source-projection-stale", "eligible"}
    \cup {q.outcome : q \in Requests} \cup {record.lifecycle : record \in Records}

Decision == [request : Requests, outcome : Outcomes,
             basis : {None} \cup (Records \X (Rules \cup {None}))]

\* A row of one of the tables.
Receipt == [decision : Decision, evaluated : Nat, persisted : Nat, generation : Nat \ {0},
            supersedes : Decision \cup {None}]

\* Clocks are read in numbers of seconds, a request binds finitely many artifacts, and None is no
\* decision.
ASSUME ReadinessAssumption ==
    /\ Ledgers \subseteq {"repository", "prototype", "delivery"}
    /\ \A l \in Ledgers : Times[l] \subseteq Nat
    /\ \A q \in Requests : q.custody \subseteq Nat /\ IsFiniteSet(q.custody)
    /\ None \notin Decision

VARIABLES
    ledger, \* the table this behaviour is about
    source, \* the revision checked out now, or None while its checkpoint is not fresh
    rows,   \* the receipts of the table
    call,   \* the call each worker is serving
    answers,\* decisions a caller was told
    calls,  \* calls started
    moves   \* moves of the source

vars == <<ledger, source, rows, call, answers, calls, moves>>

Idle == [stage |-> "idle", request |-> None, seen |-> None, decision |-> None, prior |-> None]

Maximum(S) == CHOOSE n \in S : \A m \in S : m <= n

Subject(decision) == decision.request.subject
Chain(subject) == {r \in rows : Subject(r.decision) = subject}
-----------------------------------------------------------------------------
(* Evaluation.                                                             *)

\* RepositoryReadinessService._evaluate up to the rule: what the authority record alone decides.
RecordOutcome(request, record) ==
    CASE request.expected # record.digest -> "stale"
      [] request.expected = record.digest /\ record.lifecycle # "active" -> record.lifecycle
      [] OTHER -> None

\* The rest of it: the rule file, of whatever revision is there by now.
RuleOutcome(record, rule) ==
    CASE rule = None -> "repository-rule-missing"
      [] rule # None /\ rule.lifecycle # record.lifecycle -> "repository-rule-mismatch"
      [] OTHER -> "ready"

\* PrototypeIngressReadinessService._verify_source: the packet record, then the registry; a git
\* command that times out says that the object is missing.
PacketOutcome(request, record) ==
    IF record.digest = request.expected THEN None ELSE "packet-record-missing"
RegistryOutcome(rule) ==
    IF rule # None /\ rule.lifecycle = "active" THEN "eligible" ELSE "source-projection-stale"

Missing == [digest |-> None, lifecycle |-> None]

DecisionOf(w, outcome, record, rule) ==
    [request |-> call[w].request, outcome |-> outcome,
     basis |-> IF ledger = "repository" THEN <<record, rule>> ELSE None]

Decided(w, outcome, record, rule) ==
    call' = [call EXCEPT ![w].stage = "lookup", ![w].decision = DecisionOf(w, outcome, record, rule)]

Unchanged == UNCHANGED <<ledger, source, rows, answers, calls, moves>>

\* A call whose source is not fresh is refused; nothing is recorded.
Refuse(w) == call' = [call EXCEPT ![w].stage = "unavailable"]

\* The first read: repos.yaml, or the packet record at the trusted ref.
ReadRecord(w) ==
    /\ call[w].stage = "record"
    /\ \/ /\ ledger = "repository" /\ source = None
          /\ Refuse(w)
       \/ /\ ledger = "repository" /\ source # None
          /\ LET outcome == RecordOutcome(call[w].request, source.record)
             IN IF outcome # None THEN Decided(w, outcome, source.record, None)
                ELSE call' = [call EXCEPT ![w].stage = "rule", ![w].seen = source.record]
       \/ /\ ledger = "prototype"
          /\ \E record \in {Missing} \cup (IF source = None THEN {} ELSE {source.record}) :
                LET outcome == PacketOutcome(call[w].request, record)
                IN IF outcome # None THEN Decided(w, outcome, record, None)
                   ELSE call' = [call EXCEPT ![w].stage = "rule", ![w].seen = record]
       \/ /\ ledger = "delivery"
          /\ Decided(w, call[w].request.outcome, None, None)
    /\ Unchanged

\* The second read: the rule file, or the registry at the trusted ref.
ReadRule(w) ==
    /\ call[w].stage = "rule"
    /\ \/ /\ ledger = "repository" /\ source = None
          /\ Refuse(w)
       \/ /\ ledger = "repository" /\ source # None
          /\ Decided(w, RuleOutcome(call[w].seen, source.rule), call[w].seen, source.rule)
       \/ /\ ledger = "prototype"
          /\ \E rule \in {None} \cup (IF source = None THEN {} ELSE {source.rule}) :
                Decided(w, RegistryOutcome(rule), None, None)
    /\ Unchanged
-----------------------------------------------------------------------------
(* Persistence.                                                            *)

Receipts(decision) == {r \in rows : r.decision = decision}

\* The lookup by decision_key before anything else.
Lookup(w) ==
    /\ call[w].stage = "lookup"
    /\ call' = [call EXCEPT ![w].stage = IF Receipts(call[w].decision) = {} THEN "prior" ELSE "reuse"]
    /\ Unchanged

\* The subject's receipt of the greatest generation, by another statement.
ReadPrior(w) ==
    /\ call[w].stage = "prior"
    /\ LET chain == Chain(call[w].request.subject)
       IN call' = [call EXCEPT
             ![w].stage = "insert",
             ![w].prior = IF chain = {} THEN None
                          ELSE CHOOSE r \in chain : \A s \in chain : s.generation <= r.generation]
    /\ Unchanged

\* Mutant: the clock is trusted.
ClockOnly(now, prior, request) == now

\* _evaluation_time: after the prior receipt and, for Delivery ART, after every artifact bound.
EvaluationTime(now, prior, request) ==
    Maximum({now} \cup (IF prior = None THEN {} ELSE {prior.persisted + 1})
                  \cup {t + 1 : t \in (IF ledger = "delivery" THEN request.custody ELSE {})})

Generation(prior) == IF prior = None THEN 1 ELSE prior.generation + 1

NewReceipt(w, now) ==
    LET prior == call[w].prior
        at == EvaluationTime(now, prior, call[w].request)
    IN [decision |-> call[w].decision, evaluated |-> at, persisted |-> at + 1,
        generation |-> Generation(prior),
        supersedes |-> IF prior = None THEN None ELSE prior.decision]

\* Mutant: the tables without their decision constraint.
NoDecisionConstraint(new) ==
    \E r \in rows :
        \/ Subject(r.decision) = Subject(new.decision) /\ r.generation = new.generation
        \/ r.supersedes # None /\ r.supersedes = new.supersedes

\* The unique constraints of the three tables.
UniqueViolation(new) ==
    \E r \in rows :
        \/ r.decision = new.decision
        \/ Subject(r.decision) = Subject(new.decision) /\ r.generation = new.generation
        \/ r.supersedes # None /\ r.supersedes = new.supersedes

Insert(w) ==
    /\ call[w].stage = "insert"
    /\ \E now \in Times[ledger] :
          LET new == NewReceipt(w, now)
          IN IF UniqueViolation(new)
               THEN /\ call' = [call EXCEPT ![w].stage = "conflict"]
                    /\ UNCHANGED rows
               ELSE /\ rows' = rows \cup {new}
                    /\ call' = [call EXCEPT ![w].stage = "answer"]
    /\ UNCHANGED <<ledger, source, answers, calls, moves>>

\* After the rollback: the same decision by another call, or another decision of the subject.
ReadAgain(w) ==
    /\ call[w].stage = "conflict"
    /\ call' = [call EXCEPT ![w].stage = IF Receipts(call[w].decision) = {} THEN "refused" ELSE "reuse"]
    /\ Unchanged

\* The receipt is checked, its use is logged in a transaction of its own, and it is returned.
Answer(w) ==
    /\ call[w].stage \in {"reuse", "read", "answer"}
    /\ answers' = answers \cup {call[w].decision}
    /\ call' = [call EXCEPT ![w] = Idle]
    /\ UNCHANGED <<ledger, source, rows, calls, moves>>

\* An error response, or a process that dies: the caller is told nothing about a decision.
Fail(w) ==
    /\ call[w].stage # "idle"
    /\ call' = [call EXCEPT ![w] = Idle]
    /\ Unchanged

Issue(w) ==
    /\ call[w].stage = "idle" /\ calls < MaxCalls
    /\ \E r \in Requests : call' = [call EXCEPT ![w] = [Idle EXCEPT !.stage = "record", !.request = r]]
    /\ calls' = calls + 1
    /\ UNCHANGED <<ledger, source, rows, answers, moves>>

\* read: a receipt by its token, which is a function of the decision.
Read(w) ==
    /\ call[w].stage = "idle" /\ calls < MaxCalls
    /\ \E r \in rows : call' = [call EXCEPT ![w] = [Idle EXCEPT !.stage = "read", !.decision = r.decision]]
    /\ calls' = calls + 1
    /\ UNCHANGED <<ledger, source, rows, answers, moves>>

\* The checkout moves, or its freshness checkpoint lapses.
Move ==
    /\ ledger # "delivery" /\ moves < MaxMoves
    /\ \E s \in Revisions \cup {None} : s # source /\ source' = s
    /\ moves' = moves + 1
    /\ UNCHANGED <<ledger, rows, call, answers, calls>>

Init ==
    /\ ledger \in Ledgers
    /\ source \in (IF ledger = "delivery" THEN {None} ELSE Revisions)
    /\ rows = {} /\ answers = {} /\ calls = 0 /\ moves = 0
    /\ call = [w \in Workers |-> Idle]

Step(w) ==
    \/ Issue(w) \/ Read(w) \/ ReadRecord(w) \/ ReadRule(w) \/ Lookup(w) \/ ReadPrior(w)
    \/ Insert(w) \/ ReadAgain(w) \/ Answer(w) \/ Fail(w)

Next == Move \/ \E w \in Workers : Step(w)

Spec == Init /\ [][Next]_vars
-----------------------------------------------------------------------------
(* Properties.                                                             *)

\* The receipts of a subject form one chain in time: each names the one before it and was
\* evaluated after that was persisted, whatever the clocks of the processes say, and a Delivery
\* ART decision was evaluated after every artifact it binds.
ReceiptsAreOrdered ==
    \A r \in rows :
        /\ r.evaluated < r.persisted
        /\ r.generation = 1 <=> r.supersedes = None
        /\ \A s \in Chain(Subject(r.decision)) :
              /\ s.generation = r.generation => s = r
              /\ r.generation = s.generation + 1 => r.supersedes = s.decision /\ s.persisted < r.evaluated
        /\ ledger = "delivery" => \A t \in r.decision.request.custody : t < r.evaluated

\* The decisions of a chain, by generation.
DecisionsOf(chain) ==
    [n \in 1..Cardinality(chain) |-> (CHOOSE r \in chain : r.generation = n).decision]

\* What the ledgers promise: a chain of distinct decisions for each subject.
Abstract == INSTANCE DecisionChain WITH
    chains <- [s \in Subjects |-> DecisionsOf(Chain(s))], told <- answers

\* Whatever the interleaving, the tables append each decision once, at the end of its chain.
ImplementsDecisionChain == Abstract!Spec
=============================================================================
