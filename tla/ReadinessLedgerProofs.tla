----------------------- MODULE ReadinessLedgerProofs -----------------------
(***************************************************************************)
(* Theorems about the ledgers of the readiness services, for any services, *)
(* processes, requests, revisions and sources, and whatever the clocks of  *)
(* the processes say.  First those about the chained ledgers               *)
(* (ReadinessChain): the receipts of a subject are ordered, and the ledger *)
(* implements an append-only chain.  Then those about the ledgers of       *)
(* single requests (RequestLedger): racing, repeated and re-keyed calls    *)
(* are refused for a reason and answered with what they asked, and the     *)
(* ledger implements a record that is written once.                        *)
(***************************************************************************)
EXTENDS ReadinessChain, RequestLedger, FiniteSetTheorems, SequenceTheorems, WellFoundedInduction, TLAPS
-----------------------------------------------------------------------------
(* The chained ledgers.                                                    *)

ChainStages == {"idle", "record", "rule", "unavailable", "lookup", "prior", "insert", "conflict",
                "refused", "reuse", "read", "answer"}

CallState == [stage : ChainStages, request : Requests \cup {None},
              seen : Records \cup {Missing, None}, decision : Decision \cup {None},
              prior : Receipt \cup {None}]

ChainTypeOK ==
    /\ ledger \in Ledgers
    /\ source \in Revisions \cup {None}
    /\ rows \subseteq Receipt /\ IsFiniteSet(rows)
    /\ call \in [Workers -> CallState]
    /\ answers \subseteq Decision
    /\ calls \in Nat /\ moves \in Nat

\* What a call may rely on at each of its stages.
Known(c) ==
    /\ c.stage \notin {"idle", "read"} => c.request \in Requests
    /\ c.stage = "rule" /\ ledger = "repository" => c.seen \in Records
    /\ c.stage \in {"lookup", "prior", "insert", "conflict"} =>
          c.decision \in Decision /\ c.decision.request = c.request
    /\ c.stage \in {"reuse", "read", "answer"} => Receipts(c.decision) # {}
    /\ c.stage = "insert" => c.prior = None \/ c.prior \in Chain(c.request.subject)

CallsKnow == \A w \in Workers : Known(call[w])

\* The generations of a chain have no hole: nobody can insert in its middle.
ChainsAreFull ==
    \A s \in Subjects : {r.generation : r \in Chain(s)} = 1..Cardinality(Chain(s))

DecisionsAreDistinct == \A r, s \in rows : r.decision = s.decision => r = s

ChainInv == ChainTypeOK /\ CallsKnow /\ ChainsAreFull /\ DecisionsAreDistinct /\ ReceiptsAreOrdered
-----------------------------------------------------------------------------
(* Helpers.                                                                *)

\* A finite set of numbers that is not empty has a greatest element.
LEMMA MaximumOfFinite ==
    ASSUME NEW S \in SUBSET Nat, IsFiniteSet(S), S # {}
    PROVE  Maximum(S) \in S /\ \A m \in S : m <= Maximum(S)
<1> DEFINE Above(x) == {y \in S : y > x}
           F == {Above(x) : x \in S}
<1>1. F # {} /\ F \subseteq FiniteSubsetsOf(S)
  <2>1. F # {} /\ F \subseteq SUBSET S
    OBVIOUS
  <2> HIDE DEF F
  <2> QED BY <2>1, FS_FiniteSubsetsOfFinite
<1>2. IsWellFoundedOn(StrictSubsetOrdering(S), FiniteSubsetsOf(S))
  BY FS_StrictSubsetOrderingWellFounded
<1> HIDE DEF F
<1>3. \E I \in F : \A J \in F : <<J, I>> \notin StrictSubsetOrdering(S)
  BY <1>1, <1>2, WFMin
<1> USE DEF F
<1>4. PICK x \in S : \A y \in S : <<Above(y), Above(x)>> \notin StrictSubsetOrdering(S)
  BY <1>3
<1>5. ASSUME NEW y \in S, y > x PROVE FALSE
  <2>1. y \in Above(x) /\ y \notin Above(y)
    BY <1>5
  <2>2. Above(y) \subseteq Above(x)
    <3> SUFFICES ASSUME NEW z \in S, z > y PROVE z > x
      OBVIOUS
    <3>1. x \in Nat /\ y \in Nat /\ z \in Nat
      OBVIOUS
    <3> QED BY <1>5, <3>1
  <2>3. Above(y) \in SUBSET S /\ Above(x) \in SUBSET S
    OBVIOUS
  <2> HIDE DEF Above
  <2> QED BY <1>4, <2>1, <2>2, <2>3 DEF StrictSubsetOrdering
<1>6. \A m \in S : m <= x
  BY <1>5
<1> QED BY <1>6 DEF Maximum

\* Adding one to each of finitely many numbers leaves finitely many.
LEMMA SuccessorsAreFinite ==
    ASSUME NEW S \in SUBSET Nat, IsFiniteSet(S)
    PROVE  IsFiniteSet({t + 1 : t \in S})
<1> DEFINE T == {t + 1 : t \in S}
           f == [t \in S |-> t + 1]
<1>1. f \in Surjection(S, T)
  BY DEF Surjection
<1> QED BY <1>1, FS_Surjection

\* A new receipt is evaluated after its predecessor was persisted and, for Delivery ART, after
\* every artifact it binds.
LEMMA EvaluationIsLate ==
    ASSUME NEW now \in Nat, NEW prior, prior = None \/ prior.persisted \in Nat,
           NEW request, request.custody \in SUBSET Nat, IsFiniteSet(request.custody)
    PROVE  LET at == EvaluationTime(now, prior, request) IN
           /\ at \in Nat
           /\ prior # None => prior.persisted < at
           /\ ledger = "delivery" => \A t \in request.custody : t < at
<1> DEFINE Bound == IF ledger = "delivery" THEN request.custody ELSE {}
           Prior == IF prior = None THEN {} ELSE {prior.persisted + 1}
           After == {t + 1 : t \in Bound}
           All == {now} \cup Prior \cup After
<1>1. IsFiniteSet(Bound) /\ Bound \in SUBSET Nat
  BY FS_EmptySet
<1>2. IsFiniteSet(After)
  BY <1>1, SuccessorsAreFinite
<1>3. IsFiniteSet(Prior)
  BY FS_EmptySet, FS_Singleton
<1>4. IsFiniteSet(All)
  <2>1. IsFiniteSet({now})
    BY FS_Singleton
  <2>2. IsFiniteSet({now} \cup Prior)
    BY <2>1, <1>3, FS_Union
  <2> QED BY <2>2, <1>2, FS_Union
<1>5. All \in SUBSET Nat /\ All # {}
  BY <1>1
<1>6. Maximum(All) \in All /\ \A m \in All : m <= Maximum(All)
  <2> HIDE DEF All
  <2> QED BY <1>4, <1>5, MaximumOfFinite
<1>7. EvaluationTime(now, prior, request) = Maximum(All)
  BY DEF EvaluationTime
<1>8. prior # None => prior.persisted < Maximum(All)
  <2> SUFFICES ASSUME prior # None PROVE prior.persisted < Maximum(All)
    OBVIOUS
  <2>1. prior.persisted + 1 \in All
    OBVIOUS
  <2> HIDE DEF All
  <2> QED BY <1>5, <1>6, <2>1
<1>9. ledger = "delivery" => \A t \in request.custody : t < Maximum(All)
  <2> SUFFICES ASSUME ledger = "delivery", NEW t \in request.custody PROVE t < Maximum(All)
    OBVIOUS
  <2>1. t + 1 \in All /\ t \in Nat
    OBVIOUS
  <2> HIDE DEF All
  <2>2. t + 1 <= Maximum(All) /\ Maximum(All) \in Nat
    BY <1>5, <1>6, <2>1
  <2> QED BY <2>1, <2>2
<1> HIDE DEF All
<1> QED BY <1>5, <1>6, <1>7, <1>8, <1>9
-----------------------------------------------------------------------------
(* The invariant.                                                          *)

\* A worker that serves nothing.
LEMMA IdleTyped == Idle \in CallState /\ Known(Idle)
BY DEF Idle, CallState, ChainStages, Known

\* The tables are empty at first.
LEMMA InitLedger == ASSUME Init PROVE ChainInv
<1>1. \A s \in Subjects : Chain(s) = {}
  BY DEF Init, Chain
<1>2. ChainTypeOK
  <2>1. source \in Revisions \cup {None}
    BY DEF Init
  <2>2. call \in [Workers -> CallState]
    BY IdleTyped DEF Init
  <2>3. rows \subseteq Receipt /\ IsFiniteSet(rows)
    BY FS_EmptySet DEF Init
  <2> QED BY <2>1, <2>2, <2>3 DEF Init, ChainTypeOK
<1>3. CallsKnow
  BY IdleTyped DEF Init, CallsKnow
<1>4. ChainsAreFull
  BY <1>1, FS_EmptySet DEF ChainsAreFull
<1>5. DecisionsAreDistinct /\ ReceiptsAreOrdered
  BY DEF Init, DecisionsAreDistinct, ReceiptsAreOrdered
<1> QED BY <1>2, <1>3, <1>4, <1>5 DEF ChainInv

\* A step of one worker that writes no table.
LEMMA Served ==
    ASSUME ChainInv, NEW w \in Workers, UNCHANGED <<ledger, rows>>,
           source' \in Revisions \cup {None},
           call' \in [Workers -> CallState],
           \A v \in Workers \ {w} : call'[v] = call[v],
           Known(call'[w]),
           answers' \subseteq Decision, calls' \in Nat, moves' \in Nat
    PROVE  ChainInv'
<1>1. ChainTypeOK'
  BY DEF ChainInv, ChainTypeOK
<1>3. CallsKnow'
  <2>1. \A v \in Workers : Known(call'[v])
    BY DEF ChainInv, CallsKnow
  <2>2. \A v \in Workers : Known(call[v])'
    BY <2>1 DEF Known, Receipts, Chain
  <2> QED BY <2>2 DEF CallsKnow
<1>4. ChainsAreFull' /\ DecisionsAreDistinct' /\ ReceiptsAreOrdered'
  BY DEF ChainInv, ChainsAreFull, DecisionsAreDistinct, ReceiptsAreOrdered, Chain, Subject
<1> QED BY <1>1, <1>3, <1>4 DEF ChainInv

\* The decision of an evaluation is one of the decisions.
LEMMA DecisionTyped ==
    ASSUME ChainInv, NEW w \in Workers, call[w].request \in Requests, NEW outcome \in Outcomes,
           NEW record, ledger = "repository" => record \in Records,
           NEW rule, ledger = "repository" => rule \in Rules \cup {None}
    PROVE  /\ DecisionOf(w, outcome, record, rule) \in Decision
           /\ DecisionOf(w, outcome, record, rule).request = call[w].request
BY DEF DecisionOf, Decision

\* An evaluation that comes to a decision goes to the table.
LEMMA DecidedKeeps ==
    ASSUME ChainInv, NEW w \in Workers, call[w].stage \in {"record", "rule"},
           NEW outcome \in Outcomes,
           NEW record, ledger = "repository" => record \in Records,
           NEW rule, ledger = "repository" => rule \in Rules \cup {None},
           Decided(w, outcome, record, rule), Unchanged
    PROVE  ChainInv'
<1> DEFINE d == DecisionOf(w, outcome, record, rule)
<1>1. call[w].request \in Requests /\ call[w] \in CallState
  BY DEF ChainInv, ChainTypeOK, CallsKnow, Known
<1>2. d \in Decision /\ d.request = call[w].request
  BY <1>1, DecisionTyped
<1>3. call' = [call EXCEPT ![w] = [call[w] EXCEPT !.stage = "lookup", !.decision = d]]
  BY <1>1 DEF Decided, ChainInv, ChainTypeOK, CallState
<1> HIDE DEF d
<1>4. [call[w] EXCEPT !.stage = "lookup", !.decision = d] \in CallState
  BY <1>1, <1>2 DEF CallState, ChainStages
<1>5. call' \in [Workers -> CallState] /\ \A v \in Workers \ {w} : call'[v] = call[v]
  BY <1>3, <1>4 DEF ChainInv, ChainTypeOK
<1>6. call'[w].stage = "lookup" /\ call'[w].decision = d /\ call'[w].request = call[w].request
  BY <1>1, <1>3 DEF ChainInv, ChainTypeOK, CallState
<1>7. Known(call'[w])
  BY <1>1, <1>2, <1>6 DEF Known
<1> QED BY <1>5, <1>7, Served DEF ChainInv, ChainTypeOK, Unchanged

\* A step of one worker to a stage at which only its request is known.
LEMMA MovedKeeps ==
    ASSUME ChainInv, NEW w \in Workers, Unchanged,
           NEW stage \in {"unavailable", "prior", "reuse", "refused"},
           call' = [call EXCEPT ![w].stage = stage],
           call[w].stage \notin {"idle", "read"},
           stage = "prior" => call[w].stage = "lookup",
           stage = "reuse" => Receipts(call[w].decision) # {}
    PROVE  ChainInv'
<1>1. call[w] \in CallState
  BY DEF ChainInv, ChainTypeOK
<1>2. [call[w] EXCEPT !.stage = stage] \in CallState
  BY <1>1 DEF CallState, ChainStages
<1>3. call' \in [Workers -> CallState] /\ \A v \in Workers \ {w} : call'[v] = call[v]
  BY <1>2 DEF ChainInv, ChainTypeOK
<1>4. /\ call'[w].stage = stage /\ call'[w].request = call[w].request
      /\ call'[w].decision = call[w].decision
  BY <1>1 DEF ChainInv, ChainTypeOK, CallState
<1>5. Known(call[w])
  BY DEF ChainInv, CallsKnow
<1>6. Known(call'[w])
  BY <1>4, <1>5 DEF Known
<1> QED BY <1>3, <1>6, Served DEF ChainInv, ChainTypeOK, Unchanged

\* The record alone decides, or the rule is read next.
LEMMA RecordOutcomes ==
    ASSUME NEW request, NEW record \in Records
    PROVE  RecordOutcome(request, record) \in Outcomes \cup {None}
BY DEF RecordOutcome, Outcomes

\* The rule decides.
LEMMA RuleOutcomes ==
    ASSUME NEW record, NEW rule
    PROVE  RuleOutcome(record, rule) \in Outcomes /\ RegistryOutcome(rule) \in Outcomes
BY DEF RuleOutcome, RegistryOutcome, Outcomes

\* An evaluation goes on from the record to the rule.
LEMMA SeenKeeps ==
    ASSUME ChainInv, NEW w \in Workers, call[w].stage = "record", Unchanged,
           NEW record \in Records \cup {Missing}, ledger = "repository" => record \in Records,
           call' = [call EXCEPT ![w].stage = "rule", ![w].seen = record]
    PROVE  ChainInv'
<1>1. call[w] \in CallState /\ call[w].request \in Requests
  BY DEF ChainInv, ChainTypeOK, CallsKnow, Known
<1>2. call' = [call EXCEPT ![w] = [call[w] EXCEPT !.stage = "rule", !.seen = record]]
  BY <1>1 DEF ChainInv, ChainTypeOK, CallState
<1>3. [call[w] EXCEPT !.stage = "rule", !.seen = record] \in CallState
  BY <1>1 DEF CallState, ChainStages
<1>4. call' \in [Workers -> CallState] /\ \A v \in Workers \ {w} : call'[v] = call[v]
  BY <1>2, <1>3 DEF ChainInv, ChainTypeOK
<1>5. call'[w].stage = "rule" /\ call'[w].seen = record /\ call'[w].request = call[w].request
  BY <1>1, <1>2 DEF ChainInv, ChainTypeOK, CallState
<1>6. Known(call'[w])
  BY <1>1, <1>5 DEF Known
<1> QED BY <1>4, <1>6, Served DEF ChainInv, ChainTypeOK, Unchanged

\* Reading the record of its subject decides the call, or leaves it the record it goes on with.
LEMMA ReadRecordKeeps == ASSUME ChainInv, NEW w \in Workers, ReadRecord(w) PROVE ChainInv'
<1>1. call[w].stage = "record" /\ Unchanged /\ call[w].request \in Requests
  BY DEF ReadRecord, ChainInv, CallsKnow, Known
<1>2. source # None => source.record \in Records /\ source.rule \in Rules
  BY DEF ChainInv, ChainTypeOK, Records, Rules
<1>3. CASE ledger = "repository" /\ source = None
  <2>1. Refuse(w)
    BY <1>3 DEF ReadRecord
  <2> QED BY <1>1, <2>1, MovedKeeps DEF Refuse
<1>4. CASE ledger = "repository" /\ source # None
  <2> DEFINE outcome == RecordOutcome(call[w].request, source.record)
  <2>1. outcome \in Outcomes \cup {None}
    BY <1>2, <1>4, RecordOutcomes
  <2>2. \/ outcome # None /\ Decided(w, outcome, source.record, None)
        \/ call' = [call EXCEPT ![w].stage = "rule", ![w].seen = source.record]
    BY <1>4 DEF ReadRecord
  <2> HIDE DEF outcome
  <2>3. CASE outcome # None /\ Decided(w, outcome, source.record, None)
    BY <1>1, <1>2, <1>4, <2>1, <2>3, DecidedKeeps
  <2>4. CASE call' = [call EXCEPT ![w].stage = "rule", ![w].seen = source.record]
    BY <1>1, <1>2, <1>4, <2>4, SeenKeeps
  <2> QED BY <2>2, <2>3, <2>4
<1>5. CASE ledger = "prototype"
  <2>1. PICK record \in {Missing} \cup (IF source = None THEN {} ELSE {source.record}) :
           IF PacketOutcome(call[w].request, record) # None
           THEN Decided(w, PacketOutcome(call[w].request, record), record, None)
           ELSE call' = [call EXCEPT ![w].stage = "rule", ![w].seen = record]
    BY <1>5 DEF ReadRecord
  <2>2. record \in Records \cup {Missing}
    BY <1>2
  <2>3. PacketOutcome(call[w].request, record) \in Outcomes \cup {None}
    BY DEF PacketOutcome, Outcomes
  <2>4. CASE PacketOutcome(call[w].request, record) # None
    <3>1. Decided(w, PacketOutcome(call[w].request, record), record, None)
      BY <2>1, <2>4
    <3> QED BY <1>1, <1>5, <2>3, <2>4, <3>1, DecidedKeeps
  <2>5. CASE PacketOutcome(call[w].request, record) = None
    BY <1>1, <1>5, <2>1, <2>2, <2>5, SeenKeeps
  <2> QED BY <2>4, <2>5
<1>6. CASE ledger = "delivery"
  <2>1. Decided(w, call[w].request.outcome, None, None)
    BY <1>6 DEF ReadRecord
  <2>2. call[w].request.outcome \in Outcomes
    BY <1>1 DEF Outcomes
  <2> QED BY <1>1, <1>6, <2>1, <2>2, DecidedKeeps
<1> QED BY <1>3, <1>4, <1>5, <1>6, ReadinessAssumption DEF ChainInv, ChainTypeOK

\* Reading the rule decides the call.
LEMMA ReadRuleKeeps == ASSUME ChainInv, NEW w \in Workers, ReadRule(w) PROVE ChainInv'
<1>1. call[w].stage = "rule" /\ Unchanged
  BY DEF ReadRule
<1>2. source # None => source.rule \in Rules
  BY DEF ChainInv, ChainTypeOK, Rules
<1>3. CASE ledger = "repository" /\ source = None
  <2>1. Refuse(w)
    BY <1>3 DEF ReadRule
  <2> QED BY <1>1, <2>1, MovedKeeps DEF Refuse
<1>4. CASE ledger = "repository" /\ source # None
  <2>1. Decided(w, RuleOutcome(call[w].seen, source.rule), call[w].seen, source.rule)
    BY <1>4 DEF ReadRule
  <2>2. call[w].seen \in Records
    BY <1>1, <1>4 DEF ChainInv, CallsKnow, Known
  <2>3. RuleOutcome(call[w].seen, source.rule) \in Outcomes
    BY RuleOutcomes
  <2> QED BY <1>1, <1>2, <1>4, <2>1, <2>2, <2>3, DecidedKeeps
<1>5. CASE ledger = "prototype"
  <2>1. PICK rule : Decided(w, RegistryOutcome(rule), None, None)
    BY <1>5 DEF ReadRule
  <2>2. RegistryOutcome(rule) \in Outcomes
    BY RuleOutcomes
  <2> QED BY <1>1, <1>5, <2>1, <2>2, DecidedKeeps
<1> QED BY <1>3, <1>4, <1>5 DEF ReadRule

\* A lookup finds the call's own decision in the table, or goes on to insert it.
LEMMA LookupKeeps == ASSUME ChainInv, NEW w \in Workers, Lookup(w) PROVE ChainInv'
<1> DEFINE stage == IF Receipts(call[w].decision) = {} THEN "prior" ELSE "reuse"
<1>1. call[w].stage = "lookup" /\ Unchanged /\ call' = [call EXCEPT ![w].stage = stage]
  BY DEF Lookup
<1>2. stage \in {"prior", "reuse"} /\ (stage = "reuse" => Receipts(call[w].decision) # {})
  OBVIOUS
<1> HIDE DEF stage
<1> QED BY <1>1, <1>2, MovedKeeps

\* After a refused insertion a call finds its decision, or fails.
LEMMA ReadAgainKeeps == ASSUME ChainInv, NEW w \in Workers, ReadAgain(w) PROVE ChainInv'
<1> DEFINE stage == IF Receipts(call[w].decision) = {} THEN "refused" ELSE "reuse"
<1>1. call[w].stage = "conflict" /\ Unchanged /\ call' = [call EXCEPT ![w].stage = stage]
  BY DEF ReadAgain
<1>2. stage \in {"refused", "reuse"} /\ (stage = "reuse" => Receipts(call[w].decision) # {})
  OBVIOUS
<1> HIDE DEF stage
<1> QED BY <1>1, <1>2, MovedKeeps

\* The prior receipt is one of the subject's, if it has any.
LEMMA PriorIsOfChain ==
    ASSUME ChainInv, NEW s \in Subjects, Chain(s) # {}
    PROVE  (CHOOSE r \in Chain(s) : \A q \in Chain(s) : q.generation <= r.generation) \in Chain(s)
<1> DEFINE G == {r.generation : r \in Chain(s)}
<1>1. IsFiniteSet(Chain(s)) /\ Chain(s) \subseteq Receipt
  BY FS_Subset DEF ChainInv, ChainTypeOK, Chain
<1>2. G = 1..Cardinality(Chain(s)) /\ Cardinality(Chain(s)) \in Nat
  BY <1>1, FS_CardinalityType DEF ChainInv, ChainsAreFull
<1>3. G # {}
  OBVIOUS
<1>4. Cardinality(Chain(s)) \in G
  <2> HIDE DEF G
  <2> QED BY <1>2, <1>3
<1>5. PICK r \in Chain(s) : r.generation = Cardinality(Chain(s))
  BY <1>4
<1>6. \A q \in Chain(s) : q.generation <= r.generation
  <2> TAKE q \in Chain(s)
  <2>1. q.generation \in G
    OBVIOUS
  <2> HIDE DEF G
  <2> QED BY <1>2, <1>5, <2>1
<1> QED BY <1>6

\* The receipt a call has read as the last of its subject is in the table.
LEMMA ReadPriorKeeps == ASSUME ChainInv, NEW w \in Workers, ReadPrior(w) PROVE ChainInv'
<1> DEFINE chain == Chain(call[w].request.subject)
           prior == IF chain = {} THEN None
                    ELSE CHOOSE r \in chain : \A s \in chain : s.generation <= r.generation
<1>1. /\ call[w].stage = "prior" /\ Unchanged
      /\ call' = [call EXCEPT ![w].stage = "insert", ![w].prior = prior]
  BY DEF ReadPrior
<1>2. call[w] \in CallState /\ Known(call[w])
  BY DEF ChainInv, ChainTypeOK, CallsKnow
<1>3. call[w].request \in Requests /\ call[w].request.subject \in Subjects
  BY <1>1, <1>2 DEF Known, Subjects
<1>4. prior = None \/ prior \in chain
  BY <1>3, PriorIsOfChain
<1> HIDE DEF prior
<1>5. prior \in Receipt \cup {None}
  BY <1>4 DEF ChainInv, ChainTypeOK, Chain
<1>6. call' = [call EXCEPT ![w] = [call[w] EXCEPT !.stage = "insert", !.prior = prior]]
  BY <1>1, <1>2 DEF ChainInv, ChainTypeOK, CallState
<1>7. [call[w] EXCEPT !.stage = "insert", !.prior = prior] \in CallState
  BY <1>2, <1>5 DEF CallState, ChainStages
<1>8. call' \in [Workers -> CallState] /\ \A v \in Workers \ {w} : call'[v] = call[v]
  BY <1>6, <1>7 DEF ChainInv, ChainTypeOK
<1>9. /\ call'[w].stage = "insert" /\ call'[w].request = call[w].request
      /\ call'[w].decision = call[w].decision /\ call'[w].prior = prior
  BY <1>2, <1>6 DEF ChainInv, ChainTypeOK, CallState
<1>10. Known(call'[w])
  BY <1>1, <1>2, <1>4, <1>9 DEF Known
<1> QED BY <1>1, <1>8, <1>10, Served DEF ChainInv, ChainTypeOK, Unchanged

\* A call ends.
LEMMA EndedKeeps ==
    ASSUME ChainInv, NEW w \in Workers, call' = [call EXCEPT ![w] = Idle],
           UNCHANGED <<ledger, source, rows, calls, moves>>, answers' \subseteq Decision
    PROVE  ChainInv'
<1>1. call' \in [Workers -> CallState] /\ \A v \in Workers \ {w} : call'[v] = call[v]
  BY IdleTyped DEF ChainInv, ChainTypeOK
<1>2. Known(call'[w])
  BY IdleTyped DEF ChainInv, ChainTypeOK
<1> QED BY <1>1, <1>2, Served DEF ChainInv, ChainTypeOK

\* A decision that is answered is one of the table.
LEMMA AnswerIsRecorded ==
    ASSUME ChainInv, NEW w \in Workers, Answer(w)
    PROVE  \E r \in rows : r.decision = call[w].decision
BY DEF Answer, ChainInv, CallsKnow, Known, Receipts

\* An answer is a decision of the table.
LEMMA AnswerKeeps == ASSUME ChainInv, NEW w \in Workers, Answer(w) PROVE ChainInv'
<1>1. call[w].decision \in Decision
  BY AnswerIsRecorded DEF ChainInv, ChainTypeOK, Receipt
<1>2. answers' \subseteq Decision
  BY <1>1 DEF Answer, ChainInv, ChainTypeOK
<1> QED BY <1>2, EndedKeeps DEF Answer

\* A call that fails leaves the table and the answers as they are.
LEMMA FailKeeps == ASSUME ChainInv, NEW w \in Workers, Fail(w) PROVE ChainInv'
BY EndedKeeps DEF Fail, Unchanged, ChainInv, ChainTypeOK

\* A call that starts knows its request only.
LEMMA IssueKeeps == ASSUME ChainInv, NEW w \in Workers, Issue(w) PROVE ChainInv'
<1>1. PICK r \in Requests : call' = [call EXCEPT ![w] = [Idle EXCEPT !.stage = "record", !.request = r]]
  BY DEF Issue
<1> DEFINE c == [Idle EXCEPT !.stage = "record", !.request = r]
<1>2. c \in CallState /\ Known(c)
  BY DEF Idle, CallState, ChainStages, Known
<1> HIDE DEF c
<1>3. /\ call' \in [Workers -> CallState] /\ call'[w] = c
      /\ \A v \in Workers \ {w} : call'[v] = call[v]
  BY <1>1, <1>2 DEF ChainInv, ChainTypeOK, c
<1> QED BY <1>2, <1>3, Served DEF Issue, ChainInv, ChainTypeOK

\* A read answers with a decision of the table.
LEMMA ReadKeeps == ASSUME ChainInv, NEW w \in Workers, Read(w) PROVE ChainInv'
<1>1. PICK r \in rows :
         call' = [call EXCEPT ![w] = [Idle EXCEPT !.stage = "read", !.decision = r.decision]]
  BY DEF Read
<1> DEFINE c == [Idle EXCEPT !.stage = "read", !.decision = r.decision]
<1>2. r.decision \in Decision
  BY DEF ChainInv, ChainTypeOK, Receipt
<1>3. c \in CallState /\ Known(c)
  BY <1>2 DEF Idle, CallState, ChainStages, Known, Receipts
<1> HIDE DEF c
<1>4. /\ call' \in [Workers -> CallState] /\ call'[w] = c
      /\ \A v \in Workers \ {w} : call'[v] = call[v]
  BY <1>1, <1>3 DEF ChainInv, ChainTypeOK, c
<1> QED BY <1>3, <1>4, Served DEF Read, ChainInv, ChainTypeOK
-----------------------------------------------------------------------------
(* The insert.                                                             *)

\* The chains of a table are finite, and their generations are counted from one.
LEMMA ChainFacts ==
    ASSUME ChainInv, NEW s \in Subjects
    PROVE  /\ Chain(s) \subseteq Receipt /\ IsFiniteSet(Chain(s))
           /\ Cardinality(Chain(s)) \in Nat
           /\ \A r \in Chain(s) : r.generation \in 1..Cardinality(Chain(s))
           /\ \A n \in 1..Cardinality(Chain(s)) : \E r \in Chain(s) : r.generation = n
           /\ \A r, q \in Chain(s) : r.generation = q.generation => r = q
<1>1. Chain(s) \subseteq Receipt /\ IsFiniteSet(Chain(s))
  BY FS_Subset DEF ChainInv, ChainTypeOK, Chain
<1>2. Cardinality(Chain(s)) \in Nat
  BY <1>1, FS_CardinalityType
<1>3. \A r, q \in Chain(s) : r.generation = q.generation => r = q
  BY DEF ChainInv, ReceiptsAreOrdered, Chain
<1>4. {r.generation : r \in Chain(s)} = 1..Cardinality(Chain(s))
  BY DEF ChainInv, ChainsAreFull
<1>5. \A r \in Chain(s) : r.generation \in 1..Cardinality(Chain(s))
  BY <1>4
<1>6. \A n \in 1..Cardinality(Chain(s)) : \E r \in Chain(s) : r.generation = n
  BY <1>4
<1> QED BY <1>1, <1>2, <1>3, <1>5, <1>6

\* A receipt the constraints let in is a new decision at the end of its subject's chain: what a
\* call saw as the last receipt may no longer be it, but then its generation is taken.
LEMMA InsertIsLast ==
    ASSUME ChainInv, NEW w \in Workers, call[w].stage = "insert", NEW now \in Times[ledger],
           ~UniqueViolation(NewReceipt(w, now))
    PROVE  LET new == NewReceipt(w, now)
               s == call[w].request.subject
           IN /\ new \in Receipt /\ s \in Subjects /\ Subject(new.decision) = s
              /\ \A r \in rows : r.decision # new.decision
              /\ new.generation = Cardinality(Chain(s)) + 1
              /\ new.evaluated < new.persisted
              /\ new.generation = 1 <=> new.supersedes = None
              /\ \A r \in Chain(s) : new.generation = r.generation + 1 =>
                    new.supersedes = r.decision /\ r.persisted < new.evaluated
              /\ ledger = "delivery" => \A t \in new.decision.request.custody : t < new.evaluated
<1> DEFINE c == call[w]
           s == c.request.subject
           prior == c.prior
           at == EvaluationTime(now, prior, c.request)
           new == NewReceipt(w, now)
<1>1. /\ c.request \in Requests /\ s \in Subjects
      /\ c.decision \in Decision /\ c.decision.request = c.request
      /\ prior = None \/ prior \in Chain(s)
  BY DEF ChainInv, CallsKnow, Known, Subjects
<1>2. now \in Nat /\ c.request.custody \in SUBSET Nat /\ IsFiniteSet(c.request.custody)
  BY <1>1, ReadinessAssumption DEF ChainInv, ChainTypeOK
<1>3. prior # None => prior \in Chain(s) /\ prior \in Receipt /\ prior.persisted \in Nat
                      /\ prior.generation \in Nat \ {0} /\ prior.decision \in Decision
  BY <1>1, ChainFacts DEF Receipt
<1>4. /\ at \in Nat
      /\ prior # None => prior.persisted < at
      /\ ledger = "delivery" => \A t \in c.request.custody : t < at
  <2> HIDE DEF at, prior
  <2>1. prior = None \/ prior.persisted \in Nat
    BY <1>3
  <2> QED BY <1>2, <2>1, EvaluationIsLate DEF at
<1>5. /\ new.decision = c.decision /\ new.evaluated = at /\ new.persisted = at + 1
      /\ new.generation = Generation(prior)
      /\ new.supersedes = IF prior = None THEN None ELSE prior.decision
  BY DEF NewReceipt
<1>6. new = [decision |-> c.decision, evaluated |-> at, persisted |-> at + 1,
             generation |-> Generation(prior),
             supersedes |-> IF prior = None THEN None ELSE prior.decision]
  BY DEF NewReceipt
<1>7. Generation(prior) \in Nat \ {0} /\ (Generation(prior) = 1 <=> prior = None)
  BY <1>3 DEF Generation
<1> HIDE DEF at, new
<1>8. new \in Receipt
  BY <1>1, <1>3, <1>4, <1>6, <1>7 DEF Receipt
<1>9. Subject(new.decision) = s
  BY <1>1, <1>5 DEF Subject
<1>10. /\ \A r \in rows : r.decision # new.decision
       /\ \A r \in Chain(s) : r.generation # new.generation
  BY <1>9 DEF UniqueViolation, Chain, new
<1>11. new.generation = Cardinality(Chain(s)) + 1
  <2>1. /\ Cardinality(Chain(s)) \in Nat
        /\ \A r \in Chain(s) : r.generation \in 1..Cardinality(Chain(s))
        /\ \A n \in 1..Cardinality(Chain(s)) : \E r \in Chain(s) : r.generation = n
    BY <1>1, ChainFacts
  <2>2. new.generation \notin 1..Cardinality(Chain(s))
    BY <1>10, <2>1
  <2>3. new.generation \in Nat \ {0} /\ new.generation <= Cardinality(Chain(s)) + 1
    BY <1>3, <1>5, <1>7, <2>1 DEF Generation
  <2> QED BY <2>1, <2>2, <2>3
<1>12. new.generation = 1 <=> new.supersedes = None
  BY <1>3, <1>5, <1>7, ReadinessAssumption
<1>13. ASSUME NEW r \in Chain(s), new.generation = r.generation + 1
       PROVE  new.supersedes = r.decision /\ r.persisted < new.evaluated
  <2>1. r \in Receipt /\ r.generation \in Nat \ {0}
    BY <1>1, ChainFacts DEF Receipt
  <2>2. prior # None
    BY <1>5, <1>7, <1>13, <2>1
  <2>3. prior.generation = r.generation
    BY <1>3, <1>5, <1>13, <2>1, <2>2 DEF Generation
  <2>4. prior = r
    BY <1>1, <1>3, <2>2, <2>3, ChainFacts
  <2> QED BY <1>4, <1>5, <2>2, <2>4
<1>14. new.evaluated < new.persisted
  BY <1>4, <1>5
<1>15. ledger = "delivery" => \A t \in new.decision.request.custody : t < new.evaluated
  BY <1>1, <1>4, <1>5
<1> QED BY <1>1, <1>8, <1>9, <1>10, <1>11, <1>12, <1>13, <1>14, <1>15 DEF new

\* The insert that a constraint refuses.
LEMMA RefusedKeeps ==
    ASSUME ChainInv, NEW w \in Workers, call[w].stage = "insert",
           call' = [call EXCEPT ![w].stage = "conflict"],
           UNCHANGED <<ledger, source, rows, answers, calls, moves>>
    PROVE  ChainInv'
<1>1. call[w] \in CallState /\ Known(call[w])
  BY DEF ChainInv, ChainTypeOK, CallsKnow
<1>2. [call[w] EXCEPT !.stage = "conflict"] \in CallState
  BY <1>1 DEF CallState, ChainStages
<1>3. call' \in [Workers -> CallState] /\ \A v \in Workers \ {w} : call'[v] = call[v]
  BY <1>2 DEF ChainInv, ChainTypeOK
<1>4. /\ call'[w].stage = "conflict" /\ call'[w].request = call[w].request
      /\ call'[w].decision = call[w].decision
  BY <1>1 DEF ChainInv, ChainTypeOK, CallState
<1>5. Known(call'[w])
  BY <1>1, <1>4 DEF Known
<1> QED BY <1>3, <1>5, Served DEF ChainInv, ChainTypeOK

\* The insert that is committed.
LEMMA CommittedKeeps ==
    ASSUME ChainInv, NEW w \in Workers, call[w].stage = "insert", NEW now \in Times[ledger],
           ~UniqueViolation(NewReceipt(w, now)),
           rows' = rows \cup {NewReceipt(w, now)},
           call' = [call EXCEPT ![w].stage = "answer"],
           UNCHANGED <<ledger, source, answers, calls, moves>>
    PROVE  ChainInv'
<1> DEFINE new == NewReceipt(w, now)
           s == call[w].request.subject
<1>1. /\ new \in Receipt /\ s \in Subjects /\ Subject(new.decision) = s
      /\ \A r \in rows : r.decision # new.decision
      /\ new.generation = Cardinality(Chain(s)) + 1
      /\ new.evaluated < new.persisted
      /\ new.generation = 1 <=> new.supersedes = None
      /\ \A r \in Chain(s) : new.generation = r.generation + 1 =>
            new.supersedes = r.decision /\ r.persisted < new.evaluated
      /\ ledger = "delivery" => \A t \in new.decision.request.custody : t < new.evaluated
  BY InsertIsLast
<1>2. new.decision = call[w].decision
  BY DEF NewReceipt
<1> HIDE DEF new
<1>3. /\ Chain(s)' = Chain(s) \cup {new}
      /\ \A t \in Subjects \ {s} : Chain(t)' = Chain(t)
  BY <1>1 DEF Chain, new
<1>4. new \notin rows /\ new \notin Chain(s)
  BY <1>1 DEF Chain
<1>5. call[w] \in CallState /\ Known(call[w])
  BY DEF ChainInv, ChainTypeOK, CallsKnow
<1>6. [call[w] EXCEPT !.stage = "answer"] \in CallState
  BY <1>5 DEF CallState, ChainStages
<1>7. /\ call' \in [Workers -> CallState]
      /\ \A v \in Workers \ {w} : call'[v] = call[v]
      /\ call'[w].stage = "answer" /\ call'[w].request = call[w].request
      /\ call'[w].decision = call[w].decision
  BY <1>5, <1>6 DEF ChainInv, ChainTypeOK, CallState
<1>8. ChainTypeOK'
  BY <1>1, <1>7, FS_AddElement DEF ChainInv, ChainTypeOK, new
<1>9. CallsKnow'
  <2>1. ASSUME NEW v \in Workers \ {w} PROVE Known(call[v])'
    <3>1. Known(call[v]) /\ call'[v] = call[v]
      BY <1>7 DEF ChainInv, CallsKnow
    <3>2. rows \subseteq rows' /\ ledger' = ledger
      OBVIOUS
    <3> QED BY <3>1, <3>2 DEF Known, Receipts, Chain
  <2>2. Known(call[w])'
    BY <1>2, <1>5, <1>7 DEF Known, Receipts, new
  <2> QED BY <2>1, <2>2 DEF CallsKnow
<1>10. ChainsAreFull'
  <2> SUFFICES ASSUME NEW t \in Subjects
               PROVE  {r.generation : r \in Chain(t)'} = 1..Cardinality(Chain(t)')
    BY DEF ChainsAreFull
  <2>1. CASE t # s
    BY <1>3, <2>1 DEF ChainInv, ChainsAreFull
  <2>2. CASE t = s
    <3> DEFINE G == {r.generation : r \in Chain(s)}
               k == Cardinality(Chain(s))
    <3>1. IsFiniteSet(Chain(s)) /\ k \in Nat
      BY <1>1, ChainFacts
    <3>2. Cardinality(Chain(s) \cup {new}) = k + 1
      BY <1>4, <3>1, FS_AddElement
    <3>3. {r.generation : r \in Chain(s) \cup {new}} = G \cup {new.generation}
      OBVIOUS
    <3>4. G = 1..k
      BY <1>1 DEF ChainInv, ChainsAreFull
    <3> HIDE DEF G, k
    <3>5. G \cup {new.generation} = 1..(k + 1)
      BY <1>1, <3>1, <3>4 DEF k
    <3>6. {r.generation : r \in Chain(s) \cup {new}} = 1..Cardinality(Chain(s) \cup {new})
      BY <3>2, <3>3, <3>5
    <3>7. Chain(t)' = Chain(s) \cup {new}
      BY <1>3, <2>2
    <3> QED BY <3>6, <3>7
  <2> QED BY <2>1, <2>2
<1>11. DecisionsAreDistinct'
  BY <1>1 DEF ChainInv, DecisionsAreDistinct, new
<1>12. ReceiptsAreOrdered'
  <2> DEFINE After(r, q) ==
        /\ q.generation = r.generation => q = r
        /\ r.generation = q.generation + 1 => r.supersedes = q.decision /\ q.persisted < r.evaluated
  <2>1. /\ Cardinality(Chain(s)) \in Nat
        /\ \A q \in Chain(s) : q.generation \in 1..Cardinality(Chain(s))
    BY <1>1, ChainFacts
  <2>2. \A q \in Chain(s) : After(new, q) /\ After(q, new)
    BY <1>1, <2>1
  <2>3. After(new, new)
    BY <1>1, <2>1
  <2>4. ASSUME NEW r \in rows PROVE
          /\ r.evaluated < r.persisted
          /\ r.generation = 1 <=> r.supersedes = None
          /\ \A q \in Chain(Subject(r.decision)) : After(r, q)
          /\ ledger = "delivery" => \A t \in r.decision.request.custody : t < r.evaluated
    BY DEF ChainInv, ReceiptsAreOrdered
  <2>5. ASSUME NEW r \in rows' PROVE
          /\ r.evaluated < r.persisted
          /\ r.generation = 1 <=> r.supersedes = None
          /\ \A q \in Chain(Subject(r.decision))' : After(r, q)
          /\ ledger' = "delivery" => \A t \in r.decision.request.custody : t < r.evaluated
    <3> HIDE DEF After
    <3>1. CASE r = new
      BY <1>1, <1>3, <2>2, <2>3, <3>1
    <3>2. CASE r \in rows
      <4>1. Subject(r.decision) \in Subjects
        BY <3>2 DEF ChainInv, ChainTypeOK, Receipt, Decision, Subject, Subjects
      <4>2. r \in Chain(Subject(r.decision))
        BY <3>2 DEF Chain
      <4>3. \A q \in Chain(Subject(r.decision))' : After(r, q)
        BY <1>3, <2>2, <2>4, <3>2, <4>1, <4>2
      <4> QED BY <2>4, <3>2, <4>3
    <3> QED BY <3>1, <3>2 DEF new
  <2> QED BY <2>5 DEF ReceiptsAreOrdered, Subject
<1> QED BY <1>8, <1>9, <1>10, <1>11, <1>12 DEF ChainInv

\* An insertion that the constraints let through follows the last receipt of its subject in number and in time.
LEMMA InsertKeeps == ASSUME ChainInv, NEW w \in Workers, Insert(w) PROVE ChainInv'
<1>1. PICK now \in Times[ledger] :
         IF UniqueViolation(NewReceipt(w, now))
         THEN call' = [call EXCEPT ![w].stage = "conflict"] /\ UNCHANGED rows
         ELSE /\ rows' = rows \cup {NewReceipt(w, now)}
              /\ call' = [call EXCEPT ![w].stage = "answer"]
  BY DEF Insert
<1>2. call[w].stage = "insert" /\ UNCHANGED <<ledger, source, answers, calls, moves>>
  BY DEF Insert
<1>3. CASE UniqueViolation(NewReceipt(w, now))
  BY <1>1, <1>2, <1>3, RefusedKeeps
<1>4. CASE ~UniqueViolation(NewReceipt(w, now))
  BY <1>1, <1>2, <1>4, CommittedKeeps
<1> QED BY <1>3, <1>4

\* The source moves under the calls.
LEMMA MoveKeeps == ASSUME ChainInv, Move PROVE ChainInv'
<1>1. UNCHANGED <<ledger, rows, call, answers, calls>> /\ source' \in Revisions \cup {None}
  BY DEF Move
<1>2. ChainTypeOK'
  BY <1>1 DEF Move, ChainInv, ChainTypeOK
<1>3. CallsKnow'
  BY <1>1 DEF ChainInv, CallsKnow, Known, Receipts, Chain
<1>4. ChainsAreFull' /\ DecisionsAreDistinct' /\ ReceiptsAreOrdered'
  BY <1>1 DEF ChainInv, ChainsAreFull, DecisionsAreDistinct, ReceiptsAreOrdered, Chain, Subject
<1> QED BY <1>2, <1>3, <1>4 DEF ChainInv

\* Every step keeps the invariant.
LEMMA NextLedger == ASSUME ChainInv, [Next]_vars PROVE ChainInv'
<1>1. CASE UNCHANGED vars
  <2> USE <1>1 DEF vars
  <2>1. ChainTypeOK' /\ DecisionsAreDistinct'
    BY DEF ChainInv, ChainTypeOK, DecisionsAreDistinct
  <2>2. CallsKnow'
    BY DEF ChainInv, CallsKnow, Known, Receipts, Chain
  <2>3. ChainsAreFull' /\ ReceiptsAreOrdered'
    BY DEF ChainInv, ChainsAreFull, ReceiptsAreOrdered, Chain, Subject
  <2> QED BY <2>1, <2>2, <2>3 DEF ChainInv
<1>2. CASE Move
  BY <1>2, MoveKeeps
<1>3. ASSUME NEW w \in Workers, Step(w) PROVE ChainInv'
  BY <1>3, IssueKeeps, ReadKeeps, ReadRecordKeeps, ReadRuleKeeps, LookupKeeps, ReadPriorKeeps,
     InsertKeeps, ReadAgainKeeps, AnswerKeeps, FailKeeps DEF Step
<1> QED BY <1>1, <1>2, <1>3 DEF Next

\* The inductive invariant holds in every state of every behaviour.
THEOREM LedgerInvariant == Spec => []ChainInv
<1>1. Init => ChainInv
  BY InitLedger
<1>2. ChainInv /\ [Next]_vars => ChainInv'
  BY NextLedger
<1> QED BY <1>1, <1>2, PTL DEF Spec

\* Every variable has its type, in every state of every behaviour.
THEOREM ChainTypeCorrect == Spec => []ChainTypeOK
<1>1. ChainInv => ChainTypeOK
  BY DEF ChainInv
<1> QED BY <1>1, LedgerInvariant, PTL

\* The receipts of a subject are one chain in time, whatever the interleaving of the calls, the
\* movement of their source and the clocks of their processes.
THEOREM ChainOrderedCorrect == Spec => []ReceiptsAreOrdered
<1>1. ChainInv => ReceiptsAreOrdered
  BY DEF ChainInv
<1> QED BY <1>1, LedgerInvariant, PTL
-----------------------------------------------------------------------------
(* The tables implement DecisionChain.                                     *)

\* A full chain is a sequence of its decisions, in the order of their generations.
LEMMA DecisionsInOrder ==
    ASSUME NEW chain \in SUBSET Receipt, IsFiniteSet(chain),
           \A n \in 1..Cardinality(chain) : \E r \in chain : r.generation = n,
           \A r, q \in chain : r.generation = q.generation => r = q
    PROVE  /\ DecisionsOf(chain) \in Seq(Decision)
           /\ Len(DecisionsOf(chain)) = Cardinality(chain)
           /\ \A r \in chain : r.generation \in 1..Cardinality(chain) =>
                DecisionsOf(chain)[r.generation] = r.decision
<1> DEFINE k == Cardinality(chain)
<1>1. k \in Nat
  BY FS_CardinalityType
<1>2. \A n \in 1..k : (CHOOSE r \in chain : r.generation = n) \in chain
  OBVIOUS
<1>3. DecisionsOf(chain) \in [1..k -> Decision]
  BY <1>2 DEF DecisionsOf, Receipt
<1>4. DecisionsOf(chain) \in Seq(Decision) /\ Len(DecisionsOf(chain)) = k
  <2> HIDE DEF k
  <2> QED BY <1>1, <1>3
<1>5. \A r \in chain : (CHOOSE q \in chain : q.generation = r.generation) = r
  OBVIOUS
<1> QED BY <1>4, <1>5 DEF DecisionsOf

\* The chains of the table are such sequences.
LEMMA ChainInOrder ==
    ASSUME ChainInv, NEW s \in Subjects
    PROVE  /\ DecisionsOf(Chain(s)) \in Seq(Decision)
           /\ Len(DecisionsOf(Chain(s))) = Cardinality(Chain(s))
           /\ \A r \in Chain(s) : DecisionsOf(Chain(s))[r.generation] = r.decision
           /\ \A n \in 1..Cardinality(Chain(s)) :
                 \E r \in Chain(s) : DecisionsOf(Chain(s))[n] = r.decision
<1>1. /\ Chain(s) \in SUBSET Receipt /\ IsFiniteSet(Chain(s))
      /\ \A r \in Chain(s) : r.generation \in 1..Cardinality(Chain(s))
      /\ \A n \in 1..Cardinality(Chain(s)) : \E r \in Chain(s) : r.generation = n
      /\ \A r, q \in Chain(s) : r.generation = q.generation => r = q
  BY ChainFacts
<1>2. /\ DecisionsOf(Chain(s)) \in Seq(Decision)
      /\ Len(DecisionsOf(Chain(s))) = Cardinality(Chain(s))
      /\ \A r \in Chain(s) : DecisionsOf(Chain(s))[r.generation] = r.decision
  BY <1>1, DecisionsInOrder
<1> QED BY <1>1, <1>2

\* A receipt added at the end appends its decision.
LEMMA DecisionAppended ==
    ASSUME NEW chain \in SUBSET Receipt, IsFiniteSet(chain),
           \A r \in chain : r.generation \in 1..Cardinality(chain),
           \A n \in 1..Cardinality(chain) : \E r \in chain : r.generation = n,
           \A r, q \in chain : r.generation = q.generation => r = q,
           NEW new \in Receipt, new.generation = Cardinality(chain) + 1
    PROVE  LET before == DecisionsOf(chain)
               after == DecisionsOf(chain \cup {new})
           IN /\ Len(after) = Len(before) + 1
              /\ SubSeq(after, 1, Len(before)) = before
              /\ after[Len(before) + 1] = new.decision
<1> DEFINE k == Cardinality(chain)
           longer == chain \cup {new}
           before == DecisionsOf(chain)
           after == DecisionsOf(longer)
<1>1. k \in Nat /\ new \notin chain
  BY FS_CardinalityType
<1>2. IsFiniteSet(longer) /\ Cardinality(longer) = k + 1 /\ longer \in SUBSET Receipt
  BY <1>1, FS_AddElement
<1>3. \A n \in 1..(k + 1) : \E r \in longer : r.generation = n
  <2> SUFFICES ASSUME NEW n \in 1..(k + 1) PROVE \E r \in longer : r.generation = n
    OBVIOUS
  <2>1. n \in 1..k \/ n = k + 1
    BY <1>1
  <2> QED BY <2>1
<1>4. \A r, q \in longer : r.generation = q.generation => r = q
  BY <1>1
<1>5. \A r \in longer : r.generation \in 1..(k + 1)
  BY <1>1
<1>6. before \in Seq(Decision) /\ Len(before) = k /\ \A r \in chain : before[r.generation] = r.decision
  BY DecisionsInOrder
<1>7. /\ after \in Seq(Decision) /\ Len(after) = k + 1
      /\ \A r \in longer : after[r.generation] = r.decision
  <2> HIDE DEF longer, k
  <2> QED BY <1>2, <1>3, <1>4, <1>5, DecisionsInOrder
<1>8. after[k + 1] = new.decision
  BY <1>7
<1>9. ASSUME NEW n \in 1..k PROVE after[n] = before[n]
  <2>1. PICK r \in chain : r.generation = n
    OBVIOUS
  <2>2. before[n] = r.decision
    BY <1>6, <2>1
  <2>3. after[n] = r.decision
    BY <1>7, <2>1
  <2> QED BY <2>2, <2>3
<1> HIDE DEF before, after, longer, k
<1>10. SubSeq(after, 1, k) = before
  <2>1. \A i \in 1..k : after[i] \in Decision
    BY <1>1, <1>7, ElementOfSeq
  <2>2. /\ SubSeq(after, 1, k) \in Seq(Decision)
        /\ Len(SubSeq(after, 1, k)) = k
        /\ \A i \in 1..k : SubSeq(after, 1, k)[i] = after[i]
    <3>1. 1 \in Int /\ k \in Int
      BY <1>1
    <3>2. /\ SubSeq(after, 1, k) \in Seq(Decision)
          /\ Len(SubSeq(after, 1, k)) = IF 1 <= k THEN k - 1 + 1 ELSE 0
          /\ \A i \in 1 .. k - 1 + 1 : SubSeq(after, 1, k)[i] = after[1 + i - 1]
      BY <2>1, <3>1, SubSeqProperties
    <3> QED BY <1>1, <3>2
  <2> QED BY <1>6, <1>9, <2>2, SeqEqual
<1> QED BY <1>6, <1>7, <1>8, <1>10 DEF before, after, longer

\* A committed insert appends a decision its subject does not have; nothing is told yet.
LEMMA CommitDecides ==
    ASSUME ChainInv, NEW w \in Workers, call[w].stage = "insert", NEW now \in Times[ledger],
           ~UniqueViolation(NewReceipt(w, now)),
           rows' = rows \cup {NewReceipt(w, now)}, UNCHANGED answers
    PROVE  Abstract!Next
<1>1. PICK new \in Receipt, s \in Subjects :
        /\ new = NewReceipt(w, now) /\ Subject(new.decision) = s
        /\ \A r \in rows : r.decision # new.decision
        /\ new.generation = Cardinality(Chain(s)) + 1
  BY InsertIsLast
<1> DEFINE before == DecisionsOf(Chain(s))
           after == DecisionsOf(Chain(s) \cup {new})
<1>2. /\ Chain(s)' = Chain(s) \cup {new}
      /\ \A t \in Subjects \ {s} : Chain(t)' = Chain(t)
  BY <1>1 DEF Chain
<1>3. /\ Chain(s) \in SUBSET Receipt /\ IsFiniteSet(Chain(s))
      /\ \A r \in Chain(s) : r.generation \in 1..Cardinality(Chain(s))
      /\ \A n \in 1..Cardinality(Chain(s)) : \E r \in Chain(s) : r.generation = n
      /\ \A r, q \in Chain(s) : r.generation = q.generation => r = q
  BY <1>1, ChainFacts
<1>4. /\ Len(after) = Len(before) + 1
      /\ SubSeq(after, 1, Len(before)) = before
      /\ after[Len(before) + 1] = new.decision
  BY <1>1, <1>3, DecisionAppended
<1>5. \A n \in 1..Len(before) : before[n] # new.decision
  <2> SUFFICES ASSUME NEW n \in 1..Len(before) PROVE before[n] # new.decision
    OBVIOUS
  <2>1. PICK r \in Chain(s) : before[n] = r.decision
    BY <1>1, ChainInOrder
  <2> QED BY <1>1, <2>1 DEF Chain
<1>6. DecisionsOf(Chain(s))' = after /\ \A t \in Subjects \ {s} : DecisionsOf(Chain(t))' = DecisionsOf(Chain(t))
  BY <1>2
<1>7. Abstract!Decide(s)
  BY <1>1, <1>4, <1>5, <1>6 DEF Abstract!Decide, Abstract!Has
<1> QED BY <1>1, <1>7 DEF Abstract!Next

\* An answer tells a decision of its subject's chain.
LEMMA AnswerTells == ASSUME ChainInv, NEW w \in Workers, Answer(w) PROVE Abstract!Next
<1>1. PICK r \in rows : r.decision = call[w].decision
  BY AnswerIsRecorded
<1>2. PICK s \in Subjects : s = Subject(r.decision) /\ r \in Chain(s)
  BY DEF ChainInv, ChainTypeOK, Receipt, Decision, Subject, Subjects, Chain
<1>3. /\ Len(DecisionsOf(Chain(s))) = Cardinality(Chain(s))
      /\ DecisionsOf(Chain(s))[r.generation] = r.decision
      /\ r.generation \in 1..Cardinality(Chain(s))
  BY <1>2, ChainInOrder, ChainFacts
<1>4. answers' = answers \cup {r.decision} /\ UNCHANGED rows
  BY <1>1 DEF Answer
<1>5. \A t \in Subjects : Chain(t)' = Chain(t)
  BY <1>4 DEF Chain
<1>6. Abstract!Has(s, r.decision)
  BY <1>2, <1>3 DEF Abstract!Has
<1>7. Abstract!Tell(s, r.decision)
  BY <1>4, <1>5, <1>6 DEF Abstract!Tell
<1> QED BY <1>2, <1>3, <1>7 DEF Abstract!Next

\* What leaves the table and the answers alone leaves the chains alone.
LEMMA ChainsStutter ==
    ASSUME UNCHANGED <<rows, answers>>
    PROVE  UNCHANGED Abstract!decisionVars
<1>1. \A s \in Subjects : Chain(s)' = Chain(s)
  BY DEF Chain
<1> QED BY <1>1 DEF Abstract!decisionVars

\* Each step appends a decision, tells one, or does neither.
LEMMA DecisionStep ==
    ASSUME ChainInv, [Next]_vars
    PROVE  [Abstract!Next]_Abstract!decisionVars
<1>1. CASE Move \/ UNCHANGED vars
  BY <1>1, ChainsStutter DEF Move, vars
<1>2. ASSUME NEW w \in Workers, Answer(w) PROVE Abstract!Next
  BY <1>2, AnswerTells
<1>3. ASSUME NEW w \in Workers, Insert(w) PROVE Abstract!Next \/ UNCHANGED <<rows, answers>>
  <2>1. PICK now \in Times[ledger] :
           IF UniqueViolation(NewReceipt(w, now))
           THEN call' = [call EXCEPT ![w].stage = "conflict"] /\ UNCHANGED rows
           ELSE /\ rows' = rows \cup {NewReceipt(w, now)}
                /\ call' = [call EXCEPT ![w].stage = "answer"]
    BY <1>3 DEF Insert
  <2>2. call[w].stage = "insert" /\ UNCHANGED answers
    BY <1>3 DEF Insert
  <2>3. CASE UniqueViolation(NewReceipt(w, now))
    BY <2>1, <2>2, <2>3
  <2>4. CASE ~UniqueViolation(NewReceipt(w, now))
    BY <2>1, <2>2, <2>4, CommitDecides
  <2> QED BY <2>3, <2>4
<1>4. ASSUME NEW w \in Workers,
             \/ Issue(w) \/ Read(w) \/ ReadRecord(w) \/ ReadRule(w) \/ Lookup(w) \/ ReadPrior(w)
             \/ ReadAgain(w) \/ Fail(w)
      PROVE  UNCHANGED <<rows, answers>>
  BY <1>4 DEF Issue, Read, ReadRecord, ReadRule, Lookup, ReadPrior, ReadAgain, Fail, Unchanged
<1> QED BY <1>1, <1>2, <1>3, <1>4, ChainsStutter DEF Next, Step

\* The tables append each decision once, at the end of its subject's chain, and tell no other.
THEOREM ChainImplementsCorrect == Spec => ImplementsDecisionChain
<1>1. Init => Abstract!Init
  <2> SUFFICES ASSUME Init PROVE Abstract!Init
    OBVIOUS
  <2>1. \A s \in Subjects : Chain(s) = {}
    BY DEF Init, Chain
  <2>2. DecisionsOf({}) = << >>
    BY FS_EmptySet DEF DecisionsOf
  <2> QED BY <2>1, <2>2 DEF Init, Abstract!Init
<1>2. ChainInv /\ [Next]_vars => [Abstract!Next]_Abstract!decisionVars
  BY DecisionStep
<1> QED
  BY <1>1, <1>2, LedgerInvariant, PTL DEF Spec, ImplementsDecisionChain, Abstract!Spec
-----------------------------------------------------------------------------
(* The ledgers of single requests.                                         *)

RequestStages == {"idle", "snapshot", "lookup", "insert", "recover", "answer", "conflict", "unpersisted", "unavailable"}

\* A call issues what was submitted, or reads a row as some caller.
Asked == Submissions \cup [is : {r.is : r \in Submissions}, actor : Actors]

Call == [stage : RequestStages, request : Asked \cup {Nothing}, policy : Bases \cup {Nothing},
         basis : Bases \cup {Nothing}, record : Record \cup {Nothing}]

RequestTypeOK ==
    /\ service \in Services /\ authority \in Bases \cup {Nothing}
    /\ records \subseteq Record /\ replies \subseteq [to : Asked, record : Record]
    /\ serving \in [Servers -> Call]
    /\ issued \in Nat /\ moved \in Nat

\* An identity is held by one row.
ClaimsAreUnique ==
    \A x, y \in records : Claims(x.request) \cap Claims(y.request) # {} => x = y

\* Why a request could not be persisted.
Explained(r) ==
    \E x \in records :
        \/ "own key" \in Service.claims /\ Primary(x.request) = Primary(r) /\ x.request.actor # r.actor
        \/ ~Service.digest /\ x.request.is # r.is /\ x.request.is.request = r.is.request

\* What a call knows at each of its stages: before it has an answer it is an evaluation that was
\* submitted; an answer is a row that fits; what made an insertion fail is still there.
Founded(c) ==
    /\ c.stage \in {"lookup", "snapshot", "insert", "recover"} => c.request \in Submissions
    /\ c.stage = "answer" => c.request \in Asked /\ c.record \in records /\ Fits(c.record, c.request)
    /\ c.stage = "recover" => c.record \in Record /\ c.record.request = c.request /\ Duplicate(c.record)
    /\ c.stage = "conflict" =>
          Held(c.request) # {} /\ \A x \in records : ~Fits(x, c.request)
    /\ c.stage = "unpersisted" => Explained(c.request)

CallsAreFounded == \A w \in Servers : Founded(serving[w])

RequestInv == RequestTypeOK /\ ClaimsAreUnique /\ CallsAreFounded /\ AnswersFit
-----------------------------------------------------------------------------
(* The services.                                                           *)

\* What the ten services have in common.
Kinds ==
    /\ \/ Service.claims = {"request"} \/ Service.claims = {"evaluation"}
       \/ Service.claims = {"evaluation", "own key", "own request"}
    /\ "own key" \in Service.claims => Service.owned
    /\ ~Service.digest => Service.claims = {"evaluation"}

\* Whatever the service, it is of one of three kinds; one whose rows have claims of their callers
\* has rows with owners, and one whose digest leaves the evaluation out has no other claim.
LEMMA ServiceKinds ==
    ASSUME service \in Services PROVE Kinds
BY LedgerAssumption
DEF Kinds, Service, Custody, Repository, Transition, Intake, Inventory, Lifecycle, Publication,
    Landing, Maturity, Closure

\* No step makes it another service.
LEMMA SameService ==
    ASSUME service' = service PROVE Service' = Service
BY DEF Service

\* The identity a row is looked up by is one of its claims.
LEMMA PrimaryIsClaim ==
    ASSUME Kinds, NEW r PROVE Primary(r) \in Claims(r)
BY DEF Kinds, Primary, Claims

\* A row that fits a request holds all that the request claims.
LEMMA FittingClaims ==
    ASSUME Kinds, NEW x, NEW r, Fits(x, r) PROVE Claims(x.request) = Claims(r)
<1>1. CASE Service.claims = {"request"}
  <2>1. <<x.request.is.request, x.request.is.content>> = <<r.is.request, r.is.content>>
    BY <1>1 DEF Fits, Content
  <2>2. x.request.is.request = r.is.request
    BY <2>1
  <2> QED BY <1>1, <2>2 DEF Claims, Claim
<1>2. CASE Service.claims = {"evaluation"}
  <2>1. "request" \notin Service.claims
    BY <1>2
  <2>2. x.request.is = r.is
    BY <2>1 DEF Fits, Content
  <2> QED BY <1>2, <2>2 DEF Claims, Claim
<1>3. CASE Service.claims = {"evaluation", "own key", "own request"}
  <2>1. "request" \notin Service.claims /\ "own key" \in Service.claims
    BY <1>3
  <2>2. x.request.is = r.is /\ x.request.actor = r.actor
    BY <2>1 DEF Kinds, Fits, Content
  <2> QED BY <1>3, <2>2 DEF Claims, Claim
<1> QED BY <1>1, <1>2, <1>3 DEF Kinds

\* Two rows of one artifact digest are one identity, or say so only in what the digest leaves out.
LEMMA SameDigest ==
    ASSUME Kinds, NEW x, NEW y, Digest(x) = Digest(y)
    PROVE  /\ x.request.is.request = y.request.is.request
           /\ Service.digest => Primary(x.request) = Primary(y.request)
<1> DEFINE d(z) == IF Service.digest THEN Primary(z.request) ELSE Nothing
<1>1. /\ Digest(x) = <<d(x), x.request.is.request, x.request.is.key, x.request.is.content, x.basis, x.at>>
      /\ Digest(y) = <<d(y), y.request.is.request, y.request.is.key, y.request.is.content, y.basis, y.at>>
  BY DEF Digest
<1>2. d(x) = d(y) /\ x.request.is.request = y.request.is.request
  <2>1. \A a1, a2, a3, a4, a5, a6, b1, b2, b3, b4, b5, b6 :
           <<a1, a2, a3, a4, a5, a6>> = <<b1, b2, b3, b4, b5, b6>> => a1 = b1 /\ a2 = b2
    OBVIOUS
  <2>2. <<d(x), x.request.is.request, x.request.is.key, x.request.is.content, x.basis, x.at>>
        = <<d(y), y.request.is.request, y.request.is.key, y.request.is.content, y.basis, y.at>>
    <3> HIDE DEF d
    <3> QED BY <1>1
  <2> HIDE DEF d
  <2> QED BY ONLY <2>1, <2>2, Zenon
<1> QED BY <1>2

-----------------------------------------------------------------------------
(* One row more.                                                           *)

\* What a step may do to the table: nothing, or the insertion of a row that no constraint refuses.
Inserting ==
    \/ records' = records
    \/ \E new \in Record : ~Duplicate(new) /\ records' = records \cup {new}

\* Rows stay, and an identity is still held by one of them.
LEMMA InsertionKeepsUnique ==
    ASSUME ClaimsAreUnique, service' = service, Inserting
    PROVE  records \subseteq records' /\ ClaimsAreUnique'
<1>1. Service' = Service
  BY SameService
<1>2. CASE records' = records
  BY <1>1, <1>2 DEF ClaimsAreUnique, Claims, Claim
<1>3. ASSUME NEW new \in Record, ~Duplicate(new), records' = records \cup {new}
      PROVE  records \subseteq records' /\ ClaimsAreUnique'
  <2>1. \A x \in records : Claims(x.request) \cap Claims(new.request) = {}
    BY <1>3 DEF Duplicate
  <2>2. \A x, y \in records' : Claims(x.request) \cap Claims(y.request) # {} => x = y
    BY <1>3, <2>1 DEF ClaimsAreUnique
  <2>3. \A r : Claims(r)' = Claims(r)
    BY <1>1 DEF Claims, Claim
  <2> QED BY <1>3, <2>2, <2>3 DEF ClaimsAreUnique
<1> QED BY <1>2, <1>3 DEF Inserting

\* What a call knows stays true of the longer table: a row that fits a request would have been
\* a duplicate of the row that is in its way.
LEMMA InsertionKeepsFounded ==
    ASSUME Kinds, service' = service, Inserting, NEW c, Founded(c)
    PROVE  Founded(c)'
<1>1. Service' = Service
  BY SameService
<1>2. \A r : Claims(r)' = Claims(r) /\ Primary(r)' = Primary(r)
  BY <1>1 DEF Claims, Primary, Claim
<1>3. \A x, r : Fits(x, r)' = Fits(x, r)
  BY <1>1 DEF Fits, Content
<1>4. \A x : Digest(x)' = Digest(x)
  BY <1>1, <1>2 DEF Digest
<1>5. records \subseteq records'
  BY DEF Inserting
<1>6. ASSUME c.stage = "recover", Duplicate(c.record) PROVE Duplicate(c.record)'
  BY <1>2, <1>4, <1>5, <1>6 DEF Duplicate
<1>7. ASSUME NEW r, Held(r) # {}, \A x \in records : ~Fits(x, r)
      PROVE  (Held(r) # {})' /\ \A x \in records' : ~Fits(x, r)
  <2>1. PICK x \in records : Claims(x.request) \cap Claims(r) # {}
    BY <1>7 DEF Held
  <2>2. (Held(r) # {})'
    BY <2>1, <1>2, <1>5 DEF Held
  <2>3. ASSUME NEW y \in records', Fits(y, r) PROVE FALSE
    <3>1. y \notin records
      BY <2>3, <1>7
    <3>2. ~Duplicate(y)
      BY <3>1, <2>3 DEF Inserting
    <3>3. Claims(y.request) = Claims(r)
      BY <2>3, FittingClaims
    <3> QED BY <2>1, <3>2, <3>3 DEF Duplicate
  <2> QED BY <2>2, <2>3
<1>8. ASSUME NEW r, Explained(r) PROVE Explained(r)'
  BY <1>1, <1>2, <1>5, <1>8 DEF Explained
<1> QED BY <1>3, <1>5, <1>6, <1>7, <1>8 DEF Founded

-----------------------------------------------------------------------------
(* One step of a call.                                                     *)

\* What a step of process w amounts to: its call becomes c, which is founded, and the table and the
\* answers grow by what they may grow by.
Serves(w, c) ==
    /\ serving' = [serving EXCEPT ![w] = c]
    /\ c \in Call /\ Founded(c)'
    /\ service' = service /\ authority' = authority /\ moved' = moved
    /\ issued' \in Nat
    /\ Inserting
    /\ \/ replies' = replies
       \/ \E t \in [to : Asked, record : Record] :
             /\ replies' = replies \cup {t}
             /\ t.record \in records /\ Fits(t.record, t.to)

\* Such a step keeps the invariant: the other calls know what they knew.
LEMMA ServesKeeps ==
    ASSUME RequestInv, NEW w \in Servers, NEW c, Serves(w, c)
    PROVE  RequestInv'
<1>1. Kinds
  BY ServiceKinds DEF RequestInv, RequestTypeOK
<1>2. records \subseteq records' /\ ClaimsAreUnique'
  BY InsertionKeepsUnique DEF RequestInv, Serves
<1>3. RequestTypeOK'
  <2>1. serving' \in [Servers -> Call]
    BY DEF RequestInv, RequestTypeOK, Serves
  <2>2. records' \subseteq Record
    BY DEF RequestInv, RequestTypeOK, Serves, Inserting
  <2>3. replies' \subseteq [to : Asked, record : Record]
    BY DEF RequestInv, RequestTypeOK, Serves
  <2> QED BY <2>1, <2>2, <2>3 DEF RequestInv, RequestTypeOK, Serves
<1>4. ASSUME NEW v \in Servers PROVE Founded(serving[v])'
  <2>1. CASE v = w
    <3>1. serving'[v] = c
      BY <2>1 DEF RequestInv, RequestTypeOK, Serves
    <3>2. Founded(c)'
      BY DEF Serves
    <3> QED BY <3>1, <3>2 DEF Founded
  <2>2. CASE v # w
    <3>1. PICK d : d = serving[v]
      OBVIOUS
    <3>2. Founded(d)
      BY <3>1 DEF RequestInv, CallsAreFounded
    <3>3. Founded(d)'
      BY <3>2, <1>1, InsertionKeepsFounded DEF Serves
    <3>4. serving'[v] = d
      BY <2>2, <3>1 DEF RequestInv, RequestTypeOK, Serves
    <3> QED BY <3>3, <3>4 DEF Founded
  <2> QED BY <2>1, <2>2
<1>5. AnswersFit'
  <2>1. Service' = Service
    BY SameService DEF Serves
  <2>2. \A x, r : Fits(x, r)' = Fits(x, r)
    BY <2>1 DEF Fits, Content
  <2> QED BY <2>2, <1>2 DEF RequestInv, AnswersFit, Serves
<1> QED BY <1>2, <1>3, <1>4, <1>5 DEF RequestInv, CallsAreFounded

\* The calls are well typed, and what they know is founded.
LEMMA ServedCall ==
    ASSUME RequestInv, NEW w \in Servers
    PROVE  serving[w] \in Call /\ Founded(serving[w])
BY DEF RequestInv, RequestTypeOK, CallsAreFounded

\* A call that only moves to a stage of which nothing is known but the request.
LEMMA MovedFounded ==
    ASSUME RequestInv, NEW w \in Servers, NEW stage \in {"snapshot", "lookup", "insert", "unavailable"},
           stage # "unavailable" => serving[w].request \in Submissions
    PROVE  /\ [serving[w] EXCEPT !.stage = stage] \in Call
           /\ Founded([serving[w] EXCEPT !.stage = stage])
<1>1. serving[w] \in Call
  BY ServedCall
<1>2. PICK c : c = [serving[w] EXCEPT !.stage = stage]
  OBVIOUS
<1>3. c \in Call /\ c.stage = stage /\ c.request = serving[w].request
  BY <1>1, <1>2 DEF Call, RequestStages
<1>4. Founded(c)
  <2>1. c.stage \notin {"recover", "answer", "conflict", "unpersisted"}
    BY <1>3
  <2>2. c.stage \in {"lookup", "snapshot", "insert", "recover"} => c.request \in Submissions
    BY <1>3
  <2> QED BY <2>1, <2>2 DEF Founded
<1> QED BY <1>2, <1>3, <1>4

\* A step that changes neither the table nor the answers.
LEMMA QuietKeeps ==
    ASSUME RequestInv, NEW w \in Servers, NEW c \in Call, Founded(c),
           serving' = [serving EXCEPT ![w] = c], issued' \in Nat,
           UNCHANGED <<service, authority, records, replies, moved>>
    PROVE  RequestInv'
<1>1. Kinds
  BY ServiceKinds DEF RequestInv, RequestTypeOK
<1>2. Inserting
  BY DEF Inserting
<1>3. Founded(c)'
  BY <1>1, <1>2, InsertionKeepsFounded
<1>4. Serves(w, c)
  BY <1>2, <1>3 DEF Serves
<1> QED BY <1>4, ServesKeeps

\* A call that moves on to another stage without an answer.
LEMMA ToKeeps ==
    ASSUME RequestInv, NEW w \in Servers, NEW stage \in {"snapshot", "lookup", "insert", "unavailable"},
           stage # "unavailable" => serving[w].request \in Submissions, To(w, stage), Quiet
    PROVE  RequestInv'
<1>1. PICK c : c = [serving[w] EXCEPT !.stage = stage]
  OBVIOUS
<1>2. c \in Call /\ Founded(c)
  BY <1>1, MovedFounded
<1>3. serving' = [serving EXCEPT ![w] = c]
  BY <1>1 DEF To
<1>4. issued' \in Nat
  BY DEF Quiet, RequestInv, RequestTypeOK
<1> QED BY <1>2, <1>3, <1>4, QuietKeeps DEF Quiet

\* A row that holds a claim of the request answers it, or is in its way for a reason: the row that
\* fits a request is the only one with any of its claims.
LEMMA ReuseKeeps ==
    ASSUME RequestInv, NEW w \in Servers, serving[w].request \in Submissions,
           NEW x \in Held(serving[w].request), Reuse(w, x), Quiet
    PROVE  RequestInv'
<1>1. PICK r : r = serving[w].request
  OBVIOUS
<1>2. /\ x \in records /\ Claims(x.request) \cap Claims(r) # {} /\ r \in Submissions
      /\ x \in Record
  BY <1>1 DEF Held, RequestInv, RequestTypeOK
<1>3. serving[w] \in Call /\ issued' \in Nat
  BY ServedCall DEF Quiet, RequestInv, RequestTypeOK
<1>4. CASE Fits(x, r)
  <2>1. PICK c : c = [serving[w] EXCEPT !.stage = "answer", !.record = x]
    OBVIOUS
  <2>2. c \in Call /\ c.stage = "answer" /\ c.record = x /\ c.request = r
    BY <2>1, <1>1, <1>2, <1>3 DEF Call, RequestStages
  <2>3. Founded(c)
    BY <2>2, <1>2, <1>4 DEF Founded, Asked
  <2>4. serving' = [serving EXCEPT ![w] = c]
    BY <2>1, <1>1, <1>4 DEF Reuse
  <2> QED BY <2>2, <2>3, <2>4, <1>3, QuietKeeps DEF Quiet
<1>5. CASE ~Fits(x, r)
  <2>1. PICK c : c = [serving[w] EXCEPT !.stage = "conflict"]
    OBVIOUS
  <2>2. c \in Call /\ c.stage = "conflict" /\ c.request = r
    BY <2>1, <1>1, <1>3 DEF Call, RequestStages
  <2>3. ASSUME NEW y \in records, Fits(y, r) PROVE FALSE
    <3>1. Claims(y.request) = Claims(r)
      BY <2>3, FittingClaims, ServiceKinds DEF RequestInv, RequestTypeOK
    <3>2. x = y
      BY <3>1, <1>2 DEF RequestInv, ClaimsAreUnique
    <3> QED BY <3>2, <2>3, <1>5
  <2>4. Held(r) # {}
    BY <1>2 DEF Held
  <2>5. Founded(c)
    BY <2>2, <2>3, <2>4 DEF Founded
  <2>6. serving' = [serving EXCEPT ![w] = c]
    BY <2>1, <1>1, <1>5 DEF Reuse
  <2> QED BY <2>2, <2>5, <2>6, <1>3, QuietKeeps DEF Quiet
<1> QED BY <1>4, <1>5
-----------------------------------------------------------------------------
(* The actions.                                                            *)

\* A call that begins knows its request only.
LEMMA BeginKeeps ==
    ASSUME RequestInv, NEW w \in Servers, Begin(w) PROVE RequestInv'
<1>1. PICK r \in Submissions, p \in Bases :
         serving' = [serving EXCEPT ![w] =
            [Free EXCEPT !.request = r,
                         !.policy = IF Service.basis = "policy" THEN p ELSE Nothing,
                         !.stage = IF Service.basis = "source first" THEN "snapshot" ELSE "lookup"]]
  BY DEF Begin
<1>2. PICK c : c = [Free EXCEPT !.request = r,
                         !.policy = IF Service.basis = "policy" THEN p ELSE Nothing,
                         !.stage = IF Service.basis = "source first" THEN "snapshot" ELSE "lookup"]
  OBVIOUS
<1>3. c \in Call /\ c.stage \in {"snapshot", "lookup"} /\ c.request = r
  BY <1>2 DEF Free, Call, RequestStages, Asked
<1>4. Founded(c)
  <2>1. c.stage \notin {"recover", "answer", "conflict", "unpersisted"}
    BY <1>3
  <2> QED BY <2>1, <1>3 DEF Founded
<1>5. issued' \in Nat
  BY DEF Begin, RequestInv, RequestTypeOK
<1> QED BY <1>1, <1>2, <1>3, <1>4, <1>5, QuietKeeps DEF Begin

\* A lookup finds a row of the request's claims, or nothing.
LEMMA LookKeeps ==
    ASSUME RequestInv, NEW w \in Servers, Look(w) PROVE RequestInv'
<1>1. serving[w].request \in Submissions /\ Quiet
  BY ServedCall DEF Look, Founded
<1>2. CASE Held(serving[w].request) = {}
  <2>1. To(w, IF Service.basis = "source" THEN "snapshot" ELSE "insert")
    BY <1>2 DEF Look
  <2> QED BY <2>1, <1>1, ToKeeps
<1>3. CASE Held(serving[w].request) # {}
  <2>1. PICK x \in Held(serving[w].request) : Reuse(w, x)
    BY <1>3 DEF Look
  <2> QED BY <2>1, <1>1, ReuseKeeps
<1> QED BY <1>2, <1>3

\* A snapshot adds the revision that it is of.
LEMMA TakeSnapshotKeeps ==
    ASSUME RequestInv, NEW w \in Servers, TakeSnapshot(w) PROVE RequestInv'
<1>1. serving[w].request \in Submissions /\ serving[w] \in Call /\ Quiet
  BY ServedCall DEF TakeSnapshot, Founded
<1>2. CASE authority = Nothing
  BY <1>1, <1>2, ToKeeps DEF TakeSnapshot
<1>3. CASE authority # Nothing
  <2>1. PICK c : c = [serving[w] EXCEPT !.basis = authority,
                          !.stage = IF Service.basis = "source first" THEN "lookup" ELSE "insert"]
    OBVIOUS
  <2>2. c \in Call /\ c.stage \in {"lookup", "insert"} /\ c.request = serving[w].request
    BY <2>1, <1>1 DEF Call, RequestStages, RequestInv, RequestTypeOK
  <2>3. Founded(c)
    <3>1. c.stage \notin {"recover", "answer", "conflict", "unpersisted"}
      BY <2>2
    <3> QED BY <3>1, <2>2, <1>1 DEF Founded
  <2>4. serving' = [serving EXCEPT ![w] = c]
    BY <2>1, <1>3 DEF TakeSnapshot
  <2>5. issued' \in Nat
    BY <1>1 DEF Quiet, RequestInv, RequestTypeOK
  <2> QED BY <2>2, <2>3, <2>4, <2>5, <1>1, QuietKeeps DEF Quiet
<1> QED BY <1>2, <1>3

\* A row that fits a call of the same request.
LEMMA OwnFits ==
    ASSUME NEW x PROVE Fits(x, x.request)
BY DEF Fits

\* An insertion adds the row the call evaluated, or leaves it with the row that was in its way.
LEMMA StoreKeeps ==
    ASSUME RequestInv, NEW w \in Servers, Store(w) PROVE RequestInv'
<1>1. serving[w].request \in Submissions /\ serving[w] \in Call
  BY ServedCall DEF Store, Founded
<1>2. PICK now \in Instants :
        IF Duplicate(Evaluated(w, now))
          THEN /\ serving' = [serving EXCEPT ![w].stage = "recover", ![w].record = Evaluated(w, now)]
               /\ UNCHANGED records
          ELSE /\ serving' = [serving EXCEPT ![w].stage = "answer", ![w].record = Evaluated(w, now)]
               /\ records' = records \cup {Evaluated(w, now)}
  BY DEF Store
<1>3. PICK new : new = Evaluated(w, now)
  OBVIOUS
<1>4. IF Duplicate(new)
        THEN /\ serving' = [serving EXCEPT ![w].stage = "recover", ![w].record = new]
             /\ UNCHANGED records
        ELSE /\ serving' = [serving EXCEPT ![w].stage = "answer", ![w].record = new]
             /\ records' = records \cup {new}
  BY <1>2, <1>3
<1>5. new \in Record /\ new.request = serving[w].request
  BY <1>1, <1>3 DEF Evaluated, Record, Call
<1>6. issued' \in Nat /\ UNCHANGED <<service, authority, replies, moved>>
  BY DEF Store, RequestInv, RequestTypeOK
<1>7. CASE Duplicate(new)
  <2>1. PICK c : c = [serving[w] EXCEPT !.stage = "recover", !.record = new]
    OBVIOUS
  <2>2. c \in Call /\ c.stage = "recover" /\ c.record = new /\ c.request = serving[w].request
    BY <2>1, <1>1, <1>5 DEF Call, RequestStages
  <2>3. Founded(c)
    BY <2>2, <1>1, <1>5, <1>7 DEF Founded
  <2>4. serving' = [serving EXCEPT ![w] = c] /\ UNCHANGED records
    BY <2>1, <1>4, <1>7
  <2> QED BY <2>2, <2>3, <2>4, <1>6, QuietKeeps
<1>8. CASE ~Duplicate(new)
  <2>1. PICK c : c = [serving[w] EXCEPT !.stage = "answer", !.record = new]
    OBVIOUS
  <2>2. c \in Call /\ c.stage = "answer" /\ c.record = new /\ c.request = serving[w].request
    BY <2>1, <1>1, <1>5 DEF Call, RequestStages
  <2>3. serving' = [serving EXCEPT ![w] = c] /\ records' = records \cup {new}
    BY <2>1, <1>4, <1>8
  <2>4. Fits(c.record, c.request)'
    BY <2>2, <1>5 DEF Fits
  <2>5. Founded(c)'
    BY <2>2, <2>3, <2>4, <1>1 DEF Founded, Asked
  <2>6. Serves(w, c)
    BY <2>2, <2>3, <2>5, <1>5, <1>6, <1>8 DEF Serves, Inserting
  <2> QED BY <2>6, ServesKeeps
<1> QED BY <1>7, <1>8

\* Among rows whose claims are their callers' own, two of different callers share the evaluation id
\* if anything.
LEMMA SharedEvaluation ==
    ASSUME Kinds, "own key" \in Service.claims, NEW q, NEW r,
           Claims(q) \cap Claims(r) # {}, q.actor # r.actor
    PROVE  Primary(q) = Primary(r)
<1>1. Service.claims = {"evaluation", "own key", "own request"}
  <2>1. "own key" \notin {"request"} /\ "own key" \notin {"evaluation"}
    OBVIOUS
  <2> QED BY <2>1 DEF Kinds
<1>2. PICK i \in Service.claims, j \in Service.claims : Claim(i, q) = Claim(j, r)
  BY DEF Claims
<1>3. \A a, b, c : <<a, b>>[1] = a /\ <<a, b, c>>[1] = a /\ <<a, b, c>>[2] = b
  OBVIOUS
<1>4. \A s : /\ Claim("evaluation", s)[1] = "evaluation"
            /\ Claim("own key", s)[1] = "key" /\ Claim("own key", s)[2] = s.actor
            /\ Claim("own request", s)[1] = "request" /\ Claim("own request", s)[2] = s.actor
  <2> SUFFICES ASSUME NEW s
               PROVE  /\ Claim("evaluation", s)[1] = "evaluation"
                      /\ Claim("own key", s)[1] = "key" /\ Claim("own key", s)[2] = s.actor
                      /\ Claim("own request", s)[1] = "request" /\ Claim("own request", s)[2] = s.actor
    OBVIOUS
  <2>1. Claim("evaluation", s) = <<"evaluation", s.is.evaluation>>
    BY DEF Claim
  <2>2. Claim("own key", s) = <<"key", s.actor, s.is.key>>
    BY DEF Claim
  <2>3. Claim("own request", s) = <<"request", s.actor, s.is.request>>
    BY DEF Claim
  <2>4. Claim("evaluation", s)[1] = "evaluation"
    BY <2>1, <1>3
  <2>5. Claim("own key", s)[1] = "key" /\ Claim("own key", s)[2] = s.actor
    <3>1. PICK a, k : a = s.actor /\ k = s.is.key
      OBVIOUS
    <3>2. <<"key", a, k>>[1] = "key" /\ <<"key", a, k>>[2] = a
      OBVIOUS
    <3>3. Claim("own key", s) = <<"key", a, k>>
      BY <2>2, <3>1
    <3> QED BY <3>1, <3>2, <3>3
  <2>6. Claim("own request", s)[1] = "request" /\ Claim("own request", s)[2] = s.actor
    <3>1. PICK a, k : a = s.actor /\ k = s.is.request
      OBVIOUS
    <3>2. <<"request", a, k>>[1] = "request" /\ <<"request", a, k>>[2] = a
      OBVIOUS
    <3>3. Claim("own request", s) = <<"request", a, k>>
      BY <2>3, <3>1
    <3> QED BY <3>1, <3>2, <3>3
  <2> QED BY <2>4, <2>5, <2>6
<1>5. i = j
  <2>1. i \in {"evaluation", "own key", "own request"} /\ j \in {"evaluation", "own key", "own request"}
    BY <1>1
  <2>2. Claim(i, q)[1] = Claim(j, r)[1]
    BY <1>2
  <2> QED BY <2>1, <2>2, <1>4
<1>6. i # "own key" /\ i # "own request"
  <2>1. Claim(i, q)[2] = Claim(i, r)[2]
    BY <1>2, <1>5
  <2> QED BY <2>1, <1>4
<1>7. i = "evaluation"
  BY <1>1, <1>6
<1>8. "request" \notin Service.claims
  BY <1>1
<1> QED BY <1>2, <1>5, <1>7, <1>8 DEF Primary

\* What made an insertion fail and is not found afterwards explains the failure.
LEMMA FailureExplained ==
    ASSUME Kinds, NEW r, NEW new, new.request = r, Duplicate(new),
           \A x \in Held(r) : ~("own key" \in Service.claims => x.request.actor = r.actor)
    PROVE  Explained(r)
<1>1. PICK x \in records : Claims(x.request) \cap Claims(r) # {} \/ Digest(x) = Digest(new)
  BY DEF Duplicate
<1>2. CASE Claims(x.request) \cap Claims(r) # {}
  <2>1. "own key" \in Service.claims /\ x.request.actor # r.actor
    BY <1>1, <1>2 DEF Held
  <2>2. Primary(x.request) = Primary(r)
    BY <1>2, <2>1, SharedEvaluation
  <2> QED BY <1>1, <2>1, <2>2 DEF Explained
<1>3. CASE Claims(x.request) \cap Claims(r) = {}
  <2>1. Digest(x) = Digest(new)
    BY <1>1, <1>3
  <2>2. x.request.is.request = r.is.request /\ (Service.digest => Primary(x.request) = Primary(r))
    BY <2>1, SameDigest
  <2>3. ~Service.digest
    BY <1>3, <2>2, PrimaryIsClaim
  <2>4. Service.claims = {"evaluation"}
    BY <2>3 DEF Kinds
  <2>5. x.request.is # r.is
    <3>1. SUFFICES ASSUME x.request.is = r.is PROVE FALSE
      OBVIOUS
    <3>2. Claims(x.request) = {<<"evaluation", r.is.evaluation>>} /\ Claims(r) = {<<"evaluation", r.is.evaluation>>}
      BY <3>1, <2>4 DEF Claims, Claim
    <3> QED BY <3>2, <1>3
  <2> QED BY <1>1, <2>2, <2>3, <2>5 DEF Explained
<1> QED BY <1>2, <1>3

\* After the rollback a call finds the row that was in its way, or fails for a reason.
LEMMA RecoverKeeps ==
    ASSUME RequestInv, NEW w \in Servers, Recover(w) PROVE RequestInv'
<1>1. PICK r : r = serving[w].request
  OBVIOUS
<1> DEFINE found == {x \in Held(r) : "own key" \in Service.claims => x.request.actor = r.actor}
<1>2. /\ r \in Submissions /\ serving[w] \in Call /\ Quiet
      /\ serving[w].record.request = r /\ Duplicate(serving[w].record)
  BY <1>1, ServedCall DEF Recover, Founded
<1>3. CASE found = {}
  <2>1. PICK c : c = [serving[w] EXCEPT !.stage = "unpersisted"]
    OBVIOUS
  <2>2. c \in Call /\ c.stage = "unpersisted" /\ c.request = r
    BY <2>1, <1>1, <1>2 DEF Call, RequestStages
  <2>3. Kinds
    BY ServiceKinds DEF RequestInv, RequestTypeOK
  <2>4. \A x \in Held(r) : ~("own key" \in Service.claims => x.request.actor = r.actor)
    BY <1>3
  <2>5. Explained(r)
    BY <1>2, <2>3, <2>4, FailureExplained
  <2>6. Founded(c)
    BY <2>2, <2>5 DEF Founded
  <2>7. serving' = [serving EXCEPT ![w] = c]
    BY <2>1, <1>1, <1>3 DEF Recover, To
  <2>8. issued' \in Nat
    BY <1>2 DEF Quiet, RequestInv, RequestTypeOK
  <2> QED BY <2>2, <2>6, <2>7, <2>8, <1>2, QuietKeeps DEF Quiet
<1>4. CASE found # {}
  <2>1. PICK x \in found : Reuse(w, x)
    BY <1>1, <1>4 DEF Recover
  <2>2. x \in Held(serving[w].request)
    BY <1>1
  <2> QED BY <1>1, <1>2, <2>1, <2>2, ReuseKeeps
<1> QED BY <1>3, <1>4

\* An idle call is a call.
LEMMA FreeFounded ==
    Free \in Call /\ Founded(Free)
<1>1. Free \in Call /\ Free.stage = "idle"
  BY DEF Free, Call, RequestStages
<1> QED BY <1>1 DEF Founded

\* An answer is a row that fits the request it is for.
LEMMA ReplyKeeps ==
    ASSUME RequestInv, NEW w \in Servers, Reply(w) PROVE RequestInv'
<1>1. /\ serving[w].request \in Asked /\ serving[w].record \in records
      /\ Fits(serving[w].record, serving[w].request)
  BY ServedCall DEF Reply, Founded
<1>2. UNCHANGED <<service, authority, records, issued, moved>> /\ issued' \in Nat
  BY DEF Reply, RequestInv, RequestTypeOK
<1>3. CASE Readable(w)
  <2>1. PICK t : t = [to |-> serving[w].request, record |-> serving[w].record]
    OBVIOUS
  <2>2. t \in [to : Asked, record : Record] /\ t.record \in records /\ Fits(t.record, t.to)
    BY <2>1, <1>1 DEF RequestInv, RequestTypeOK
  <2>3. replies' = replies \cup {t} /\ serving' = [serving EXCEPT ![w] = Free]
    BY <2>1, <1>3 DEF Reply
  <2>4. Inserting
    BY <1>2 DEF Inserting
  <2>5. Free \in Call /\ Founded(Free)'
    <3>1. Free \in Call /\ Free.stage = "idle"
      BY DEF Free, Call, RequestStages
    <3> QED BY <3>1 DEF Founded
  <2>6. Serves(w, Free)
    BY <2>2, <2>3, <2>4, <2>5, <1>2 DEF Serves
  <2> QED BY <2>6, ServesKeeps
<1>4. CASE ~Readable(w)
  <2>1. To(w, "unavailable") /\ Quiet
    BY <1>2, <1>4 DEF Reply, Quiet
  <2> QED BY <2>1, ToKeeps
<1> QED BY <1>3, <1>4

\* A read is of a row that is there, by the caller of whom it is where rows have owners.
LEMMA FetchKeeps ==
    ASSUME RequestInv, NEW w \in Servers, Fetch(w) PROVE RequestInv'
<1>1. PICK x \in records, a \in Actors, p \in Bases :
         /\ Service.owned => x.request.actor = a
         /\ serving' = [serving EXCEPT ![w] =
               [Free EXCEPT !.request = [is |-> x.request.is, actor |-> a], !.record = x, !.stage = "answer",
                            !.policy = IF Service.basis = "policy" THEN p ELSE Nothing]]
  BY DEF Fetch
<1>2. PICK c : c = [Free EXCEPT !.request = [is |-> x.request.is, actor |-> a], !.record = x, !.stage = "answer",
                            !.policy = IF Service.basis = "policy" THEN p ELSE Nothing]
  OBVIOUS
<1>3. x \in Record
  BY DEF RequestInv, RequestTypeOK
<1>4. PICK q : q = [is |-> x.request.is, actor |-> a]
  OBVIOUS
<1>5. q \in Asked
  BY <1>3, <1>4 DEF Asked, Record
<1>6. PICK policy \in Bases \cup {Nothing} : policy = IF Service.basis = "policy" THEN p ELSE Nothing
  OBVIOUS
<1>7. c = [stage |-> "answer", request |-> q, policy |-> policy, basis |-> Nothing, record |-> x]
  BY <1>2, <1>4, <1>6 DEF Free
<1>8. c \in Call /\ c.stage = "answer" /\ c.record = x /\ c.request = q
  BY <1>3, <1>5, <1>6, <1>7 DEF Call, RequestStages
<1>9. Fits(x, c.request)
  BY <1>1, <1>4, <1>8 DEF Fits, Content
<1>10. Founded(c)
  BY <1>5, <1>8, <1>9 DEF Founded
<1>11. issued' \in Nat /\ serving' = [serving EXCEPT ![w] = c]
  <2>1. serving' = [serving EXCEPT ![w] = c]
    BY <1>1, <1>2
  <2>2. issued' = issued + 1
    BY DEF Fetch
  <2> QED BY <2>1, <2>2 DEF RequestInv, RequestTypeOK
<1> QED BY <1>8, <1>10, <1>11, QuietKeeps DEF Fetch

\* A call that is dropped leaves an idle process.
LEMMA DropKeeps ==
    ASSUME RequestInv, NEW w \in Servers, Drop(w) PROVE RequestInv'
<1>1. serving' = [serving EXCEPT ![w] = Free] /\ Quiet /\ issued' \in Nat
  BY DEF Drop, Quiet, RequestInv, RequestTypeOK
<1> QED BY <1>1, FreeFounded, QuietKeeps DEF Quiet

\* The source of an authority is not a row, a call or an answer.
LEMMA ShiftKeeps ==
    ASSUME RequestInv, Shift PROVE RequestInv'
<1>1. Kinds
  BY ServiceKinds DEF RequestInv, RequestTypeOK
<1>2. service' = service /\ records' = records /\ serving' = serving /\ replies' = replies
  BY DEF Shift
<1>3. RequestTypeOK'
  <2>1. authority' \in Bases \cup {Nothing}
    BY DEF Shift
  <2>2. moved' = moved + 1 /\ issued' = issued
    BY DEF Shift
  <2>3. moved' \in Nat /\ issued' \in Nat
    BY <2>2 DEF RequestInv, RequestTypeOK
  <2> QED BY <1>2, <2>1, <2>3 DEF RequestInv, RequestTypeOK
<1>4. Inserting
  BY <1>2 DEF Inserting
<1>5. ClaimsAreUnique'
  BY <1>2, <1>4, InsertionKeepsUnique DEF RequestInv
<1>6. CallsAreFounded'
  <2>1. ASSUME NEW v \in Servers PROVE Founded(serving[v])'
    <3>1. PICK d : d = serving[v]
      OBVIOUS
    <3>2. Founded(d)'
      BY <3>1, <1>1, <1>2, <1>4, InsertionKeepsFounded DEF RequestInv, CallsAreFounded
    <3> QED BY <3>1, <3>2, <1>2 DEF Founded
  <2> QED BY <2>1 DEF CallsAreFounded
<1>7. AnswersFit'
  <2>1. Service' = Service
    BY <1>2, SameService
  <2>2. \A x, r : Fits(x, r)' = Fits(x, r)
    BY <2>1 DEF Fits, Content
  <2> QED BY <2>2, <1>2 DEF RequestInv, AnswersFit
<1> QED BY <1>3, <1>5, <1>6, <1>7 DEF RequestInv

\* The invariant holds in every state.
LEMMA InvCorrect == LedgerSpec => []RequestInv
<1>1. LedgerInit => RequestInv
  <2>1. SUFFICES ASSUME LedgerInit PROVE RequestInv
    OBVIOUS
  <2>2. RequestTypeOK
    <3>1. authority \in Bases \cup {Nothing}
      BY <2>1 DEF LedgerInit
    <3>2. serving \in [Servers -> Call]
      BY <2>1, FreeFounded DEF LedgerInit
    <3>3. issued \in Nat /\ moved \in Nat
      BY <2>1 DEF LedgerInit
    <3>4. service \in Services /\ records \subseteq Record /\ replies \subseteq [to : Asked, record : Record]
      BY <2>1 DEF LedgerInit
    <3> QED BY <3>1, <3>2, <3>3, <3>4 DEF RequestTypeOK
  <2>3. CallsAreFounded
    BY <2>1, FreeFounded DEF LedgerInit, CallsAreFounded
  <2> QED BY <2>1, <2>2, <2>3 DEF LedgerInit, RequestInv, ClaimsAreUnique, AnswersFit
<1>2. RequestInv /\ [LedgerNext]_ledgerVars => RequestInv'
  <2>1. CASE RequestInv /\ LedgerNext
    BY <2>1, ShiftKeeps, BeginKeeps, LookKeeps, TakeSnapshotKeeps, StoreKeeps, RecoverKeeps, ReplyKeeps,
       FetchKeeps, DropKeeps
    DEF LedgerNext
  <2>2. CASE RequestInv /\ UNCHANGED ledgerVars
    <3>1. /\ service' = service /\ authority' = authority /\ records' = records /\ serving' = serving
          /\ replies' = replies /\ issued' = issued /\ moved' = moved
      BY <2>2 DEF ledgerVars
    <3>2. Service' = Service
      BY <3>1, SameService
    <3>3. \A r : Claims(r)' = Claims(r) /\ Primary(r)' = Primary(r)
      BY <3>2 DEF Claims, Primary, Claim
    <3>4. \A x, r : Fits(x, r)' = Fits(x, r)
      BY <3>2 DEF Fits, Content
    <3>5. CallsAreFounded'
      <4>1. Kinds /\ Inserting
        BY <2>2, <3>1, ServiceKinds DEF RequestInv, RequestTypeOK, Inserting
      <4>2. ASSUME NEW v \in Servers PROVE Founded(serving[v])'
        <5>1. PICK d : d = serving[v]
          OBVIOUS
        <5>2. Founded(d)'
          BY <5>1, <4>1, <2>2, <3>1, InsertionKeepsFounded DEF RequestInv, CallsAreFounded
        <5> QED BY <5>1, <5>2, <3>1 DEF Founded
      <4> QED BY <4>2 DEF CallsAreFounded
    <3>6. RequestTypeOK'
      BY <2>2, <3>1 DEF RequestInv, RequestTypeOK
    <3>7. ClaimsAreUnique' /\ AnswersFit'
      BY <2>2, <3>1, <3>3, <3>4 DEF RequestInv, ClaimsAreUnique, AnswersFit
    <3> QED BY <3>5, <3>6, <3>7 DEF RequestInv
  <2> QED BY <2>1, <2>2
<1> QED BY <1>1, <1>2, PTL DEF LedgerSpec

-----------------------------------------------------------------------------
(* The theorems.                                                           *)

\* The table, the calls and the answers of the ten ledgers are well typed.
THEOREM RequestTypeCorrect == LedgerSpec => []RequestTypeOK
<1>1. RequestInv => RequestTypeOK
  BY DEF RequestInv
<1> QED BY <1>1, InvCorrect, PTL

\* Whatever calls race, repeat an id or change what it stands for, a conflict is told when no row is
\* the answer, a failure to persist has one of two reasons, and an answer is the caller's own row
\* about what was asked (issue and read of the ten services).
THEOREM RequestCallsCorrect == LedgerSpec => []CallsAreJust
<1>1. RequestInv => CallsAreJust
  <2> SUFFICES ASSUME RequestInv PROVE CallsAreJust
    OBVIOUS
  <2>1. ConflictsAreReal
    BY DEF RequestInv, CallsAreFounded, Founded, ConflictsAreReal
  <2>2. FailuresAreExplained
    BY DEF RequestInv, CallsAreFounded, Founded, Explained, FailuresAreExplained
  <2> QED BY <2>1, <2>2 DEF RequestInv, CallsAreJust
<1> QED BY <1>1, InvCorrect, PTL

-----------------------------------------------------------------------------
(* The refinement.                                                         *)

Only(bound) == IF bound = {} THEN Nothing ELSE CHOOSE x \in bound : TRUE
Rows(k) == {x \in records : Primary(x.request) = k}

\* What an identity is bound to is a matter of its rows.
LEMMA BoundToRows ==
    ASSUME NEW k
    PROVE  BoundTo(k) = Only(Rows(k)) /\ BoundTo(k)' = Only(Rows(k)')
BY DEF BoundTo, Rows, Only

\* The identity of a submitted request is one of the keys.
LEMMA PrimaryIsKey ==
    ASSUME NEW r \in Submissions PROVE Primary(r) \in Identities
<1>1. Primary(r) \in {<<"request", r.is.request>>, <<"evaluation", r.is.evaluation>>}
  BY DEF Primary, Claim
<1> QED BY <1>1 DEF Identities

\* A row is what its identity is bound to.
LEMMA RowIsBound ==
    ASSUME RequestInv, NEW x \in records
    PROVE  /\ Primary(x.request) \in Identities /\ x \in Record /\ x # Nothing
           /\ BoundTo(Primary(x.request)) = x
<1>1. x \in Record /\ x # Nothing
  BY LedgerAssumption DEF RequestInv, RequestTypeOK
<1>2. Primary(x.request) \in Identities
  BY <1>1, PrimaryIsKey DEF Record
<1>3. {y \in records : Primary(y.request) = Primary(x.request)} = {x}
  <2>1. ASSUME NEW y \in records, Primary(y.request) = Primary(x.request) PROVE y = x
    <3>1. Kinds
      BY ServiceKinds DEF RequestInv, RequestTypeOK
    <3>2. Primary(x.request) \in Claims(x.request) /\ Primary(y.request) \in Claims(y.request)
      BY <3>1, PrimaryIsClaim
    <3> QED BY <2>1, <3>2 DEF RequestInv, ClaimsAreUnique
  <2> QED BY <2>1
<1> QED BY <1>1, <1>2, <1>3 DEF BoundTo

\* A step that leaves the table and the answers alone is invisible.
LEMMA QuietStutters ==
    ASSUME service' = service, records' = records, replies' = replies
    PROVE  UNCHANGED Log!onceVars
<1>1. Service' = Service
  BY SameService
<1>2. \A r : Primary(r)' = Primary(r)
  BY <1>1 DEF Primary, Claim
<1>3. \A k : BoundTo(k)' = BoundTo(k)
  <2>1. \A k : Rows(k)' = Rows(k)
    BY <1>2 DEF Rows
  <2> QED BY <2>1, BoundToRows
<1>4. Identities' = Identities
  BY DEF Identities
<1>5. Written' = Written
  BY <1>3, <1>4 DEF Written
<1>6. Told' = Told
  BY <1>2, <1>4 DEF Told
<1> QED BY <1>5, <1>6 DEF Log!onceVars, Written, Told

\* An insertion writes its identity, which no row had.
LEMMA InsertionWrites ==
    ASSUME RequestInv, RequestInv', service' = service, replies' = replies,
           NEW new \in Record, ~Duplicate(new), records' = records \cup {new}
    PROVE  Log!Next
<1>1. PICK k : k = Primary(new.request)
  OBVIOUS
<1>2. Service' = Service
  BY SameService
<1>3. \A r : Primary(r)' = Primary(r)
  BY <1>2 DEF Primary, Claim
<1>4. k \in Identities
  BY <1>1, PrimaryIsKey DEF Record
<1>5. {x \in records : Primary(x.request) = k} = {}
  <2>1. ASSUME NEW x \in records, Primary(x.request) = k PROVE FALSE
    <3>1. Kinds
      BY ServiceKinds DEF RequestInv, RequestTypeOK
    <3>2. k \in Claims(x.request) /\ k \in Claims(new.request)
      BY <1>1, <2>1, <3>1, PrimaryIsClaim
    <3> QED BY <3>2 DEF Duplicate
  <2> QED BY <2>1
<1>6. Written[k] = Nothing
  BY <1>4, <1>5 DEF Written, BoundTo
<1>7. BoundTo(k)' = new
  <2>1. Rows(k)' = {new}
    BY <1>1, <1>3, <1>5 DEF Rows
  <2> QED BY <2>1, BoundToRows DEF Only
<1>8. ASSUME NEW j \in Identities, j # k PROVE BoundTo(j)' = BoundTo(j)
  <2>1. Rows(j)' = Rows(j)
    BY <1>1, <1>3, <1>8 DEF Rows
  <2> QED BY <2>1, BoundToRows
<1>9. Identities' = Identities
  BY DEF Identities
<1>10. Written' = [Written EXCEPT ![k] = new] /\ Written'[k] = new
  BY <1>4, <1>7, <1>8, <1>9 DEF Written
<1>11. Told' = Told
  BY <1>3, <1>9 DEF Told
<1>12. Log!Write(k, Written'[k])
  BY <1>6, <1>10, <1>11 DEF Log!Write, Written, Told
<1> QED BY <1>4, <1>12 DEF Log!Next, Written

\* An answer tells its identity.
LEMMA ReplyTells ==
    ASSUME RequestInv, service' = service, records' = records,
           NEW t, t.record \in records, replies' = replies \cup {t}
    PROVE  Log!Next
<1>1. PICK k, x : x = t.record /\ k = Primary(x.request)
  OBVIOUS
<1>2. k \in Identities /\ BoundTo(k) = x /\ x # Nothing
  BY <1>1, RowIsBound
<1>3. Written[k] = x
  BY <1>2 DEF Written
<1>4. Service' = Service
  BY SameService
<1>5. \A r : Primary(r)' = Primary(r)
  BY <1>4 DEF Primary, Claim
<1>6. \A j : BoundTo(j)' = BoundTo(j)
  <2>1. \A j : Rows(j)' = Rows(j)
    BY <1>5 DEF Rows
  <2> QED BY <2>1, BoundToRows
<1>7. Identities' = Identities
  BY DEF Identities
<1>8. Written' = Written
  BY <1>6, <1>7 DEF Written
<1>9. Told' = [Told EXCEPT ![k] = @ \cup {Written[k]}]
  <2> DEFINE Of(reps, j) == {u.record : u \in {v \in reps : Primary(v.record.request) = j}}
  <2>1. Of(replies', k) = Of(replies, k) \cup {x}
    BY <1>1
  <2>2. ASSUME NEW j \in Identities, j # k PROVE Of(replies', j) = Of(replies, j)
    BY <1>1, <2>2
  <2>3. Told' = [j \in Identities |-> Of(replies', j)] /\ Told = [j \in Identities |-> Of(replies, j)]
    BY <1>5, <1>7 DEF Told
  <2> HIDE DEF Of
  <2> QED BY <2>1, <2>2, <2>3, <1>2, <1>3
<1>10. Log!Tell(k)
  BY <1>2, <1>3, <1>8, <1>9 DEF Log!Tell, Written, Told
<1> QED BY <1>2, <1>10 DEF Log!Next

\* Ten ledgers implement one that decides an identity once, whoever comes first, and tells every
\* caller of it that decision, although its own evaluation may differ.
THEOREM RequestImplementsCorrect == LedgerSpec => ImplementsWriteOnce
<1>1. LedgerInit => Log!Init
  <2>1. SUFFICES ASSUME LedgerInit PROVE Log!Init
    OBVIOUS
  <2>2. Written = [k \in Identities |-> Nothing]
    BY <2>1 DEF LedgerInit, Written, BoundTo
  <2>3. Told = [k \in Identities |-> {}]
    BY <2>1 DEF LedgerInit, Told
  <2> QED BY <2>2, <2>3 DEF Log!Init
<1>2. RequestInv /\ RequestInv' /\ [LedgerNext]_ledgerVars => [Log!Next]_(Log!onceVars)
  <2>1. ASSUME RequestInv, RequestInv', NEW w \in Servers, Store(w)
        PROVE  Log!Next \/ UNCHANGED Log!onceVars
    <3>1. PICK now \in Instants :
            IF Duplicate(Evaluated(w, now)) THEN UNCHANGED records
            ELSE records' = records \cup {Evaluated(w, now)}
      BY <2>1 DEF Store
    <3>2. serving[w] \in Call /\ serving[w].request \in Submissions
      BY <2>1, ServedCall DEF Store, Founded
    <3>3. Evaluated(w, now) \in Record
      BY <3>2 DEF Evaluated, Record, Call
    <3>4. service' = service /\ replies' = replies
      BY <2>1 DEF Store
    <3> QED BY <2>1, <3>1, <3>3, <3>4, InsertionWrites, QuietStutters
  <2>2. ASSUME RequestInv, NEW w \in Servers, Reply(w)
        PROVE  Log!Next \/ UNCHANGED Log!onceVars
    <3>1. serving[w].record \in records
      BY <2>2, ServedCall DEF Reply, Founded
    <3>2. service' = service /\ records' = records
      BY <2>2 DEF Reply
    <3>3. CASE Readable(w)
      <4>1. PICK t : t = [to |-> serving[w].request, record |-> serving[w].record]
        OBVIOUS
      <4>2. t.record \in records /\ replies' = replies \cup {t}
        BY <2>2, <3>1, <3>3, <4>1 DEF Reply
      <4> QED BY <2>2, <3>2, <4>2, ReplyTells
    <3>4. CASE ~Readable(w)
      BY <2>2, <3>2, <3>4, QuietStutters DEF Reply
    <3> QED BY <3>3, <3>4
  <2>3. ASSUME NEW w \in Servers,
               Begin(w) \/ Look(w) \/ TakeSnapshot(w) \/ Recover(w) \/ Fetch(w) \/ Drop(w)
        PROVE  UNCHANGED Log!onceVars
    <3>1. service' = service /\ records' = records /\ replies' = replies
      BY <2>3 DEF Begin, Look, TakeSnapshot, Recover, Fetch, Drop, Quiet
    <3> QED BY <3>1, QuietStutters
  <2>4. ASSUME Shift PROVE UNCHANGED Log!onceVars
    BY <2>4, QuietStutters DEF Shift
  <2>5. ASSUME UNCHANGED ledgerVars PROVE UNCHANGED Log!onceVars
    BY <2>5, QuietStutters DEF ledgerVars
  <2> QED BY <2>1, <2>2, <2>3, <2>4, <2>5 DEF LedgerNext
<1> QED BY <1>1, <1>2, InvCorrect, PTL DEF LedgerSpec, ImplementsWriteOnce, Log!Spec
=============================================================================
