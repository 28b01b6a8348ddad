------------------------ MODULE TransitionReadiness -------------------------
(***************************************************************************)
(* Whose turn a lifecycle transition is: lifecycle_transition_readiness.py *)
(* reads the projection that the orchestration service (OOS) publishes of  *)
(* a transition and tells whether its next action may be taken, and who is *)
(* to act otherwise.                                                       *)
(*                                                                         *)
(* OOS is external.  It moves the transition, waits for its owners, and    *)
(* publishes what it knows, now and then late, incompletely or wrongly.    *)
(* An owner that is told to act does, and OOS goes on; so a transition of  *)
(* which the answer names somebody else stands still.                      *)
(*                                                                         *)
(* How answers are stored, replayed and bound to requests is               *)
(* ReadinessChain and RequestLedger.                                       *)
(***************************************************************************)
EXTENDS Naturals, Sequences, NoValue

CONSTANTS
    People,   \* owners other than OOS
    Routes,   \* what projections bind: [route, source, target], right or wrong
    MaxMoves, \* bound: entries of a transition's history
    MaxClock  \* bound: instants

VARIABLES
    transition, \* OOS's truth: its state and the owner it waits for
    projection, \* what it published last
    flaws,      \* what is wrong with that
    answer,     \* the last answer, the projection it was about and what was true of it
    clock

transitionVars == <<transition, projection, flaws, answer, clock>>

OOS == "operator-orchestration-service"
Active == {"prepared", "validating", "awaiting-authority", "awaiting-admission", "authorized", "applying"}
Ended == {"applied", "cancelled", "superseded"}
ToAct == {"returned", "deferred", "rejected", "failed"}

RouteDomains == [r \in {"proposal-to-delivery", "proposal-to-prototype", "prototype-to-delivery"} |->
    CASE r = "proposal-to-delivery" -> <<"proposal", "delivery">>
      [] r = "proposal-to-prototype" -> <<"proposal", "prototype">>
      [] OTHER -> <<"prototype", "delivery">>]

\* The codes of the findings: of a projection, and of a transition's state.
SourceCodes == {"route-binding-invalid", "source-not-current", "history-order-invalid", "evidence-reference-unsafe"}
StateCodes == {"state-inconsistent", "validation-gate-blocked", "gate-blocked", "source-correction-required",
               "deferred", "rejected", "failed"}
StateReasons == {"gate", "correction", "deferred", "rejected", "failed"}

\* A projection can be bound as it should be, and None is told from an owner, a finding, an
\* escalation and a next action.
ASSUME TransitionAssumption ==
    /\ \E b \in Routes : RouteDomains[b.route] = <<b.source, b.target>>
    /\ None \notin People
    /\ None \notin [code : SourceCodes \cup StateCodes, severity : {"blocking", "warning"}, owner : People \cup {OOS}]
    /\ None \notin [reason : SourceCodes \cup StateCodes \cup StateReasons, owner : People \cup {OOS}]
    /\ None \notin [owner : People \cup {OOS}]
-----------------------------------------------------------------------------
(* _evaluate: severities and owners of the findings, and the escalation.   *)

Finding(code, severity, owner) == [code |-> code, severity |-> severity, owner |-> owner]
Escalation(reason, owner) == [reason |-> reason, owner |-> owner]
Verdict(finding, escalation) == [finding |-> finding, escalation |-> escalation]

Consistent == Verdict(None, None)
Inconsistent == Verdict(Finding("state-inconsistent", "blocking", OOS), None)

\* Waiting for an owner is not in itself a reason to block.
Routed(code, severity, reason, owner) == Verdict(Finding(code, severity, owner), Escalation(reason, owner))

GateVerdict(code, gate) == Routed(code, "blocking", "gate", gate)

\* What must be recorded of a transition in one of these states.
Required(state) ==
    CASE state = "deferred" -> {"deferred"}
      [] state = "rejected" -> {"rejection"}
      [] state = "failed" -> {"application-failed", "failure-code"}
      [] state = "applied" -> {"application-applied", "application-receipt", "target-record",
                               "admission-admitted", "admission-receipt"}
      [] state = "cancelled" -> {"cancelled-reason"}
      [] state = "superseded" -> {"superseded-by"}
      [] OTHER -> {}

\* Mutant: a validation gate that blocks is left to the owner of the next action.
StateByNextAction(p) ==
    CASE p.state \in Active ->
           (IF p.next = None THEN Inconsistent
            ELSE IF p.gate # None THEN GateVerdict("validation-gate-blocked", p.next.owner)
            ELSE Consistent)
      [] OTHER -> Consistent

StateEvaluation(p) ==
    CASE p.state \in Active ->
           (IF p.next = None THEN Inconsistent
            ELSE IF p.gate # None THEN GateVerdict("validation-gate-blocked", p.gate)
            ELSE Consistent)
      [] p.state = "blocked" -> (IF p.blockedGate = None THEN Inconsistent ELSE GateVerdict("gate-blocked", p.blockedGate))
      [] p.state = "returned" ->
           (IF p.correction = None THEN Inconsistent
            ELSE Routed("source-correction-required", "warning", "correction", p.correction))
      [] p.state \in {"deferred", "rejected", "failed"} ->
           (IF ~(Required(p.state) \subseteq p.recorded) \/ p.next = None THEN Inconsistent
            ELSE Routed(p.state, "warning", p.state, p.next.owner))
      [] OTHER -> (IF Required(p.state) \subseteq p.recorded /\ p.next = None THEN Consistent ELSE Inconsistent)

Ordered(history, revision) ==
    /\ \A i, j \in DOMAIN history : i < j => history[i] < history[j]
    /\ history[Len(history)] <= revision

SafeReference(reference) == reference # "credential"

\* In the order they are looked for.
SourceFindings(p) ==
    LET Unless(holds, code) == IF holds THEN <<>> ELSE <<Finding(code, "blocking", OOS)>>
    IN Unless(<<p.source, p.target>> = RouteDomains[p.route], "route-binding-invalid")
       \o Unless(p.freshness = "current" /\ clock < p.validUntil, "source-not-current")
       \o Unless(Ordered(p.history, p.revision), "history-order-invalid")
       \o Unless(\A r \in p.references : SafeReference(r), "evidence-reference-unsafe")

Findings(p) ==
    LET state == StateEvaluation(p).finding
    IN SourceFindings(p) \o IF state = None THEN <<>> ELSE <<state>>

\* An escalation of the state's own stays whatever else is found.
Evaluation(p) ==
    LET findings == Findings(p)
        own == StateEvaluation(p).escalation
        blocked == \E i \in DOMAIN findings : findings[i].severity = "blocking"
    IN [outcome |-> IF blocked THEN "blocked" ELSE IF p.state \in Ended THEN "terminal"
                    ELSE IF p.state \in ToAct THEN "requires-action" ELSE "ready",
        escalation |-> IF blocked /\ own = None THEN Escalation(findings[1].code, findings[1].owner) ELSE own,
        next |-> p.next,
        references |-> {r \in p.references : SafeReference(r)}]
-----------------------------------------------------------------------------
(* OOS, and the owners it waits for.                                       *)

\* OOS takes the next action of a transition that is under way; the one that is waited for
\* reviews or corrects the others.
Actor(t) == IF t.state \in Active THEN OOS ELSE t.waits

Projected(t, bound) ==
    [state |-> t.state, route |-> bound.route, source |-> bound.source, target |-> bound.target,
     freshness |-> "current", validUntil |-> clock + 1,
     history |-> t.history, revision |-> Len(t.history), references |-> {"receipt"},
     next |-> IF t.state \in Ended THEN None ELSE [owner |-> Actor(t)],
     gate |-> IF t.state \in Active THEN t.waits ELSE None,
     blockedGate |-> IF t.state = "blocked" THEN t.waits ELSE None,
     correction |-> IF t.state = "returned" THEN t.waits ELSE None,
     recorded |-> Required(t.state)]

Right == CHOOSE b \in Routes : RouteDomains[b.route] = <<b.source, b.target>>

\* What may go wrong with a projection, and what it makes of it.
Spoiled(p, flaw) ==
    CASE flaw = "unbound" -> {[p EXCEPT !.route = b.route, !.source = b.source, !.target = b.target] :
                                b \in {b \in Routes : RouteDomains[b.route] # <<b.source, b.target>>}}
      [] flaw = "stale" -> {[p EXCEPT !.freshness = "stale"]}
      [] flaw = "disordered" -> {[p EXCEPT !.history = @ \o <<1>>], [p EXCEPT !.revision = @ - 1]}
      [] flaw = "unsafe" -> {[p EXCEPT !.references = @ \cup {"credential"}]}
      [] flaw = "incomplete" ->
           {[p EXCEPT !.recorded = @ \ {r}] : r \in Required(p.state)}
           \cup (IF p.state \in Active \cup {"deferred", "rejected", "failed"} THEN {[p EXCEPT !.next = None]} ELSE {})
           \cup (IF p.state \in Ended THEN {[p EXCEPT !.next = [owner |-> OOS]]} ELSE {})
           \cup (IF p.state = "blocked" THEN {[p EXCEPT !.blockedGate = None]} ELSE {})
           \cup (IF p.state = "returned" THEN {[p EXCEPT !.correction = None]} ELSE {})

Publish(t) ==
    /\ transition' = t
    /\ \/ projection' = Projected(t, Right) /\ flaws' = {}
       \/ \E flaw \in {"unbound", "stale", "disordered", "unsafe", "incomplete"} :
            projection' \in Spoiled(Projected(t, Right), flaw) /\ flaws' = {flaw}

TransitionInit ==
    /\ transition = [state |-> "prepared", waits |-> None, history |-> <<1>>]
    /\ clock = 0
    /\ projection = Projected(transition, Right)
    /\ flaws = {}
    /\ answer = None

Expired == IF clock < projection.validUntil THEN {} ELSE {"expired"}

Evaluate ==
    /\ answer' = [told |-> Evaluation(projection), of |-> projection, flaws |-> flaws \cup Expired,
                  waits |-> transition.waits, state |-> transition.state]
    /\ UNCHANGED <<transition, projection, flaws, clock>>

\* The next action of a transition that was found ready, or what its owner was told to do.
Released == IF answer.told.escalation = None THEN answer.told.outcome = "ready"
            ELSE answer.told.escalation.owner = transition.waits

Waiting(state) == state \in ToAct \cup {"blocked"}

\* A validation gate may block a transition that is under way.
Advance(state, owner) ==
    /\ answer # None /\ answer.of = projection /\ Released
    /\ Len(transition.history) < MaxMoves
    /\ Waiting(state) => owner # None
    /\ state \in Ended => owner = None
    /\ Publish([state |-> state, waits |-> owner, history |-> Append(transition.history, Len(transition.history) + 1)])
    /\ UNCHANGED <<answer, clock>>

\* OOS is told to correct its projection, or publishes a fresh one by itself.
Republish == Publish(transition) /\ UNCHANGED <<answer, clock>>

Tick == clock < MaxClock /\ clock' = clock + 1 /\ UNCHANGED <<transition, projection, flaws, answer>>

TransitionNext ==
    \/ Evaluate
    \/ \E state \in Active \cup Ended \cup ToAct \cup {"blocked"}, owner \in People \cup {None} : Advance(state, owner)
    \/ Republish
    \/ Tick

TransitionSpec == TransitionInit /\ [][TransitionNext]_transitionVars
-----------------------------------------------------------------------------
(* Work goes to who can do it.  Of a projection that is as it should be, an answer that is not *)
(* ready or terminal sends the work to the very owner the transition waits for; of one that is *)
(* not, to OOS, or to the owner waited for, who is the next to act once OOS published a proper *)
(* one.  Ready is said only of a proper and unexpired projection of a transition that waits    *)
(* for nobody, and with a next action; terminal only of one that ended; a warning is never     *)
(* made of a flaw; and no reference that carries a credential is passed on                     *)
(* (lifecycle_transition_readiness.py:197-283, 416-555).                                       *)
WorkIsRouted ==
    answer # None =>
      LET told == answer.told IN
      /\ told.outcome = "ready" => answer.flaws = {} /\ answer.waits = None /\ told.next # None
      /\ told.outcome = "terminal" => answer.flaws = {} /\ answer.state \in Ended /\ told.next = None
      /\ told.outcome = "requires-action" => answer.flaws = {} /\ answer.state \in ToAct
      /\ told.outcome \in {"blocked", "requires-action"} =>
           told.escalation.owner \in {answer.waits} \cup (IF answer.flaws = {} THEN {} ELSE {OOS})
      /\ told.outcome \in {"ready", "terminal"} => told.escalation = None
      /\ "credential" \notin told.references
=============================================================================
