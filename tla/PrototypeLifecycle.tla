-------------------------- MODULE PrototypeLifecycle ------------------------
(***************************************************************************)
(* The life of one prototype, as WGCF lets it be changed: Landing,         *)
(* Candidate and Baseline Promotion, and the four Closure actions.         *)
(*                                                                         *)
(* The prototype is what Prototype Studio has committed, revision by       *)
(* revision.  WGCF changes none of it: it answers whether one requested    *)
(* step is ready at one revision.  OOS and Studio carry a ready step out,  *)
(* as long as its answer is not stale; Studio is also edited by hand, but  *)
(* enters a lifecycle state by a step only (prototype-maturity.yaml,       *)
(* prototype_lifecycle.rules).                                             *)
(***************************************************************************)
EXTENDS Integers, Sequences, FiniteSets, NoValue

CONSTANTS
    Histories,    \* [studio, applied]: where a behaviour starts
    Landings,     \* Landing requests with their plan
    Maturities,   \* maturity requests with their packet
    Closures,     \* Closure requests
    Answers,      \* how the owner of a proof may answer about it
    MaxRevisions, \* bound: revisions a behaviour adds
    Elsewhere     \* what a foreign proof is about

VARIABLES
    studio,  \* the committed revisions of the prototype, oldest first
    call,    \* the step under evaluation, or None
    applied, \* what was carried out, oldest first
    first    \* the number of revisions the behaviour started with

prototypeVars == <<studio, call, applied, first>>

Dimensions == {"source", "studio-home", "interface", "runtime", "data",
               "integration", "tooling", "evidence", "visibility", "recovery"}
ReferenceOnly == {"reference-dedicated-owner-source", "reference-shared-owner-source"}
Promotions == {"candidate-promotion", "baseline-promotion"}

\* What the registry holds of a prototype, and one revision of Studio.
Lifecycles == {"exploring", "candidate", "baseline-approved", "graduating", "graduated", "retired"}
Custodies == {"incubation-repo", "dedicated-owner-repo", "shared-owner-repo"}
ClosureActions == {"apply-delivery", "graduate-source", "retire-incubation", "reopen-incubation"}

ClosureEvents ==
    [type : ClosureActions, at : Nat, from : Lifecycles \X Custodies, to : Lifecycles \X Custodies, plan : Nat \cup {None}]

Prototypes ==
    [lifecycle : Lifecycles, custody : Custodies \cup {None}, landed : BOOLEAN, candidate : Nat \cup {None},
     candidates : SUBSET Nat, packet : {"packet", "repacked", None}, baseline : {"baseline", None},
     phase : {"incubating", "delivery-governed"},
     target : {q.refs["accepted-delivery"] : q \in {q \in Closures : q.action = "apply-delivery"}} \cup {None},
     retirement : Nat \cup {None}, closure : Nat \cup {None}, events : Seq(ClosureEvents)]

StudioRevisions == [item : Prototypes \cup {None}, source : BOOLEAN]

Latest == Len(studio)
ItemAt(r) == studio[r].item
Custody(item) == IF item.custody = None THEN "incubation-repo" ELSE item.custody
-----------------------------------------------------------------------------
(* Landing of l, prepared against revision `reviewed`, evaluated at r.     *)

Triggers(l) ==
    {c \in l.constraints : c.sensitive} \cup {d \in {l.data} : d \in {"real-read", "real-write"}}
    \cup {v \in {l.visibility} : v \in {"client-review", "public-demo"}}
    \cup {p \in {l.posture} : p \in ReferenceOnly \cup {"import-to-studio"}}

SourceIsHeld(l, reviewed, r) ==
    /\ l.plan.prototype = l.prototype /\ l.plan.source = l.source /\ ~l.digests /\ l.source = "canonical"
    /\ \/ l.posture = "create-studio-source" /\ ~l.pinned /\ ~studio[r].source
       \/ l.posture = "use-existing-studio-source" /\ l.pinned /\ reviewed = r /\ studio[r].source

MutationsAreExact(l) ==
    LET kinds == {o.kind : o \in l.plan.outputs}
    IN /\ l.plan.mutations = kinds /\ Cardinality(l.plan.outputs) = Cardinality(kinds)
       /\ \A o \in l.plan.outputs : o.required /\ o.canonical
       /\ {"registry-record", "prototype-docs"} \subseteq kinds
       /\ l.posture \in {"create-studio-source", "import-to-studio"} => "prototype-source" \in kinds
       /\ l.posture \in ReferenceOnly => kinds \cap {"prototype-source", "fixtures"} = {}
       /\ l.posture = "use-existing-studio-source" => "prototype-source" \notin kinds

LandingHolds(l, reviewed, r) ==
    /\ l.entry = "entry" /\ l.plan.request = l.id
    /\ ItemAt(r) = None
    /\ l.starting = "exploring" /\ l.accepted
    /\ DOMAIN l.rows = Dimensions
    /\ \A d \in DOMAIN l.rows : /\ l.rows[d].generated = (l.profile # "custom")
                                /\ l.rows[d].state \notin {"unknown", "blocked"}
    /\ SourceIsHeld(l, reviewed, r)
    /\ l.data \in {"mock", "synthetic"} /\ l.boundary # "real-system-blocked"
    /\ l.visibility \in {"private", "operator-review"}
    /\ Triggers(l) = {}
    /\ MutationsAreExact(l)

\* The request of a prototype that existed names the digest of its record.
LandingIsFresh(c, r) == c.submitted = r /\ c.reviewed = r /\ ItemAt(c.reviewed) = None
-----------------------------------------------------------------------------
(* Promotion m, prepared against revision c.reviewed, evaluated at r.      *)

ActiveCandidate(item) == IF item.candidate = None THEN 0 ELSE item.candidate
CandidateIsValid(item) == ActiveCandidate(item) \in item.candidates

\* What a reference is resolved to at revision r.
Files(r) ==
    {"docs"} \cup {f \in {"landing"} : ItemAt(r).landed} \cup {f \in {"candidate"} : ItemAt(r).candidates # {}}
    \cup {f \in {"baseline"} : ItemAt(r).baseline # None}

From == [candidate |-> "exploring", baseline |-> "candidate"]
To == [candidate |-> "candidate", baseline |-> "baseline-approved"]
PacketSections ==
    [candidate |-> {"candidate-brief", "scope-and-non-goals", "boundaries-and-risks"},
     baseline |-> {"definition", "design-and-workflow", "evidence", "boundaries", "issues-and-risk-disposition"}]
BoundaryFields ==
    [candidate |-> {"prototype-objective", "target-user", "expected-proof", "accepted-scope", "excluded-scope",
                    "boundary-clarifications", "open-issue-disposition"},
     baseline |-> {"baseline-title", "baseline-statement", "accepted-summary", "excluded-summary",
                   "selected-evidence-refs", "missing-evidence-disposition", "issue-and-risk-disposition"}]

References(m) == m.refs \cup m.selected \cup UNION {m.packet.sections[s].refs : s \in DOMAIN m.packet.sections}

\* A text field is given or blank; the references a baseline selects are a set.
BoundaryIsCoherent(m, r) ==
    /\ DOMAIN m.values = BoundaryFields[m.level]
    /\ m.refs # {} /\ m.refs \subseteq Files(r)
    /\ \A f \in DOMAIN m.values : m.values[f] = "given"
    /\ m.level = "baseline" => m.selected # {} /\ m.selected \subseteq Files(r)

PromotionHolds(m, c, r) ==
    /\ m.packet.request = m.id /\ m.packet.prototype = m.prototype /\ m.packet.level = m.level
    /\ <<m.source, m.target>> = <<From[m.level], To[m.level]>>
    /\ ItemAt(c.reviewed).lifecycle = From[m.level]
    /\ ItemAt(r).landed /\ ItemAt(r).lifecycle = From[m.level]
    /\ m.level = "baseline" => CandidateIsValid(ItemAt(r))
    /\ m.packet.kind = m.level /\ DOMAIN m.packet.sections = PacketSections[m.level]
    /\ \A s \in DOMAIN m.packet.sections : m.packet.sections[s].ready /\ m.packet.sections[s].refs # {}
    /\ References(m) \subseteq Files(r)
    /\ BoundaryIsCoherent(m, r)

\* Mutant: the envelope is of the current revision, whatever the request was reviewed at.
EnvelopeIsFresh(m, c, r) ==
    c.submitted = r /\ ItemAt(c.reviewed).lifecycle = ItemAt(r).lifecycle
    /\ m.policy = "pinned" /\ m.review = "pinned"

PromotionIsFresh(m, c, r) ==
    c.submitted = r /\ c.reviewed = r /\ ItemAt(c.reviewed) = ItemAt(r)
    /\ m.policy = "pinned" /\ m.review = "pinned"
-----------------------------------------------------------------------------
(* Closure q, prepared against revision c.reviewed.                        *)

\* Mutant: the history is followed, and not compared with the registry at its end.
ReadableByChain(r) ==
    LET item == ItemAt(r) IN
    /\ item.lifecycle = "graduated" => item.custody # None
    /\ \A n \in DOMAIN item.events :
          LET e == item.events[n]
          IN e.at <= r /\ ItemAt(e.at) # None /\ e.from = <<ItemAt(e.at).lifecycle, Custody(ItemAt(e.at))>>

\* PrototypeClosureAuthority.snapshot answers: every event of the history binds the state it
\* left, and the last one the state the registry is in.
Readable(r) ==
    LET item == ItemAt(r) IN
    /\ item.lifecycle = "graduated" => item.custody # None
    /\ \A n \in DOMAIN item.events :
          LET e == item.events[n]
          IN e.at <= r /\ ItemAt(e.at) # None /\ e.from = <<ItemAt(e.at).lifecycle, Custody(ItemAt(e.at))>>
    /\ item.events # <<>> => /\ item.closure = Len(item.events)
                             /\ item.events[Len(item.events)].to = <<item.lifecycle, Custody(item)>>

LastIsRetirement(item) == item.events # <<>> /\ item.events[Len(item.events)].type = "retire-incubation"

FromLifecycles ==
    [action \in ClosureActions |->
       CASE action = "apply-delivery" -> {"baseline-approved"}
         [] action = "graduate-source" -> {"graduating"}
         [] action = "reopen-incubation" -> {"retired"}
         [] OTHER -> {"exploring", "candidate", "baseline-approved", "graduating"}]

Needed(q) ==
    CASE q.action = "apply-delivery" -> {"accepted-baseline", "accepted-delivery", "target"}
      [] q.action = "graduate-source" ->
           {"accepted-delivery", "owner-acceptance", IF q.owned THEN "owned-source" ELSE "source-transfer"}
      [] q.action = "retire-incubation" -> {"retention-plan", "runtime-plan", "runtime-proof"}
      [] OTHER -> {"prior-retirement", "retained-source"}

OfStudio == {"retention-plan", "retained-source"}
DurableFields == {"owner-acceptance", "source-transfer", "owned-source"}
Named(q, field) == IF field \in DOMAIN q.refs THEN q.refs[field] ELSE None

\* What a proof is to be about.
SubjectOf(q, item, field) ==
    CASE field = "accepted-baseline" -> item.baseline
      [] field \in {"accepted-delivery", "target"} /\ q.action = "apply-delivery" -> Named(q, "target")
      [] field \in DurableFields -> q.repo
      [] field = "runtime-proof" -> Named(q, "runtime-plan")
      [] field = "prior-retirement" -> item.retirement
      [] OTHER -> None

PacketOf(item, field) == IF field \in DurableFields \cup {"accepted-delivery", "target"} THEN item.packet ELSE None

\* What the owner of a field has on record, by the way it answers.
OwnerProof(q, item, r, field, answer) ==
    [ref |-> IF Named(q, field) = None \/ answer = "other" THEN field ELSE Named(q, field),
     subject |-> IF answer = "foreign" THEN Elsewhere ELSE SubjectOf(q, item, field),
     revision |-> IF answer = "old" THEN r - 1 ELSE r,
     packet |-> IF answer = "repacked" THEN "repacked" ELSE item.packet]

\* OosClosureOwnerReader.read raises unless what was asked for is what was answered.
OwnerIsBound(q, item, field, p) ==
    /\ Named(q, field) \in {None, p.ref}
    /\ SubjectOf(q, item, field) \in {None, p.subject}
    /\ PacketOf(item, field) \in {None, p.packet}

\* The retention plan names the state it was made for and the objects it retains.
PlanHolds(basis, r) ==
    basis <= r /\ ItemAt(basis) # None /\ studio[basis].source = studio[r].source

\* StudioClosureOwnerReader.read: it looks at Studio again, and raises when it has moved.
StudioIsBound(q, r, field) ==
    LET item == ItemAt(r) IN
    /\ Latest = r
    /\ field = "retention-plan" =>
          /\ q.reason /\ PlanHolds(q.plan, r)
          /\ <<ItemAt(q.plan).lifecycle, Custody(ItemAt(q.plan))>> = <<item.lifecycle, Custody(item)>>
    /\ field = "retained-source" =>
          /\ item.lifecycle = "retired" /\ Custody(item) = "incubation-repo" /\ LastIsRetirement(item)
          /\ item.retirement = item.closure /\ item.retirement = Len(item.events)
          /\ PlanHolds(item.events[Len(item.events)].plan, r)

\* Every reader answered (how: the way of each owner; "missing" is a 404).
EvidenceIsRead(q, r, how) ==
    \A f \in Needed(q) :
        IF f \in OfStudio THEN StudioIsBound(q, r, f)
        ELSE how[f] = "missing" \/ OwnerIsBound(q, ItemAt(r), f, OwnerProof(q, ItemAt(r), r, f, how[f]))

SourcePreconditions(q, item) ==
    CASE q.action = "apply-delivery" ->
           item.packet # None /\ item.baseline # None /\ q.kind = "new-delivery-epic"
           /\ Named(q, "target") # None /\ Named(q, "accepted-delivery") # None
      [] q.action = "graduate-source" ->
           item.phase = "delivery-governed" /\ item.packet # None /\ item.target = Named(q, "accepted-delivery")
      [] q.action = "reopen-incubation" -> LastIsRetirement(item) /\ item.retirement = item.closure
      [] OTHER -> TRUE

ProofHolds(q, item, r, field, p) ==
    /\ Named(q, field) \in {None, p.ref}
    /\ field = "accepted-delivery" => p.packet = item.packet
    /\ field = "accepted-delivery" /\ q.action = "graduate-source" => p.ref = item.target
    /\ field = "accepted-delivery" /\ q.action = "apply-delivery" => p.subject = Named(q, "target")
    /\ field \in {"accepted-baseline", "runtime-proof", "prior-retirement"} \cup DurableFields =>
          p.subject = SubjectOf(q, item, field)
    /\ field \in {"source-transfer", "owned-source"} => p.revision = r

ClosureHolds(q, c, r, how) ==
    LET item == ItemAt(r) IN
    /\ ItemAt(c.reviewed).lifecycle = item.lifecycle /\ item.lifecycle \in FromLifecycles[q.action]
    /\ \/ Custody(item) = "incubation-repo"
       \/ q.action = "retire-incubation" /\ Custody(item) \in {"dedicated-owner-repo", "shared-owner-repo"}
    /\ SourcePreconditions(q, item)
    /\ \A f \in Needed(q) \ OfStudio :
          how[f] # "missing" /\ ProofHolds(q, item, r, f, OwnerProof(q, item, r, f, how[f]))
    /\ q.action = "retire-incubation" => q.reason

ClosureIsFresh(c, r) == c.reviewed = r /\ ItemAt(c.submitted) = ItemAt(r)
-----------------------------------------------------------------------------
(* Steps of one call, and of Studio.                                       *)

Judged(holds, fresh) == IF ~holds THEN "blocked" ELSE IF ~fresh THEN "stale" ELSE "ready"

Answered(outcome, r) == call' = [call EXCEPT !.at = r, !.outcome = outcome]

\* An operator prepares a request from what Studio shows.
Prepare(kind, request) ==
    /\ call = None
    /\ kind # "landing" => ItemAt(Latest) # None
    /\ call' = [kind |-> kind, request |-> request, reviewed |-> Latest, submitted |-> None, at |-> None,
                outcome |-> None]
    /\ UNCHANGED <<studio, applied, first>>

\* OOS assembles the envelope around it.
Submit ==
    /\ call # None /\ call.submitted = None
    /\ call' = [call EXCEPT !.submitted = Latest]
    /\ UNCHANGED <<studio, applied, first>>

Arrived(kind) == call # None /\ call.kind = kind /\ call.submitted # None /\ call.outcome = None

EvaluateLanding ==
    /\ Arrived("landing")
    /\ Answered(Judged(LandingHolds(call.request, call.reviewed, Latest), LandingIsFresh(call, Latest)), Latest)
    /\ UNCHANGED <<studio, applied, first>>

EvaluatePromotion ==
    /\ Arrived("promotion")
    /\ Answered(Judged(PromotionHolds(call.request, call, Latest), PromotionIsFresh(call.request, call, Latest)), Latest)
    /\ UNCHANGED <<studio, applied, first>>

SnapshotSource ==
    /\ Arrived("closure") /\ call.at = None
    /\ IF Readable(Latest) THEN Answered(None, Latest) ELSE Answered("unavailable", Latest)
    /\ UNCHANGED <<studio, applied, first>>

EvaluateClosure ==
    /\ Arrived("closure") /\ call.at # None
    /\ \E f \in Needed(call.request), answer \in Answers :
          LET how == [g \in Needed(call.request) |-> IF g = f THEN answer ELSE "accepted"]
          IN IF EvidenceIsRead(call.request, call.at, how)
               THEN Answered(Judged(ClosureHolds(call.request, call, call.at, how), ClosureIsFresh(call, call.at)),
                             call.at)
               ELSE Answered("unavailable", call.at)
    /\ UNCHANGED <<studio, applied, first>>

Landed ==
    [lifecycle |-> "exploring", custody |-> None, landed |-> TRUE, candidate |-> None, candidates |-> {},
     packet |-> None, baseline |-> None, phase |-> "incubating", target |-> None,
     retirement |-> None, closure |-> None, events |-> <<>>]

\* Studio appends the event of a Closure step.
Closed(item, q, r, lifecycle, custody) ==
    [item EXCEPT !.lifecycle = lifecycle, !.custody = custody, !.closure = Len(item.events) + 1,
                 !.events = Append(@, [type |-> q.action, at |-> r, from |-> <<item.lifecycle, Custody(item)>>,
                                       to |-> <<lifecycle, custody>>, plan |-> q.plan])]

\* The record after step `kind` with request q, prepared for revision r.
Stepped(kind, q, item, r) ==
    CASE kind = "landing" -> Landed
      [] kind = "promotion" /\ q.level = "candidate" ->
           [item EXCEPT !.lifecycle = "candidate", !.candidate = Len(item.events),
                        !.candidates = @ \cup {Len(item.events)}]
      [] kind = "promotion" /\ q.level = "baseline" -> [item EXCEPT !.lifecycle = "baseline-approved"]
      [] kind = "closure" /\ q.action = "apply-delivery" ->
           [Closed(item, q, r, "graduating", "incubation-repo") EXCEPT !.target = q.refs["accepted-delivery"]]
      [] kind = "closure" /\ q.action = "graduate-source" -> Closed(item, q, r, "graduated", "dedicated-owner-repo")
      [] kind = "closure" /\ q.action = "retire-incubation" ->
           [Closed(item, q, r, "retired", Custody(item)) EXCEPT !.retirement = Len(item.events) + 1]
      [] OTHER -> Closed(item, q, r, "exploring", "incubation-repo")

Name(kind, q) == CASE kind = "landing" -> "landing" [] kind = "promotion" -> q.level [] OTHER -> q.action

Grow(item, source) ==
    /\ Latest < first + MaxRevisions
    /\ studio' = Append(studio, [item |-> item, source |-> source])

\* OOS and Studio carry out a ready step whose answer is not stale.
Apply ==
    /\ call # None /\ call.outcome = "ready" /\ call.at = Latest
    /\ Grow(Stepped(call.kind, call.request, ItemAt(Latest), call.reviewed),
            call.kind = "landing" \/ studio[Latest].source)
    /\ applied' = Append(applied, [name |-> Name(call.kind, call.request), reviewed |-> call.reviewed, at |-> Latest])
    /\ call' = None
    /\ UNCHANGED first

\* The answer is read, refused or forgotten.
Drop ==
    /\ call # None /\ call.outcome # None
    /\ call' = None
    /\ UNCHANGED <<studio, applied, first>>

\* Changes by hand: packets and baselines are staged, Delivery accepts, records are lost.
Edits(item) ==
    {item, [item EXCEPT !.landed = FALSE], [item EXCEPT !.candidates = {}],
     [item EXCEPT !.packet = "packet", !.baseline = "baseline"], [item EXCEPT !.packet = "repacked"]}
    \cup {[i EXCEPT !.phase = "delivery-governed"] : i \in {i \in {item} : i.lifecycle = "graduating"}}

Edit ==
    /\ \/ ItemAt(Latest) = None /\ Grow(None, ~studio[Latest].source)
       \/ ItemAt(Latest) # None /\ \E item \in Edits(ItemAt(Latest)) : Grow(item, studio[Latest].source)
    /\ UNCHANGED <<call, applied, first>>
-----------------------------------------------------------------------------
(* The histories there can be.                                             *)

Beginnings == {"landing", "reopen-incubation"}
Ladder == <<"candidate", "baseline", "apply-delivery", "graduate-source">>

\* The state each step enters.
Entered ==
    [name \in Beginnings \cup {"candidate", "baseline", "apply-delivery", "graduate-source", "retire-incubation"} |->
       CASE name \in Beginnings -> "exploring" [] name = "candidate" -> "candidate"
         [] name = "baseline" -> "baseline-approved" [] name = "apply-delivery" -> "graduating"
         [] name = "graduate-source" -> "graduated" [] name = "retire-incubation" -> "retired"]

AppliedSteps == [name : DOMAIN Entered, reviewed : Nat, at : Nat]

\* A promotion leaves no event, so the last one may be of the state before it.
Unclosed == {"exploring", "candidate", "baseline-approved"}
LastEntered(item) == IF item.lifecycle \in Unclosed THEN "exploring" ELSE item.lifecycle

EventsAreBound(s, item) ==
    \A n \in DOMAIN item.events :
        LET e == item.events[n] IN
        /\ e.at \in DOMAIN s /\ s[e.at].item # None
        /\ e.from = <<s[e.at].item.lifecycle, Custody(s[e.at].item)>>

EventsAreWhole(item) ==
    /\ item.lifecycle = "graduated" => item.custody # None
    /\ item.events # <<>> => /\ item.closure = Len(item.events)
                             /\ item.events[Len(item.events)].to = <<LastEntered(item), Custody(item)>>

\* The last cycle of a begins at b and climbs the ladder.
BeginsAt(a, b) ==
    /\ a[b].name \in Beginnings
    /\ \A k \in DOMAIN a : k > b =>
          \/ k - b <= Len(Ladder) /\ a[k].name = Ladder[k - b]
          \/ k = Len(a) /\ a[k].name = "retire-incubation"

\* Only the first cycle has a part before any event.
IsInCycle(a, item) ==
    /\ item.lifecycle = Entered[a[Len(a)].name]
    /\ \E b \in DOMAIN a : BeginsAt(a, b) /\ (item.events = <<>> <=> b = 1 /\ item.lifecycle \in Unclosed)

\* s is what Studio has committed and a what was carried out, from an empty registry on.
IsLawful(s, a) ==
    /\ s \in Seq(StudioRevisions) /\ s # <<>> /\ a \in Seq(AppliedSteps)
    /\ \A n \in DOMAIN a : {a[n].reviewed, a[n].at} \subseteq DOMAIN s /\ s[a[n].reviewed].item = s[a[n].at].item
    /\ LET item == s[Len(s)].item IN
       /\ item = None <=> a = <<>>
       /\ item # None => EventsAreBound(s, item) /\ EventsAreWhole(item) /\ IsInCycle(a, item)

\* A behaviour starts where another one may have come to, and every request names a step.
ASSUME PrototypeAssumption ==
    /\ None \notin Prototypes \cup Nat \cup Custodies \cup {"ready"}
    /\ \A h \in Histories : IsLawful(h.studio, h.applied)
    /\ \A m \in Maturities : m.level \in {"candidate", "baseline"}
    /\ \A q \in Closures : q.action \in ClosureActions /\ q.plan \in Nat \cup {None}
-----------------------------------------------------------------------------
PrototypeInit ==
    /\ \E h \in Histories : studio = h.studio /\ applied = h.applied /\ first = Len(h.studio)
    /\ call = None

PrototypeNext ==
    \/ \E l \in Landings : Prepare("landing", l)
    \/ \E m \in Maturities : Prepare("promotion", m)
    \/ \E q \in Closures : Prepare("closure", q)
    \/ Submit \/ EvaluateLanding \/ EvaluatePromotion \/ SnapshotSource \/ EvaluateClosure
    \/ Apply \/ Drop \/ Edit

PrototypeSpec == PrototypeInit /\ [][PrototypeNext]_prototypeVars
-----------------------------------------------------------------------------
\* A cycle begins when the prototype lands and each time it is reopened.
Cycle ==
    LET begin == CHOOSE n \in DOMAIN applied :
                    /\ applied[n].name \in {"landing", "reopen-incubation"}
                    /\ \A k \in DOMAIN applied :
                          applied[k].name \in {"landing", "reopen-incubation"} => k <= n
    IN SubSeq(applied, begin + 1, Len(applied))

\* Every step was carried out on the record its requester had reviewed, and the steps of a
\* cycle are the first ones of the ladder, in order, until a retirement ends it: no
\* interleaving of requests, evaluations, edits and the three policies skips, repeats or
\* reorders one.
StepsAreReviewed ==
    /\ \A n \in DOMAIN applied : ItemAt(applied[n].reviewed) = ItemAt(applied[n].at)
    /\ applied # <<>> =>
          \A n \in DOMAIN Cycle :
              \/ n <= Len(Ladder) /\ Cycle[n].name = Ladder[n]
              \/ n = Len(Cycle) /\ Cycle[n].name = "retire-incubation"

\* The Closure authority refuses to read Studio in one situation only: a reopened prototype
\* was promoted, which leaves no event behind the one of its reopening
\* (prototype_closure_authority.py 247-256).
ClosureIsReadable ==
    ItemAt(Latest) # None =>
        (~Readable(Latest) <=> /\ Len(Cycle) < Len(applied) - 1
                             /\ Cycle # <<>> /\ Cycle[Len(Cycle)].name \in {"candidate", "baseline"})
=============================================================================
