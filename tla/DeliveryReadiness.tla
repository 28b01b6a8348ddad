-------------------------- MODULE DeliveryReadiness -------------------------
(***************************************************************************)
(* What WGCF decides about one Delivery ART work start and its Review      *)
(* Packet: the evaluations of delivery_art_readiness.py.                   *)
(*                                                                         *)
(* A decision sees immutable artifacts only: the subject, and what it      *)
(* refers to by content.  A reference is resolved (a function below has it *)
(* in its domain) or it is not.  Every finding of the code is a blocker,   *)
(* so a decision is ready exactly when there is none.                      *)
(*                                                                         *)
(* An evidence list keyed by section and id, and a list keyed by a         *)
(* repository or a work item, is a function.                               *)
(***************************************************************************)
EXTENDS ArchitecturePlan

CONSTANTS
    Reviews,       \* [prior, final, requests]: a Review Packet, the candidate for its
                   \* finalization, and what callers ask for at each level
    WorkStarts,    \* the work-start records the registry holds, by reference
    Architectures  \* the architecture packets the registry holds, by reference

ASSUME DecisionAssumption == None \notin {"ready", "blocked"}

VARIABLES
    review,  \* the review in hand
    decided  \* the outcome of each readiness level evaluated so far

reviewVars == <<review, decided>>

Levels == {"architecture-ready", "implementation-ready", "merge-ready", "operating-ready"}
Sections == {"tests", "validations", "runtime_and_live", "security_and_trust"}

When(condition, finding) == IF condition THEN {finding} ELSE {}
-----------------------------------------------------------------------------
(* The parts of a Review Packet p.                                         *)

\* _EVIDENCE_SECTIONS; changed surfaces are evidence without a result.
Records(p) == {k \in DOMAIN p.evidence : k[1] \in Sections}
Passing(p) == {k \in Records(p) : p.evidence[k].result = "pass"}

\* Passing evidence of the case at its planned fidelity.
Satisfied(p, case) ==
    \E k \in Passing(p) : case.id \in p.evidence[k].cases /\ p.evidence[k].fidelity = case.fidelity

\* delivery_art_conformance_cases_for_readiness: the Landing Units of exactly this scope.
ScopeUnits(arch, covered) == {u \in Units(arch) : arch.units[u].items = covered}

CasesFor(arch, covered, phase) ==
    IF ~arch.conformance THEN {}
    ELSE {c \in arch.cases : c.unit \in ScopeUnits(arch, covered) /\ c.phase = phase}
-----------------------------------------------------------------------------
(* The findings of each level.                                             *)

\* _evaluate: the request names the subject that was resolved.
SubjectFindings(request, subject) ==
    When(request.id # subject.id, "subject-id-mismatch")
    \cup When(request.type # subject.type, "subject-type-mismatch")
    \cup When(request.delivery # subject.delivery, "delivery-scope-mismatch")
    \cup When(request.covered # subject.covered, "work-item-coverage-mismatch")
    \cup When(request.digest # subject.digest, "subject-digest-mismatch")

ArchitectureFindings(arch) ==
    When(arch.decision # "architecture-ready", "architecture-decision-blocked")
    \cup When(\E d \in arch.openDecisions : d # "resolved", "architecture-decisions-open")
    \cup When(arch.conformance /\ arch.cases = {}, "conformance-plan-empty")

ResolvedArchitecture(start) ==
    IF start.required /\ start.architecture \in DOMAIN Architectures
      THEN Architectures[start.architecture] ELSE None

WorkStartFindings(start) ==
    When(start.level # "implementation-ready" \/ start.blockers # {}, "implementation-readiness-blocked")
    \cup When(~start.invalidationComplete, "invalidation-set-incomplete")
    \cup When(start.owners # DOMAIN start.branches \/ start.owners # DOMAIN start.sources,
              "landing-unit-source-scope-mismatch")
    \cup When(\E r \in DOMAIN start.branches :
                 r \notin DOMAIN start.sources \/ start.branches[r] # start.sources[r],
              "landing-unit-base-mismatch")
    \cup When(start.required /\ (\/ ResolvedArchitecture(start) = None
                                 \/ ResolvedArchitecture(start).decision # "architecture-ready"),
              "architecture-binding-invalid")

EvidenceFindings(p) ==
    When(\E k \in Records(p) : p.evidence[k].result = "fail", "required-evidence-failed")
    \cup When(\E k \in Passing(p) : \E r \in DOMAIN p.evidence[k].sources :
                 r \notin DOMAIN p.repos \/ p.repos[r].head # p.evidence[k].sources[r],
              "evidence-source-head-mismatch")
    \cup When(DOMAIN p.mapping # p.is.covered, "acceptance-coverage-incomplete")
    \cup When(\E i \in DOMAIN p.mapping : ~(p.mapping[i].ids \subseteq {k[2] : k \in DOMAIN p.evidence}),
              "acceptance-evidence-unresolved")

ConformanceFindings(p, arch, phase) ==
    When(arch.conformance /\ Cardinality(ScopeUnits(arch, p.is.covered)) # 1, "conformance-owner-unresolved")
    \cup When(\E c \in CasesFor(arch, p.is.covered, phase) : ~Satisfied(p, c), "conformance-evidence-incomplete")

\* Conformance is looked at when the architecture a work start names is resolved.
PhaseFindings(p, start, phase) ==
    LET arch == ResolvedArchitecture(start)
    IN IF arch = None THEN {} ELSE ConformanceFindings(p, arch, phase)

MergeFindings(p) ==
    When(p.status # "merge-ready" \/ p.level # "merge-ready", "merge-state-invalid")
    \cup EvidenceFindings(p)
    \cup IF \/ p.workStart \notin DOMAIN WorkStarts
            \/ WorkStarts[p.workStart].level # "implementation-ready"
           THEN {"work-start-binding-invalid"}
           ELSE LET start == WorkStarts[p.workStart]
                IN WorkStartFindings(start) \cup PhaseFindings(p, start, "merge-ready")

\* Mutant: evidence may be replaced by other evidence of the same id.
PreservedById(p, prior) ==
    /\ <<p.is.id, p.is.delivery, p.is.covered, p.author, p.workStart>>
         = <<prior.is.id, prior.is.delivery, prior.is.covered, prior.author, prior.workStart>>
    /\ DOMAIN prior.evidence \subseteq DOMAIN p.evidence

\* _evaluate_predecessor_preservation: what was reviewed is in the candidate as it was.
Preserved(p, prior) ==
    /\ <<p.is.id, p.is.delivery, p.is.covered, p.author, p.workStart>>
         = <<prior.is.id, prior.is.delivery, prior.is.covered, prior.author, prior.workStart>>
    /\ p.decision = prior.decision /\ p.rollback = prior.rollback
    /\ \A r \in DOMAIN prior.repos :
          /\ r \in DOMAIN p.repos
          /\ p.repos[r].head = prior.repos[r].head /\ p.repos[r].change = prior.repos[r].change
    /\ \A k \in DOMAIN prior.evidence : k \in DOMAIN p.evidence /\ p.evidence[k] = prior.evidence[k]
    /\ \A i \in DOMAIN prior.mapping :
          /\ i \in DOMAIN p.mapping
          /\ p.mapping[i].acceptance = prior.mapping[i].acceptance
          /\ prior.mapping[i].ids \subseteq p.mapping[i].ids

\* The candidate names the packet it supersedes; `prior` is what that reference resolves to.
OperatingFindings(p, prior) ==
    When(p.status # "draft" \/ p.level # "implementation-ready" \/ p.receipts,
         "finalization-candidate-state-invalid")
    \cup When(p.kind \notin {"merged_pr", "approved_direct_land"}, "merged-evidence-missing")
    \cup When(\E r \in DOMAIN p.repos : ~p.repos[r].merged, "merge-commit-missing")
    \cup EvidenceFindings(p)
    \cup (IF p.supersedes # prior.ref \/ prior.status # "merge-ready"
            THEN {"merge-ready-predecessor-missing"}
            ELSE When(~Preserved(p, prior), "merge-ready-evidence-rewritten"))
    \cup (IF p.workStart \notin DOMAIN WorkStarts
            THEN {"work-start-binding-invalid"}
            ELSE PhaseFindings(p, WorkStarts[p.workStart], "operating-ready"))

\* _readiness_outcome.
Outcome(findings) == IF findings = {} THEN "ready" ELSE "blocked"
-----------------------------------------------------------------------------
(* Evaluations, in whatever order callers ask for them.                    *)

\* A decision at a level, for a request that names its subject.
Decide(level, findings) ==
    /\ decided[level] = None
    /\ decided' = [decided EXCEPT ![level] = Outcome(findings)]
    /\ UNCHANGED review

\* What a caller asks for at a level is compared with what the reference resolves to.
Asked(level, subject) == SubjectFindings(review.requests[level], subject.is)

DecideArchitecture ==
    \E ref \in DOMAIN Architectures :
        Decide("architecture-ready",
               Asked("architecture-ready", Architectures[ref]) \cup ArchitectureFindings(Architectures[ref]))

DecideWorkStart ==
    \E ref \in DOMAIN WorkStarts \cap {review.prior.workStart} :
        Decide("implementation-ready",
               Asked("implementation-ready", WorkStarts[ref]) \cup WorkStartFindings(WorkStarts[ref]))

DecideMerge ==
    Decide("merge-ready", Asked("merge-ready", review.prior) \cup MergeFindings(review.prior))

DecideOperating ==
    Decide("operating-ready",
           Asked("operating-ready", review.final) \cup OperatingFindings(review.final, review.prior))

ReviewInit ==
    /\ review \in Reviews
    /\ decided = [l \in Levels |-> None]

ReviewNext == DecideArchitecture \/ DecideWorkStart \/ DecideMerge \/ DecideOperating

ReviewSpec == ReviewInit /\ [][ReviewNext]_reviewVars
-----------------------------------------------------------------------------
(* Properties.                                                             *)

\* A packet is merge-ready only upon a work start that is implementation-ready itself, whether
\* or not that was ever asked (_evaluate_merge_ready evaluates the work start again).
MergeBuildsOnStart ==
    /\ decided["merge-ready"] = "ready"
    /\ decided["implementation-ready"] = "blocked"
    => Asked("implementation-ready", WorkStarts[review.prior.workStart]) # {}

\* What made a packet merge-ready is in the packet it is finalized as: every case due before the
\* merge is still satisfied, from evidence of the reviewed heads, although the operating-ready
\* evaluation looks at the cases of its own phase only (_evaluate_predecessor_preservation).
ReviewSurvives ==
    LET final == review.final
        prior == review.prior
    IN /\ decided["merge-ready"] = "ready"
       /\ decided["operating-ready"] = "ready"
       => /\ WorkStarts[final.workStart].required =>
                 LET arch == ResolvedArchitecture(WorkStarts[final.workStart])
                 IN \A c \in CasesFor(arch, final.is.covered, "merge-ready") : Satisfied(final, c)
          /\ \A k \in Passing(prior) : k \in Passing(final)
          /\ \A r \in DOMAIN prior.repos : final.repos[r].merged /\ final.repos[r].head = prior.repos[r].head

\* The readiness levels add up.
ReadinessIsCumulative == MergeBuildsOnStart /\ ReviewSurvives
=============================================================================
