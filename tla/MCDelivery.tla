------------------------------ MODULE MCDelivery ----------------------------
(* One instance for the two halves of Delivery ART: packets that are carried out *)
(* (MCArchitecturePlan), and reviews of one Landing Unit under one such packet;  *)
(* for the prototype that may come before it (MCPrototype), for the transition   *)
(* between the two (MCTransitionReadiness), for the board the work is tracked on *)
(* (MCArtReadiness), and for a repository it is done in (MCRepositoryActions).   *)
EXTENDS DeliveryReadiness, MCArchitecturePlan, MCPrototype, MCArtReadiness, MCRepositoryActions,
        MCTransitionReadiness

Identity(type, id) == [id |-> id, type |-> type, delivery |-> "delivery", covered |-> {1},
                       digest |-> id]

Case(id, unit, phase) == [id |-> id, unit |-> unit, phase |-> phase, fidelity |-> "live", applies |-> {1}]

\* Unit a owes one case before the merge and one after it; unit b owes one before the merge.
MCArchitecture ==
    Packet("a" :> {1} @@ "b" :> {2} @@ "c" :> {3}, {}, Unscheduled, {}, Roots,
           [g \in {"gate"} |-> Gate("before_implementation", {})], {},
           {Case("before", "a", "merge-ready"), Case("after", "a", "operating-ready"),
            Case("other", "b", "merge-ready")}, {})
    @@ [is |-> Identity("architecture", "plan"), decision |-> "architecture-ready",
        openDecisions |-> {}, conformance |-> TRUE]

MCArchitectures == "plan" :> MCArchitecture

Sound(architecture) ==
    [is |-> Identity("start", "start"), level |-> "implementation-ready", blockers |-> {},
     invalidationComplete |-> TRUE, owners |-> {"repo"}, branches |-> ("repo" :> "base"),
     sources |-> ("repo" :> "base"), required |-> TRUE, architecture |-> architecture]

MCWorkStarts ==
    "sound" :> Sound("plan") @@ "unresolved" :> Sound("missing")
    @@ "blocked" :> [Sound("plan") EXCEPT !.blockers = {"open"}]
    @@ "moved" :> [Sound("plan") EXCEPT !.sources = ("repo" :> "other")]

Entry(result, cases, fidelity, head) ==
    [result |-> result, cases |-> cases, fidelity |-> fidelity, sources |-> ("repo" :> head)]

Entries == {Entry("pass", {"before"}, "live", "head"), Entry("pass", {"before"}, "unit", "head"),
            Entry("pass", {"before", "after"}, "live", "head"), Entry("pass", {"after"}, "live", "head"),
            Entry("fail", {"before"}, "live", "head"), Entry("pass", {"before"}, "live", "other")}

Keys == {<<"tests", "first">>, <<"validations", "second">>}
Evidence == UNION {[K -> Entries] : K \in SUBSET Keys}

ReviewPacket(status, level, evidence, supersedes, merged) ==
    [is |-> Identity("review", "review"), ref |-> status, status |-> status, level |-> level,
     receipts |-> FALSE, kind |-> "merged_pr", author |-> "author", workStart |-> "sound",
     decision |-> "land", rollback |-> "revert", supersedes |-> supersedes,
     repos |-> ("repo" :> [head |-> "head", change |-> "reviewed", merged |-> merged]),
     evidence |-> evidence,
     mapping |-> (1 :> [acceptance |-> "criterion", ids |-> {k[2] : k \in DOMAIN evidence}])]

Requests == [l \in Levels |-> CASE l = "architecture-ready" -> Identity("architecture", "plan")
                               [] l = "implementation-ready" -> Identity("start", "start")
                               [] OTHER -> Identity("review", "review")]

ReviewOf(prior, final) == [prior |-> prior, final |-> final, requests |-> Requests]

Prior(evidence) == ReviewPacket("merge-ready", "merge-ready", evidence, None, FALSE)
Final(evidence) == ReviewPacket("draft", "implementation-ready", evidence, "merge-ready", TRUE)

\* Evidence added, dropped and replaced between review and finalization.
Rewrites == {ReviewOf(Prior(before), Final(after)) : before \in Evidence, after \in Evidence}

\* Otherwise sound reviews with one part changed.
Sufficient == <<"tests", "first">> :> Entry("pass", {"before", "after"}, "live", "head")

Variations ==
    LET prior == Prior(Sufficient)
        final == Final(Sufficient)
    IN {ReviewOf([prior EXCEPT !.workStart = w], [final EXCEPT !.workStart = v]) :
          w \in DOMAIN MCWorkStarts \cup {"missing"}, v \in DOMAIN MCWorkStarts}
       \cup {ReviewOf(p, f) :
          p \in {prior, [prior EXCEPT !.status = "draft"], [prior EXCEPT !.mapping[1].ids = {"unknown"}],
                 [prior EXCEPT !.is.covered = {2}]},
          f \in {final, [final EXCEPT !.supersedes = None], [final EXCEPT !.rollback = "none"],
                 [final EXCEPT !.repos["repo"].head = "other"], [final EXCEPT !.repos["repo"].merged = FALSE],
                 [final EXCEPT !.kind = "draft_pr"], [final EXCEPT !.receipts = TRUE],
                 [final EXCEPT !.mapping[1].acceptance = "weaker"], [final EXCEPT !.is.covered = {2}]}}
       \cup {[ReviewOf(prior, final) EXCEPT !.requests[l].digest = "stale"] : l \in Levels}

MCReviews == Rewrites \cup Variations

\* They share no variable: while one is explored, the others are ones that have ended.
ReviewEnded ==
    /\ review = ReviewOf(Prior(Sufficient), Final(Sufficient))
    /\ decided = [l \in Levels |-> "blocked"]

PlanEnded ==
    /\ plan = MCArchitecture
    /\ started = Items(plan) /\ closed = Items(plan) /\ reached = Items(plan)
    /\ landed = Units(plan)

PrototypeEnded == studio = Nothing.studio /\ call = None /\ applied = <<>> /\ first = 0

BoardEnded == board = <<>> /\ delivery = None /\ receipt = None /\ reviewed = {} /\ edits = 0

RepositoryEnded ==
    /\ repository = Absent /\ decisions = {} /\ done = None /\ judged = None /\ drift = 0

TransitionEnded == transition = None /\ projection = None /\ flaws = {} /\ answer = None /\ clock = 0

MCInit ==
    \/ Init /\ ReviewEnded /\ PrototypeEnded /\ BoardEnded /\ RepositoryEnded /\ TransitionEnded
    \/ ReviewInit /\ PlanEnded /\ PrototypeEnded /\ BoardEnded /\ RepositoryEnded /\ TransitionEnded
    \/ PrototypeInit /\ PlanEnded /\ ReviewEnded /\ BoardEnded /\ RepositoryEnded /\ TransitionEnded
    \/ ArtInit /\ PlanEnded /\ ReviewEnded /\ PrototypeEnded /\ RepositoryEnded /\ TransitionEnded
    \/ RepositoryInit /\ PlanEnded /\ ReviewEnded /\ PrototypeEnded /\ BoardEnded /\ TransitionEnded
    \/ TransitionInit /\ PlanEnded /\ ReviewEnded /\ PrototypeEnded /\ BoardEnded /\ RepositoryEnded

MCNext ==
    \/ Next /\ UNCHANGED <<reviewVars, prototypeVars, artVars, repositoryVars, transitionVars>>
    \/ ReviewNext /\ UNCHANGED <<vars, prototypeVars, artVars, repositoryVars, transitionVars>>
    \/ /\ first # 0 /\ PrototypeNext
       /\ UNCHANGED <<vars, reviewVars, artVars, repositoryVars, transitionVars>>
    \/ /\ board # <<>> /\ ArtNext
       /\ UNCHANGED <<vars, reviewVars, prototypeVars, repositoryVars, transitionVars>>
    \/ /\ judged # None /\ RepositoryNext
       /\ UNCHANGED <<vars, reviewVars, prototypeVars, artVars, transitionVars>>
    \/ /\ transition # None /\ TransitionNext
       /\ UNCHANGED <<vars, reviewVars, prototypeVars, artVars, repositoryVars>>

MCSpec == MCInit /\ [][MCNext]_<<vars, reviewVars, prototypeVars, artVars, repositoryVars, transitionVars>>
=============================================================================
