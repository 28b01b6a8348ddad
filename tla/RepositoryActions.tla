------------------------- MODULE RepositoryActions --------------------------
(***************************************************************************)
(* Decisions about a repository and what is done on them:                  *)
(* repository_custody_readiness.py judges how a repository comes into      *)
(* custody, repository_lifecycle_readiness.py what is done with it then.   *)
(*                                                                         *)
(* A decision is about the state its request tells.  Nobody holds the      *)
(* repository still until the workflow owner carries the decision out:     *)
(* other decisions are carried out and the provider's own users archive    *)
(* and unarchive.  So a decision names obligations and human gates, and    *)
(* the workflow owner, which is external, fulfils those and no others.     *)
(*                                                                         *)
(* How decisions are stored and replayed is RequestLedger.                 *)
(***************************************************************************)
EXTENDS Naturals, FiniteSets, NoValue

CONSTANTS
    Owners,       \* workspace owners
    Targets,      \* where a repository may be asked for: [provider, host, scope, visibility]
    Assessments,  \* impacts and their dispositions: [findings, blocking, disposition]
    Flaws,        \* what may be wrong with the references of one request: sets of their labels
    MaxRequests,  \* bound: requests judged
    MaxDrift      \* bound: changes made at the provider by others

\* A workspace has an owner.
ASSUME OwnersAssumption == Owners # {}

VARIABLES
    repository, \* the provider's truth and the workspace's record of it
    decisions,  \* what was allowed and not carried out
    done,       \* the last decision carried out, and the repository before and after
    judged,
    drift

repositoryVars == <<repository, decisions, done, judged, drift>>

ProviderActions == {"archive-provider", "unarchive-provider"}
Capabilities == {"link-existing", "provision-new"}
Transfer == "transfer-workspace-custody"
-----------------------------------------------------------------------------
(* Requests, as the schemas let them through.                              *)

Absent == [provider |-> "absent", version |-> 0, custody |-> "unrecorded", owner |-> None,
           record |-> "active", revision |-> 0, created |-> 0]

\* stale: the policy reference is of an older authority; tainted: references that may carry a
\* credential.
CustodyRequests ==
    [action : Capabilities \cup {"observe-existing"}, state : {repository}, target : Targets,
     stale : BOOLEAN, approved : BOOLEAN, tainted : Flaws]

NoTarget == [owner |-> None, provider |-> None, record |-> None]

LifecycleTargets(action) ==
    CASE action = Transfer -> {[NoTarget EXCEPT !.owner = o] : o \in Owners}
      [] action = "archive-provider" -> {[NoTarget EXCEPT !.provider = "archived"]}
      [] action = "unarchive-provider" -> {[NoTarget EXCEPT !.provider = "active"]}
      [] action = "retire-workspace-record" -> {[NoTarget EXCEPT !.record = "retired"]}
      [] action = "restore-workspace-record" -> {[NoTarget EXCEPT !.record = "active"]}

\* An action starts from the state it is to change.
Applicable(action, state) ==
    CASE action = "archive-provider" -> state.provider = "active"
      [] action = "unarchive-provider" -> state.provider = "archived"
      [] action \in {Transfer, "retire-workspace-record"} -> state.record = "active"
      [] action = "restore-workspace-record" -> state.record = "retired"

\* A requester may not have read the provider's version.
LifecycleRequests ==
    UNION {[action : {action}, state : {repository, [repository EXCEPT !.version = None]},
            target : LifecycleTargets(action), on : {"github", "other"}, impact : Assessments,
            reverses : {action \in {"unarchive-provider", "restore-workspace-record"}},
            stale : BOOLEAN, tainted : Flaws] :
           action \in {a \in ProviderActions \cup
                          {Transfer, "retire-workspace-record", "restore-workspace-record"} :
                       repository.custody # "unrecorded" /\ Applicable(a, repository)}}

If(condition, code) == IF condition THEN {code} ELSE {}
-----------------------------------------------------------------------------
(* RepositoryCustodyReadinessService._evaluate                             *)

OutOfScope(request) ==
    /\ request.action = "provision-new"
    /\ \/ request.target.provider # "github" \/ request.target.host # "github.com"
       \/ request.target.scope \notin {"personal", "organization"}
       \/ request.target.scope = "personal" /\ request.target.visibility = "internal"

CustodyFindings(request) ==
    If(request.action \notin Capabilities, "custody-action-not-active")
    \cup If(OutOfScope(request), "custody-provisioning-provider-not-active")
    \cup If(request.stale, "custody-policy-binding-stale")
    \cup If(~request.approved, "custody-approval-missing")
    \cup (request.tainted \cap {"operator", "approval", "credential"})

\* Mutant: creating is an obligation like any other.
CreateAgain(request) ==
    {"verify-exact-operator-approval", "require-fresh-provider-readback", "emit-terminal-custody-receipt"}

CustodyObligations(request) ==
    {"verify-exact-operator-approval", "require-fresh-provider-readback", "emit-terminal-custody-receipt"}
    \cup IF request.action = "provision-new"
           THEN {"create-provider-once", "verify-applied-provisioning-settings", "never-compensate-with-delete"}
           ELSE {"preserve-immutable-provider-identity"}

CustodyDecision(request) ==
    LET allowed == CustodyFindings(request) = {} IN
    [request |-> request, outcome |-> IF allowed THEN "allowed" ELSE "denied",
     next |-> IF ~allowed THEN "stop"
              ELSE IF request.action = "provision-new" THEN "create-provider" ELSE "read-provider",
     target |-> None,
     gates |-> {},
     obligations |-> IF allowed THEN CustodyObligations(request)
                     ELSE {"preserve-current-custody-state", "emit-terminal-custody-receipt"}]
-----------------------------------------------------------------------------
(* RepositoryLifecycleReadinessService._evaluate                           *)

ProviderFindings(request) ==
    If(request.on # "github", "repository-lifecycle-provider-not-active")
    \cup If(request.state.provider = "unavailable", "repository-lifecycle-provider-unavailable")
    \cup If(request.state.version = None, "repository-lifecycle-provider-version-missing")

LifecycleFindings(request) ==
    If(request.stale, "repository-lifecycle-policy-binding-stale")
    \cup request.tainted
    \cup If(request.impact.blocking > request.impact.findings, "repository-lifecycle-impact-count-invalid")
    \cup (IF request.action \in ProviderActions THEN ProviderFindings(request) ELSE {})
    \cup If(request.action = Transfer /\ request.target.owner = request.state.owner,
            "repository-lifecycle-target-owner-unchanged")

HumanGates(request) ==
    {"exact-operator-approval"}
    \cup (IF request.action = Transfer THEN {"source-owner-acceptance", "target-owner-acceptance"}
          ELSE IF request.action \in ProviderActions THEN {"governed-provider-credential-binding"}
          ELSE {})

\* Mutant: the custody version is taken to cover the provider as well.
CustodyVersionOnly(request) ==
    {"preserve-immutable-repository-identity", "verify-current-custody-version",
     "do-not-mutate-downstream-consumers", "append-terminal-lifecycle-receipt", "preserve-immutable-history"}
    \cup If(request.action \notin ProviderActions, "do-not-mutate-provider-state")

Obligations(request) ==
    {"preserve-immutable-repository-identity", "verify-current-custody-version",
     "do-not-mutate-downstream-consumers", "append-terminal-lifecycle-receipt", "preserve-immutable-history"}
    \cup (IF request.action \in ProviderActions
            THEN {"verify-current-provider-version", "require-fresh-provider-readback"}
            ELSE {"do-not-mutate-provider-state"})
    \cup If(request.reverses, "preserve-reversed-receipt")

\* A deferral is looked at before the findings are.
LifecycleDecision(request) ==
    LET deferred == request.impact.disposition = "defer"
        allowed == ~deferred /\ LifecycleFindings(request) = {}
    IN [request |-> request,
        outcome |-> IF deferred THEN "requires-action" ELSE IF allowed THEN "allowed" ELSE "denied",
        next |-> IF deferred THEN "request-correction" ELSE IF ~allowed THEN "stop"
                 ELSE IF request.action = Transfer THEN "apply-workspace-custody" ELSE request.action,
        target |-> IF allowed THEN request.target ELSE None,
        gates |-> HumanGates(request),
        obligations |-> Obligations(request)]
-----------------------------------------------------------------------------
(* The repository and those who change it.                                 *)

RepositoryInit ==
    /\ repository \in {Absent, [Absent EXCEPT !.provider = "active", !.version = 1]}
    /\ decisions = {}
    /\ done = None
    /\ judged = 0
    /\ drift = 0

Concluded(decision) ==
    /\ judged < MaxRequests
    /\ judged' = judged + 1
    /\ decisions' = IF decision.next \in {"stop", "request-correction"} THEN decisions
                    ELSE decisions \cup {decision}
    /\ UNCHANGED <<repository, done, drift>>

JudgeCustody == \E request \in CustodyRequests : Concluded(CustodyDecision(request))
JudgeLifecycle == \E request \in LifecycleRequests : Concluded(LifecycleDecision(request))

\* What the workflow owner verifies, when it must.
Fulfilled(d) ==
    /\ "verify-current-custody-version" \in d.obligations => repository.revision = d.request.state.revision
    /\ "verify-current-provider-version" \in d.obligations => repository.version = d.request.state.version
    /\ "create-provider-once" \in d.obligations => repository.created = 0
    /\ d.next = "read-provider" => repository.provider # "absent"

\* The owner of a repository is the one its approval names; any will do here.
Keeper == CHOOSE o \in Owners : TRUE

InCustody(d, custody) == [repository EXCEPT !.custody = custody, !.owner = Keeper, !.revision = @ + 1]

CarriedOut(d) ==
    CASE d.next = "create-provider" ->
           [InCustody(d, "provisioned") EXCEPT !.provider = "active", !.version = @ + 1, !.created = @ + 1]
      [] d.next = "read-provider" -> InCustody(d, "linked")
      [] d.next = "apply-workspace-custody" ->
           [repository EXCEPT !.owner = d.target.owner, !.revision = @ + 1]
      [] d.next \in ProviderActions -> [repository EXCEPT !.provider = d.target.provider, !.version = @ + 1]
      [] OTHER -> [repository EXCEPT !.record = d.target.record, !.revision = @ + 1]

\* Custody is assigned once: the repository's record is looked up before a custody decision is
\* carried out.  A creation whose answer was lost is at the provider and in no record.
Assigns(d) == d.next \in {"create-provider", "read-provider"}

CarryOut(d, answered) ==
    /\ Fulfilled(d)
    /\ Assigns(d) => repository.custody = "unrecorded"
    /\ answered \/ d.next = "create-provider"
    /\ repository' = IF answered THEN CarriedOut(d)
                     ELSE [CarriedOut(d) EXCEPT !.custody = "unrecorded", !.owner = None, !.revision = 0]
    /\ done' = [decision |-> d, before |-> repository, after |-> repository',
                confirmed |-> d.gates \cup (d.obligations \cap {"verify-exact-operator-approval"})]
    /\ decisions' = IF answered THEN decisions \ {d} ELSE decisions
    /\ UNCHANGED <<judged, drift>>

Drift(state) ==
    /\ drift < MaxDrift
    /\ repository.provider \in {"active", "archived"} /\ repository.provider # state
    /\ repository' = [repository EXCEPT !.provider = state, !.version = @ + 1]
    /\ drift' = drift + 1
    /\ UNCHANGED <<decisions, done, judged>>

RepositoryNext ==
    \/ JudgeCustody
    \/ JudgeLifecycle
    \/ \E d \in decisions, answered \in BOOLEAN : CarryOut(d, answered)
    \/ \E state \in {"active", "archived"} : Drift(state)

RepositorySpec == RepositoryInit /\ [][RepositoryNext]_repositoryVars
-----------------------------------------------------------------------------
\* What contracts/repository-custody/repository-custody.yaml:248-256 has confirmed before an
\* action, as the decisions spell it (the provider's version is in the state that was judged).
ConfirmationRules(action) ==
    IF action \in Capabilities THEN {"verify-exact-operator-approval"}
    ELSE {"exact-operator-approval"}
         \cup If(action \in ProviderActions, "governed-provider-credential-binding")
         \cup (IF action = Transfer THEN {"source-owner-acceptance", "target-owner-acceptance"} ELSE {})

(* Who carries a decision out needs to know no more than the decision tells.  Whatever other    *)
(* decisions were carried out, and whatever others did at the provider, since the judgement:    *)
(* fulfilling the obligations and gates the decision names, and no others, changes only a       *)
(* repository in which what was judged still holds, after the confirmations the contract asks   *)
(* for; a workspace transfer moves it to another owner; and a repository is created at most     *)
(* once, though the answer of the creation may be lost (repository_custody_readiness.py:279-322, *)
(* repository_lifecycle_readiness.py:294-326).                                                  *)
ObligationsSuffice ==
    done # None =>
      LET d == done.decision
          was == d.request.state
          before == done.before
      IN /\ d.outcome = "allowed"
         /\ ConfirmationRules(d.request.action) \subseteq done.confirmed
         /\ ~Assigns(d) => /\ before.custody = was.custody
                           /\ before.owner = was.owner
                           /\ before.record = was.record
         /\ d.next \in ProviderActions => before.provider = was.provider
         /\ d.next = "apply-workspace-custody" => done.after.owner # before.owner
         /\ done.after.created <= 1
=============================================================================
