---------------------------- MODULE ValidationRun ----------------------------
(***************************************************************************)
(* One validation, from the catalog to the receipt: the catalog is turned  *)
(* into a manifest, the manifest and a target are planned, and the plan is *)
(* executed check by check while time passes.                              *)
(*                                                                         *)
(* A scope is <<kind, name>>; the name "*" of a declared scope stands for  *)
(* its wildcard.  A path is the sequence of its parts.                     *)
(***************************************************************************)
EXTENDS Naturals, Sequences, SequencesExt, FiniteSetsExt, NoValue

CONSTANTS
    Validations, \* what is asked: [manifest, catalog, target, tier, receipts, waivers, supplied, profile, approved]
    Deliveries,  \* the scopes of a concrete delivery
    Secrets,     \* names of environment variables that look like a secret's
    RetryCap,    \* the retries the validation.run budget allows, per profile
    Outputs,     \* amounts of output of a command
    OutputCap,   \* the amount the validation.run budget allows
    MaxNow       \* bound: the clock

\* The tiers.
Rank == [smoke |-> 10, scoped |-> 20, full |-> 30, release |-> 40]

\* Tiers are those of the planner, names are strings, dates and freshness are numbers of seconds
\* where there are any, finitely many receipts are retained, and None is no outcome.
ASSUME ValidationAssumption ==
    /\ None # "success"
    /\ \A q \in Validations :
          /\ q.tier \in DOMAIN Rank
          /\ IsFiniteSet(q.receipts)
          /\ \A x \in q.receipts : x.captured \in Nat \cup {None} /\ x.freshness \in Nat \cup {None}
          /\ q.catalog = None => \A v \in Range(q.manifest.validators) :
                v.tier \in DOMAIN Rank /\ v.id \in STRING /\ v.reuse.freshness \in Nat \cup {None}
          /\ q.catalog # None => \A e \in Range(q.catalog.entries) : e.tier \in DOMAIN Rank /\ e.id \in STRING

VARIABLES
    validation, \* what is asked
    now,        \* the clock
    plan,       \* the plan: [at, checks, waived, outcome], or None
    attempts,   \* what commands did: a sequence of [validator, end, output]
    results,    \* a status for each check dealt with
    receipt     \* the outcome recorded, or None

validationVars == <<validation, now, plan, attempts, results, receipt>>
-----------------------------------------------------------------------------
(* The catalog.                                                            *)

\* Entries that may not be invoked are left out of the manifest.
Admitted(e) ==
    /\ e.enabled /\ validation.profile \in e.profiles /\ e.kind # "support-library"
    /\ ~e.mutates /\ ~e.materializes
    /\ e.executable # None /\ e.template \in {"plain", "art"} /\ ~e.shell
    /\ e.directory # None /\ e.scopes # {}

FromEntry(e) ==
    [id |-> e.id, owner |-> e.owner, tier |-> e.tier, scopes |-> e.scopes, template |-> e.template,
     executable |-> e.executable, environment |-> e.environment, required |-> TRUE, type |-> e.type,
     reuse |-> [safe |-> FALSE, freshness |-> None, invalidate |-> TRUE],
     authorities |-> {a.id : a \in validation.catalog.authorities},
     policy |-> [class |-> e.class, approved |-> validation.approved, executables |-> {e.executable},
                 directory |-> e.directory, roots |-> {<<>>}, allowed |-> {}, blocked |-> {},
                 retries |-> e.retries, budget |-> e.budget, fail |-> e.fail, profile |-> validation.profile]]

\* Entries, validators and the checks of a plan are numbered in the order of their names; a number
\* that is left out stays unused.
Manifest ==
    IF validation.catalog = None THEN validation.manifest
    ELSE LET entries == validation.catalog.entries
         IN [validators |-> [i \in {j \in DOMAIN entries : Admitted(entries[j])} |-> FromEntry(entries[i])],
             repos |-> validation.catalog.repos, components |-> validation.catalog.components,
             authorities |-> validation.catalog.authorities]

Validators == Range(Manifest.validators)
-----------------------------------------------------------------------------
(* The planner.                                                            *)

ScopeMatches(declared, target) ==
    declared = target \/ (declared[2] = "*" /\ declared[1] = target[1])

ScopesMatch(declared, targets) == \E d \in declared, t \in targets : ScopeMatches(d, t)

Under(path, sources) == \E s \in sources : IsPrefix(s, path)

\* The profile whose directory a path is in.
ProfileOf(path) ==
    LET at == {i \in 1..Len(path) - 2 : path[i] = "dev-integration" /\ path[i + 1] = "profiles"}
    IN IF at = {} THEN {} ELSE {<<"profile", path[Min(at) + 2]>>}

\* The scopes a target stands for; a changed file stands for what it belongs to, and in a manifest
\* of one repository it belongs to that.
Candidates ==
    LET target == validation.target
        repos == {r \in Manifest.repos : Cardinality(Manifest.repos) = 1 \/ Under(target.path, r.paths)}
        components == {c \in Manifest.components : Under(target.path, c.paths)}
    IN {target.scope} \cup
       (IF target.scope[1] # "changed-file" THEN {}
        ELSE {<<"repo", r.id>> : r \in repos} \cup {<<"component", c.id>> : c \in components}
             \cup UNION {x.impacts : x \in repos \cup components} \cup ProfileOf(target.path))

TierIncluded(v, tier) == Rank[v.tier] <= Rank[tier]

ScopeIncluded(v, tier) ==
    \/ tier \in {"full", "release"}
    \/ ScopesMatch(v.scopes, Candidates) \/ <<"workspace", "workspace">> \in v.scopes

\* A command with the number of a delivery in it needs a target that has one.
CommandFits(v) == v.template = "plain" \/ (v.template = "art" /\ validation.target.scope \in Deliveries)

Included(v, tier) == TierIncluded(v, tier) /\ ScopeIncluded(v, tier) /\ CommandFits(v)

Waiving(v, at) ==
    {w \in validation.waivers :
        /\ w.validator = v.id /\ w.id # None /\ w.status \in {"active", "approved", "current"}
        /\ w.expires = None \/ w.expires >= at}

Covers(x) ==
    \/ x.target \in Candidates \/ validation.target.scope \in x.scopes
    \/ ScopesMatch(x.scopes, Candidates)

\* Only authorities with a digest count.
AuthoritiesMatch(x, v) ==
    v.reuse.invalidate =>
        \A a \in Manifest.authorities :
            a.id \in v.authorities /\ a.digest # None => <<a.id, a.digest>> \in x.digests

\* Mutant: a receipt without an expiry never ages.
FreshOrUndated(x, v, at) == IF x.expires # None THEN x.expires >= at ELSE x.captured # None

Fresh(x, v, at) ==
    LET freshness == IF v.reuse.freshness # None THEN v.reuse.freshness
                     ELSE IF x.freshness # None THEN x.freshness ELSE 0
    IN IF x.expires # None THEN x.expires >= at
       ELSE x.captured # None /\ x.captured + freshness >= at

Reusable(x, v, at) ==
    /\ x.validator = v.id /\ x.status \in {"success", "passed", "valid"}
    /\ Covers(x) /\ x.tier \in DOMAIN Rank /\ Rank[x.tier] >= Rank[validation.tier]
    /\ AuthoritiesMatch(x, v) /\ Fresh(x, v, at)

\* The newest receipt that can be reused; one that says no date is the oldest.
Reused(v, at) ==
    LET found == {x \in validation.receipts : v.reuse.safe /\ Reusable(x, v, at)}
        date(x) == IF x.captured = None THEN 0 ELSE x.captured
    IN IF found = {} THEN None ELSE CHOOSE x \in found : \A y \in found : date(y) <= date(x)

PlanOutcome(checks, waived) ==
    IF validation.tier = "release" /\ \E a \in Manifest.authorities : a.status # "current"
      THEN "blocked"
    ELSE IF DOMAIN checks # {} \/ waived # {} THEN "planned"
    ELSE "no_matching_validators"

\* Of the validators that the tier selects for the target, those that are not waived are checks.
PlanAt(at) ==
    LET validators == Manifest.validators
        selected == {i \in DOMAIN validators : Included(validators[i], validation.tier)}
        chosen == {i \in selected : Waiving(validators[i], at) = {}}
        checks == [i \in chosen |-> [validator |-> validators[i], receipt |-> Reused(validators[i], at)]]
        waived == {validators[i] : i \in selected \ chosen}
    IN [at |-> at, checks |-> checks, waived |-> waived, outcome |-> PlanOutcome(checks, waived)]

BuildPlan ==
    /\ plan = None
    /\ plan' = PlanAt(now)
    /\ UNCHANGED <<validation, now, attempts, results, receipt>>
-----------------------------------------------------------------------------
(* The execution.                                                          *)

ApprovalRequired == {"authority-mutation", "host-control", "live-runtime-read", "materialized-output-write",
                     "network", "privileged", "remote-read", "structured-record-write"}
Supported == ApprovalRequired \cup {"local-artifact-write", "local-read-only", "workspace-cross-repo-read"}

VariableAllowed(k, p) ==
    /\ k \notin p.blocked
    /\ p.allowed # {} => k \in p.allowed
    /\ k \in Secrets => k \in p.allowed

\* _parse_command, _working_directory and _safety_block_reason.  A directory is a path in the
\* repository, or None when it is outside it or missing.
MayRun(v) ==
    LET p == v.policy
    IN /\ v.executable # None /\ p.directory # None
       /\ p.class \in Supported /\ (p.class \in ApprovalRequired => p.approved)
       /\ p.executables # {} => v.executable \in p.executables
       /\ p.roots # {} => \E r \in p.roots : IsPrefix(r, p.directory)
       /\ \A k \in validation.supplied \cup v.environment : VariableAllowed(k, p)

MaxAttempts(v) == 1 + Min({v.policy.retries, RetryCap[v.policy.profile]})
Budget(v) == IF v.policy.budget = None THEN OutputCap ELSE Min({v.policy.budget, OutputCap})

Left == DOMAIN plan.checks \ DOMAIN results
Executing == plan # None /\ receipt = None /\ plan.outcome = "planned" /\ Left # {}

\* The check that is dealt with now: the first that is left.
InTurn(i) == Executing /\ i \in Left /\ \A j \in Left : i <= j

Conclude(i, status) ==
    /\ results' = [j \in DOMAIN results \cup {i} |-> IF j = i THEN status ELSE results[j]]
    /\ UNCHANGED <<validation, now, plan, attempts, receipt>>

Skip(i) == InTurn(i) /\ plan.checks[i].receipt # None /\ Conclude(i, "skipped_fresh_receipt")

\* Another check type than a command, or a command that may not be run.
Refuse(i) ==
    /\ InTurn(i) /\ plan.checks[i].receipt = None
    /\ plan.checks[i].validator.type # "command" \/ ~MayRun(plan.checks[i].validator)
    /\ Conclude(i, "blocked")

Runs(v) == {n \in DOMAIN attempts : attempts[n].validator = v.id}
Passed(v) == \E n \in Runs(v) : attempts[n].end = "exit zero" /\ \A m \in Runs(v) : m <= n

Running(i, v) ==
    /\ InTurn(i) /\ plan.checks[i].receipt = None /\ plan.checks[i].validator = v
    /\ v.type = "command" /\ MayRun(v)

\* The command exits, is stopped at its timeout, or cannot be started.
Attempt(i, v) ==
    /\ Running(i, v)
    /\ ~Passed(v) /\ Cardinality(Runs(v)) < MaxAttempts(v)
    /\ \E end \in {"exit zero", "exit other", "timeout", "not started"}, output \in Outputs :
          attempts' = Append(attempts, [validator |-> v.id, end |-> end, output |-> output])
    /\ UNCHANGED <<validation, now, plan, results, receipt>>

\* The budget counts the output of all attempts.
OverBudget(v) == MapThenSumSet(LAMBDA n : attempts[n].output, Runs(v)) > Budget(v)

Finish(i, v) ==
    /\ Running(i, v)
    /\ Passed(v) \/ Cardinality(Runs(v)) = MaxAttempts(v)
    /\ Conclude(i, IF Passed(v) /\ ~(v.policy.fail /\ OverBudget(v)) THEN "success" ELSE "failure")

Outcome ==
    IF plan.outcome = "blocked" THEN "blocked"
    ELSE IF plan.outcome # "planned" \/ DOMAIN results = {} THEN "operator_review_required"
    ELSE IF \E i \in DOMAIN results : plan.checks[i].validator.required /\ results[i] \in {"failure", "blocked"}
      THEN "failure"
    ELSE IF "blocked" \in Range(results) THEN "blocked" ELSE "success"

Record ==
    /\ plan # None /\ receipt = None /\ ~Executing
    /\ receipt' = Outcome
    /\ UNCHANGED <<validation, now, plan, attempts, results>>

Pass ==
    /\ now < MaxNow /\ receipt = None
    /\ now' = now + 1
    /\ UNCHANGED <<validation, plan, attempts, results, receipt>>

ValidationInit ==
    /\ validation \in Validations
    /\ now = 1 /\ plan = None /\ attempts = <<>> /\ results = [i \in {} |-> None] /\ receipt = None

ValidationNext ==
    \/ BuildPlan \/ Record \/ Pass
    \/ plan # None /\ \E i \in DOMAIN plan.checks :
          LET v == plan.checks[i].validator
          IN Skip(i) \/ Refuse(i) \/ Attempt(i, v) \/ Finish(i, v)

ValidationSpec == ValidationInit /\ [][ValidationNext]_validationVars
-----------------------------------------------------------------------------
(* Properties.                                                             *)

\* What a receipt must say to stand for a check of a plan made at some instant.
Vouches(x, v, at) ==
    /\ x.validator = v.id /\ x.status \in {"success", "passed", "valid"}
    /\ v.reuse.safe /\ Rank[x.tier] >= Rank[validation.tier]
    /\ x.expires # None => x.expires >= at
    /\ x.expires = None => x.captured # None
                           /\ x.captured + Max({0} \cup ({v.reuse.freshness, x.freshness} \ {None})) >= at
    /\ v.reuse.invalidate =>
         \A a \in Manifest.authorities : a.id \in v.authorities /\ a.digest # None => <<a.id, a.digest>> \in x.digests

\* What stands for a check when the outcome is success: a waiver or a matching receipt that had
\* not run out when the plan was made, or a command that ended with exit code zero in this run.
Answered(v) ==
    \/ Waiving(v, plan.at) # {}
    \/ \E i \in DOMAIN results :
          /\ plan.checks[i].validator = v
          /\ results[i] # "blocked"
          /\ results[i] = "skipped_fresh_receipt" => Vouches(plan.checks[i].receipt, v, plan.at)
          /\ v.required /\ results[i] # "skipped_fresh_receipt" => Passed(v)

\* A command that may be run is one of the manifest, approved where its class asks for that, is
\* handed no secret by a name nobody listed, and its catalog entry mutates nothing.
Permitted(a) ==
    \E v \in Validators :
       /\ v.id = a.validator
       /\ v.policy.class \in ApprovalRequired => v.policy.approved
       /\ (validation.supplied \cup v.environment) \cap Secrets \subseteq v.policy.allowed
       /\ validation.catalog # None =>
             \E e \in Range(validation.catalog.entries) : e.id = v.id /\ ~e.mutates /\ validation.profile \in e.profiles

\* A receipt that says success vouches for every validator that the tier asked for, or a lower
\* one, selects for the target; in a release for current authorities too; and for something.
\* Whatever the outcome, no command was run that the catalog leaves out, or its policy forbids,
\* or that is handed a secret by a name nobody listed.
SuccessIsEarned ==
    /\ receipt = "success" =>
          /\ DOMAIN results # {}
          /\ validation.tier = "release" => \A a \in Manifest.authorities : a.status = "current"
          /\ \A tier \in DOMAIN Rank, v \in Validators :
                Rank[tier] <= Rank[validation.tier] /\ Included(v, tier) => Answered(v)
    /\ \A a \in Range(attempts) : Permitted(a)
=============================================================================
