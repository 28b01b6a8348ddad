--------------------------- MODULE ControlledProof --------------------------
(***************************************************************************)
(* Controlled commissioning proofs: the controlled path of                 *)
(* validation_readiness_activity and the evidence files of                 *)
(* controlled_proof.py.                                                    *)
(*                                                                         *)
(* An attempt of an activity is authorized against the mounted owner       *)
(* context, binds its request, runs the owner or proves a boundary, checks *)
(* the context again and records a receipt in three files, each written    *)
(* atomically, under a lock of the activity: activity result, observation, *)
(* receipt.  A worker may die between any two of them, and a later attempt *)
(* finds what is left.                                                     *)
(*                                                                         *)
(* Owner execution is what OwnerActivity is shown to implement: one        *)
(* write-once result per idempotency key, which attempts then are told.    *)
(* One scenario execution of one mounted context is modelled, and its      *)
(* requests, which share the idempotency key.                              *)
(***************************************************************************)
CONSTANTS
    Attempts,
    Activities,
    Requests,
    Runs,
    ActivityOf, \* the Temporal activity id of an attempt
    RequestOf,  \* the request it carries, as its digest
    RunOf,      \* the workflow run of a request
    Scenarios,
    None

ResultStatuses == {"ready", "blocked", "timed-out"}
Result == [attempt : Attempts, status : ResultStatuses]

VARIABLES
    scenario,     \* the scenario being commissioned
    context,      \* the mounted owner context: "current" or "revoked"
    expired,      \* whether its authorization has expired
    run,          \* scenario-bindings: the run the scenario is bound to, or None
    request,      \* bindings: the request the idempotency key is bound to, or None
    evidence,     \* the committed owner result of the idempotency key
    answered,     \* the results owner execution returned
    results,      \* activity-results of each activity, or None
    observations, \* observations of each activity, or None
    receipts,     \* receipts of each activity, or None
    told,         \* the receipts attempts were given, by activity
    attempt       \* the activity coroutine of each attempt

owned == <<evidence, answered>>
files == <<results, observations, receipts, told>>
vars == <<scenario, context, expired, run, request, evidence, answered,
          results, observations, receipts, told, attempt>>

Owner == INSTANCE WriteOnce WITH
    Keys <- {"key"}, Values <- Result, written <- evidence, told <- answered

OwnerResults == {"passed", "failed", "blocked", "cancelled"}
Kinds == {"activity-result-recorded", "boundary-enforced", "activity-cancellation-fenced",
          "unexpected-activity-cancellation", "authorization-expired-before-result"}
Instants == {"before", "after"} \* relative to the expiry of the authorization

\* What an attempt asks to be recorded, and what observation and receipt then say.
Observation == [result : OwnerResults, kind : Kinds, activity : Result \cup {None}, at : Instants]
Draft == [result : OwnerResults, kind : Kinds, activity : Result \cup {None},
          at : Instants \cup {None}]

\* Every attempt is of an activity and carries a request of a run; None is none of them.
ASSUME ControlledAssumption ==
    /\ ActivityOf \in [Attempts -> Activities]
    /\ RequestOf \in [Attempts -> Requests]
    /\ RunOf \in [Requests -> Runs]
    /\ None \notin Requests \cup Runs \cup Result \cup Observation

Outcomes == {"pending", "answered", "retryable", "rejected", "cancelled", "lost"}
Attempt == [pc : {"scheduled", "begin", "owner", "check", "stamp", "record", "observe", "seal", "reply", "ended"},
            purpose : {"result", "cancelled", "boundary", "expired"},
            answer : Result \cup {None},
            draft : Draft \cup {None},
            outcome : Outcomes]

Init ==
    /\ scenario \in Scenarios
    /\ context = "current"
    /\ expired = FALSE
    /\ run = None
    /\ request = None
    /\ Owner!Init
    /\ results = [k \in Activities |-> None]
    /\ observations = [k \in Activities |-> None]
    /\ receipts = [k \in Activities |-> None]
    /\ told = [k \in Activities |-> {}]
    /\ attempt = [a \in Attempts |-> [pc |-> "scheduled", purpose |-> "result", answer |-> None,
                                      draft |-> None, outcome |-> "pending"]]
-----------------------------------------------------------------------------
At(a, pc) == attempt[a].pc = pc
Becomes(a, r) == attempt' = [attempt EXCEPT ![a] = r]
End(a, outcome) == Becomes(a, [attempt[a] EXCEPT !.pc = "ended", !.outcome = outcome])
Now == IF expired THEN "after" ELSE "before"

\* How an attempt ends once its receipt is recorded; a boundary denies or is unavailable.
OutcomesOf(purpose) ==
    CASE purpose = "result" -> {"answered"}
      [] purpose = "cancelled" -> {"cancelled"}
      [] purpose = "boundary" -> {"rejected", "retryable"}
      [] purpose = "expired" -> {"rejected"}

\* Mutant: the scenario is not looked at.
ReadyPasses(result) == IF result.status = "ready" THEN "passed" ELSE "blocked"

\* owner_result_for_activity_result
OwnerResult(result) ==
    CASE result.status = "ready" /\ scenario = "nominal" -> "passed"
      [] result.status = "ready" /\ scenario # "nominal" -> "blocked"
      [] result.status = "blocked" -> "blocked"
      [] OTHER -> "failed"

NewDraft(result, kind, activity, at) ==
    [result |-> result, kind |-> kind, activity |-> activity, at |-> at]

\* The draft of an attempt that passed the second context check; recorded_at is taken
\* under the lock unless a cancellation took it before.
DraftOf(a) ==
    CASE attempt[a].purpose = "result" ->
           NewDraft(OwnerResult(attempt[a].answer), "activity-result-recorded",
                    attempt[a].answer, None)
      [] attempt[a].purpose = "boundary" ->
           NewDraft("passed", "boundary-enforced", None, None)
      [] attempt[a].purpose = "expired" ->
           NewDraft("failed", "authorization-expired-before-result", None, None)
      [] OTHER ->
           IF scenario = "cancellation" /\ ~expired
           THEN NewDraft("passed", "activity-cancellation-fenced", None, Now)
           ELSE NewDraft("cancelled", "unexpected-activity-cancellation", None, Now)
-----------------------------------------------------------------------------
(* Authorization, binding and owner execution.                             *)

\* Mutant: a binding is written over without being compared.
AnyBinding(a) == TRUE

Compatible(a) ==
    /\ run \in {None, RunOf[RequestOf[a]]}
    /\ request \in {None, RequestOf[a]}

\* authorize and bind_controlled_proof_request; an attempt that started in time may be
\* admitted after the expiry.  A boundary scenario runs no owner.
Admit(a) ==
    /\ At(a, "scheduled")
    /\ context = "current"
    /\ Compatible(a)
    /\ run' = RunOf[RequestOf[a]]
    /\ request' = RequestOf[a]
    /\ IF scenario = "boundary"
       THEN Becomes(a, [attempt[a] EXCEPT !.pc = "check", !.purpose = "boundary"])
       ELSE Becomes(a, [attempt[a] EXCEPT !.pc = "begin"])
    /\ UNCHANGED <<scenario, context, expired, owned, files>>

\* A revoked context, a start after the expiry, or another binding.
Deny(a) ==
    /\ At(a, "scheduled")
    /\ context = "revoked" \/ expired \/ ~Compatible(a)
    /\ End(a, "rejected")
    /\ UNCHANGED <<scenario, context, expired, run, request, owned, files>>

\* The worker dies between the scenario binding and the key binding.
AdmitInterrupted(a) ==
    /\ At(a, "scheduled")
    /\ context = "current"
    /\ Compatible(a)
    /\ run' = RunOf[RequestOf[a]]
    /\ End(a, "lost")
    /\ UNCHANGED <<scenario, context, expired, request, owned, files>>

\* No result is committed yet, so an owner process is started.
OwnerStarts(a) ==
    /\ At(a, "begin")
    /\ evidence["key"] = None
    /\ Becomes(a, [attempt[a] EXCEPT !.pc = "owner"])
    /\ UNCHANGED <<scenario, context, expired, run, request, owned, files>>

OwnerCommits(a, s) ==
    /\ At(a, "owner")
    /\ Owner!Write("key", [attempt |-> a, status |-> s])
    /\ UNCHANGED <<scenario, context, expired, run, request, files, attempt>>

\* A result committed earlier, or the one that came first.
OwnerReturns(a) ==
    /\ attempt[a].pc \in {"begin", "owner"}
    /\ Owner!Tell("key")
    /\ Becomes(a, [attempt[a] EXCEPT !.pc = "check", !.answer = evidence["key"]])
    /\ UNCHANGED <<scenario, context, expired, run, request, files>>

\* From the commit on nothing is awaited, so nothing is cancelled.
Awaits(a) ==
    At(a, "owner") /\ ~(evidence["key"] # None /\ evidence["key"].attempt = a)

\* Cancelled once its process group is stopped; nothing it staged is returned.
OwnerCancelled(a) ==
    /\ Awaits(a)
    /\ Becomes(a, [attempt[a] EXCEPT !.pc = "check", !.purpose = "cancelled"])
    /\ UNCHANGED <<scenario, context, expired, run, request, owned, files>>

OwnerFails(a) ==
    /\ Awaits(a)
    /\ \E outcome \in {"retryable", "rejected"} : End(a, outcome)
    /\ UNCHANGED <<scenario, context, expired, run, request, owned, files>>
-----------------------------------------------------------------------------
(* The receipt.                                                            *)

\* _assert_controlled_context_remains_current
Check(a) ==
    /\ At(a, "check")
    /\ \/ context = "revoked" /\ End(a, "rejected")
       \/ /\ context = "current"
          /\ Becomes(a, [attempt[a] EXCEPT !.pc = "stamp",
                                           !.purpose = IF expired THEN "expired" ELSE @])
    /\ UNCHANGED <<scenario, context, expired, run, request, owned, files>>

Stamp(a) ==
    /\ At(a, "stamp")
    /\ Becomes(a, [attempt[a] EXCEPT !.pc = "record", !.draft = DraftOf(a)])
    /\ UNCHANGED <<scenario, context, expired, run, request, owned, files>>

Key(a) == ActivityOf[a]
Asks(a) == attempt[a].draft
\* Mutant: receipts are recorded without the lock.
NeverLocked(k) == FALSE

\* flock of the activity's receipt, held until the receipt is written or the holder dies.
Locked(k) == \E b \in Attempts : Key(b) = k /\ attempt[b].pc \in {"observe", "seal"}

\* A receipt or observation left by an earlier attempt says what this one asks for.
Matches(a, o) ==
    /\ o.result = Asks(a).result
    /\ o.kind = Asks(a).kind
    /\ o.activity = Asks(a).activity
    /\ o.result = "passed" => o.at = "before"

\* The stored activity result is the one this attempt asks to be recorded, if any.
SameActivity(a) == results[Key(a)] = Asks(a).activity

\* commit_controlled_proof_owner_receipt finds the receipt of an earlier attempt.
Replay(a) ==
    /\ At(a, "record") /\ ~Locked(Key(a))
    /\ receipts[Key(a)] # None
    /\ Matches(a, receipts[Key(a)]) /\ SameActivity(a)
    /\ Becomes(a, [attempt[a] EXCEPT !.pc = "reply", !.draft = receipts[Key(a)]])
    /\ UNCHANGED <<scenario, context, expired, run, request, owned, files>>

\* It finds the observation of an attempt that was interrupted, and completes it.
Resume(a) ==
    /\ At(a, "record") /\ ~Locked(Key(a))
    /\ receipts[Key(a)] = None /\ observations[Key(a)] # None
    /\ Matches(a, observations[Key(a)]) /\ SameActivity(a)
    /\ Becomes(a, [attempt[a] EXCEPT !.pc = "seal", !.draft = observations[Key(a)]])
    /\ UNCHANGED <<scenario, context, expired, run, request, owned, files>>

\* recorded_at: given by a cancellation, else taken under the lock.
RecordedAt(a) == IF Asks(a).at = None THEN Now ELSE Asks(a).at
Late(a) == Asks(a).result = "passed" /\ RecordedAt(a) = "after"

\* Mutant: an activity result without an observation is overlooked by other outcomes.
Orphaned(a) == Asks(a).activity # None /\ results[Key(a)] \notin {None, Asks(a).activity}

\* An activity result left without an observation is not the one asked to be recorded.
Unbound(a) == results[Key(a)] \notin {None, Asks(a).activity}

\* It finds neither: the instant is taken and the activity result, if any, is written.
Record(a) ==
    /\ At(a, "record") /\ ~Locked(Key(a))
    /\ receipts[Key(a)] = None /\ observations[Key(a)] = None
    /\ ~Late(a) /\ ~Unbound(a)
    /\ results' = [results EXCEPT ![Key(a)] = IF Asks(a).activity = None THEN @ ELSE Asks(a).activity]
    /\ Becomes(a, [attempt[a] EXCEPT !.pc = "observe", !.draft = [Asks(a) EXCEPT !.at = RecordedAt(a)]])
    /\ UNCHANGED <<scenario, context, expired, run, request, owned, observations, receipts, told>>

\* A record of another outcome, an activity result of another one, or a late pass.
Refuse(a) ==
    LET receipt == receipts[Key(a)]
        observation == observations[Key(a)]
    IN
    /\ At(a, "record") /\ ~Locked(Key(a))
    /\ \/ receipt # None /\ ~(Matches(a, receipt) /\ SameActivity(a))
       \/ receipt = None /\ observation # None /\ ~(Matches(a, observation) /\ SameActivity(a))
       \/ receipt = None /\ observation = None /\ (Late(a) \/ Unbound(a))
    /\ End(a, "rejected")
    /\ UNCHANGED <<scenario, context, expired, run, request, owned, files>>

Observe(a) ==
    /\ At(a, "observe")
    /\ observations' = [observations EXCEPT ![Key(a)] = Asks(a)]
    /\ Becomes(a, [attempt[a] EXCEPT !.pc = "seal"])
    /\ UNCHANGED <<scenario, context, expired, run, request, owned, results, receipts, told>>

Seal(a) ==
    /\ At(a, "seal")
    /\ receipts' = [receipts EXCEPT ![Key(a)] = Asks(a)]
    /\ Becomes(a, [attempt[a] EXCEPT !.pc = "reply"])
    /\ UNCHANGED <<scenario, context, expired, run, request, owned, results, observations, told>>

\* The activity returns its result, is cancelled, or raises what it had to.
Reply(a) ==
    /\ At(a, "reply")
    /\ told' = [told EXCEPT ![Key(a)] = @ \cup {Asks(a)}]
    /\ \E outcome \in OutcomesOf(attempt[a].purpose) : End(a, outcome)
    /\ UNCHANGED <<scenario, context, expired, run, request, owned, results, observations, receipts>>

\* The worker dies, or a file operation fails while a receipt is recorded.
Interrupted(a) ==
    /\ \/ attempt[a].pc \notin {"scheduled", "ended"} /\ End(a, "lost")
       \/ attempt[a].pc \in {"record", "observe", "seal"} /\ End(a, "retryable")
    /\ UNCHANGED <<scenario, context, expired, run, request, owned, files>>
-----------------------------------------------------------------------------
(* The surroundings.                                                       *)

\* The authorization expires; the mounted context is removed, replaced or put back.
Expire ==
    /\ expired' = TRUE
    /\ UNCHANGED <<scenario, context, run, request, owned, files, attempt>>

Remount ==
    /\ context' \in {"current", "revoked"}
    /\ UNCHANGED <<scenario, expired, run, request, owned, files, attempt>>

AttemptNext(a) ==
    \/ Admit(a) \/ Deny(a) \/ AdmitInterrupted(a)
    \/ OwnerStarts(a) \/ OwnerReturns(a) \/ OwnerCancelled(a) \/ OwnerFails(a)
    \/ \E s \in ResultStatuses : OwnerCommits(a, s)
    \/ Check(a) \/ Stamp(a)
    \/ Replay(a) \/ Resume(a) \/ Record(a) \/ Refuse(a) \/ Observe(a) \/ Seal(a) \/ Reply(a)
    \/ Interrupted(a)

Next == Expire \/ Remount \/ \E a \in Attempts : AttemptNext(a)

Spec == Init /\ [][Next]_vars
-----------------------------------------------------------------------------
\* A receipt has the observation and the activity result its evidence references name,
\* whichever attempts wrote the three files and wherever they were interrupted
\* (commit_controlled_proof_owner_receipt, controlled_proof.py 474-621).
ReceiptIsBacked ==
    \A k \in Activities :
        /\ receipts[k] # None => observations[k] = receipts[k]
        /\ observations[k] # None => results[k] = observations[k].activity

\* A passing receipt was recorded before the expiry, for what its scenario is to prove: a
\* ready committed result, a cancellation, or a boundary (activities.py 297-317,
\* controlled_proof.py 647-663).
PassIsEarned ==
    \A k \in Activities :
        receipts[k] # None /\ receipts[k].result = "passed" =>
            /\ receipts[k].at = "before"
            /\ \/ scenario = "nominal" /\ evidence["key"] # None
                  /\ evidence["key"] = receipts[k].activity
                  /\ evidence["key"].status = "ready"
               \/ scenario = "cancellation" /\ receipts[k].kind = "activity-cancellation-fenced"
               \/ scenario = "boundary" /\ receipts[k].activity = None

\* Every attempt that got past admission, on whatever worker, carries the one request and
\* run the key and the scenario are bound to (bind_controlled_proof_request).
AttemptsAreBound ==
    \A a \in Attempts :
        attempt[a].pc \notin {"scheduled", "ended"} =>
            request = RequestOf[a] /\ run = RunOf[RequestOf[a]]

\* Each activity has one receipt, written once and told to every attempt that succeeds.
Receipts == INSTANCE WriteOnce WITH
    Keys <- Activities, Values <- Observation, written <- receipts, told <- told

ReceiptsAreWrittenOnce == Receipts!Init /\ [][Receipts!Next]_<<receipts, told>>
=============================================================================
