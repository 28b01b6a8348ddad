---------------------------- MODULE OwnerActivity ---------------------------
(***************************************************************************)
(* The validation readiness activity: validation_readiness_activity of     *)
(* apps/worker activities.py, the owner process of owner_execution.py, and *)
(* the staging and committed evidence of orchestration_activities.py.      *)
(*                                                                         *)
(* Temporal may deliver the activity again, and several activities may use *)
(* one idempotency key, so several attempts of several worker processes    *)
(* can be under way for it.  Each runs owner work in a process group of    *)
(* its own, which survives the death of its worker, and in a staging       *)
(* directory of its own.  One idempotency key is modelled: different keys  *)
(* share no lock and no file.                                              *)
(*                                                                         *)
(* Code between two awaits runs to its end: a cancellation is delivered    *)
(* only while the owner process is started, awaited or stopped.            *)
(***************************************************************************)
EXTENDS Naturals

CONSTANTS
    Attempts,
    Requests,
    RequestOf, \* the request an attempt carries, as its digest
    Statuses,  \* status codes of a bounded result
    None,
    MaxWrites  \* bound: writes of one process group to its evidence

\* A result names the attempt that produced it, so no two attempts' agree.
Result == [attempt : Attempts, status : Statuses]

ASSUME ActivityAssumption ==
    /\ RequestOf \in [Attempts -> Requests]
    /\ None \notin Attempts /\ None \notin Result
    /\ MaxWrites \in Nat

VARIABLES
    attempt,  \* the activity coroutine of each attempt
    owner,    \* the process group of each attempt and what its leader said
    staging,  \* the evidence directory of each attempt
    committed \* the attempt whose directory was renamed to committed/, or None

activityVars == <<attempt, owner, staging, committed>>

Attempt == [pc : {"scheduled", "spawn", "wait", "fence", "commit", "report", "ended"},
            \* why the process group is being stopped
            cause : {"none", "finished", "deadline", "cancelled", "broken", "broken-cancelled"},
            outcome : {"pending", "answered", "retryable", "rejected", "cancelled", "lost"},
            answer : Result \cup {None}]

\* "exited": the leader is gone and a descendant of it is left.
Owner == [group : {"none", "running", "exited", "gone"},
          response : {"none", "completed", "rejected", "failed"}]

Staging == [place : {"none", "staging", "committed", "quarantine", "removed"},
            writes : 0 .. MaxWrites,
            cached : Result \cup {None}]

Init ==
    /\ attempt = [a \in Attempts |-> [pc |-> "scheduled", cause |-> "none",
                                      outcome |-> "pending", answer |-> None]]
    /\ owner = [a \in Attempts |-> [group |-> "none", response |-> "none"]]
    /\ staging = [a \in Attempts |-> [place |-> "none", writes |-> 0, cached |-> None]]
    /\ committed = None
-----------------------------------------------------------------------------
At(a, pc) == attempt[a].pc = pc
Go(a, pc) == attempt' = [attempt EXCEPT ![a].pc = pc]
Fence(a, cause) == attempt' = [attempt EXCEPT ![a].pc = "fence", ![a].cause = cause]
End(a, outcome) == attempt' = [attempt EXCEPT ![a].pc = "ended", ![a].outcome = outcome]
Answer(a, result) ==
    attempt' = [attempt EXCEPT ![a].pc = "ended", ![a].outcome = "answered", ![a].answer = result]

Place(a, place) == staging' = [staging EXCEPT ![a].place = place]

\* The rename to quarantine/ fails when a late process still holds the directory.
Quarantine(a) == Place(a, "quarantine") \/ UNCHANGED staging

Fail(a, outcome) == End(a, outcome) /\ Quarantine(a)

\* Mutant: the cached result of any request is taken.
BoundToAnyone(a) == TRUE

\* The committed result, read under the lock of the key, is bound to one request.
CommittedResult == staging[committed].cached
BoundToMine(a) == RequestOf[committed] = RequestOf[a]

\* _process_group_exists finds no process of the group.
GroupGone(a) == owner[a].group = "gone"
-----------------------------------------------------------------------------
(* The owner process: execute_validation_readiness_activity in staging.    *)

\* Runs, receipts and ledger of the attempt; open files follow a renamed directory.
WriteEvidence(a) ==
    /\ owner[a].group \in {"running", "exited"}
    /\ staging[a].writes < MaxWrites
    /\ staging' = [staging EXCEPT ![a].writes = @ + 1]
    /\ UNCHANGED <<attempt, owner, committed>>

NewResult(a, s) == [attempt |-> a, status |-> s]

\* The fresh staging cache is empty, so the owner always runs, then records once.
RecordResult(a, s) ==
    /\ owner[a].group = "running"
    /\ staging[a].writes > 0
    /\ staging[a].cached = None
    /\ staging' = [staging EXCEPT ![a].cached = NewResult(a, s)]
    /\ UNCHANGED <<attempt, owner, committed>>

\* The leader reports its result or its classified failure, or dies without either.
LeaderExits(a) ==
    /\ owner[a].group = "running"
    /\ \E response \in {"completed", "rejected", "failed"}, group \in {"exited", "gone"} :
        /\ response = "completed" => staging[a].cached # None
        /\ owner' = [owner EXCEPT ![a] = [group |-> group, response |-> response]]
    /\ UNCHANGED <<attempt, staging, committed>>

DescendantsExit(a) ==
    /\ owner[a].group = "exited"
    /\ owner' = [owner EXCEPT ![a].group = "gone"]
    /\ UNCHANGED <<attempt, staging, committed>>
-----------------------------------------------------------------------------
(* The activity coroutine.                                                 *)

\* load_committed_validation_readiness_result, then a fresh staging directory.
Begin(a) ==
    /\ At(a, "scheduled")
    /\ \/ /\ committed = None
          /\ Go(a, "spawn")
          /\ Place(a, "staging")
       \/ /\ committed # None /\ BoundToMine(a)
          /\ Answer(a, CommittedResult)
          /\ UNCHANGED staging
       \/ /\ committed # None /\ ~BoundToMine(a)
          /\ End(a, "rejected")
          /\ UNCHANGED staging
    /\ UNCHANGED <<owner, committed>>

Spawn(a) ==
    /\ At(a, "spawn")
    /\ Go(a, "wait")
    /\ owner' = [owner EXCEPT ![a].group = "running"]
    /\ UNCHANGED <<staging, committed>>

\* The spawn fails, outlasts the deadline or is cancelled; asyncio leaves no process.
SpawnEnds(a) ==
    /\ At(a, "spawn")
    /\ \E outcome \in {"retryable", "cancelled"} : Fail(a, outcome)
    /\ UNCHANGED <<owner, committed>>

\* communicate returned: the leader exited.
Finish(a) ==
    /\ At(a, "wait")
    /\ owner[a].group \in {"exited", "gone"}
    /\ Fence(a, "finished")
    /\ UNCHANGED <<owner, staging, committed>>

\* The deadline passes, Temporal cancels, or the wait itself raises.
Interrupt(a, cause) ==
    /\ At(a, "wait")
    /\ Fence(a, cause)
    /\ UNCHANGED <<owner, staging, committed>>

\* The shielded cleanup goes on; the cancellation is remembered.
CancelDuringFence(a) ==
    /\ At(a, "fence")
    /\ attempt[a].cause \in {"finished", "deadline", "broken"}
    /\ Fence(a, IF attempt[a].cause = "broken" THEN "broken-cancelled" ELSE "cancelled")
    /\ UNCHANGED <<owner, staging, committed>>

\* What follows the stop of the process group, confirmed or not.
Conclude(a) ==
    \/ /\ attempt[a].cause = "finished" /\ owner[a].response = "completed"
       /\ Go(a, "commit")
       /\ UNCHANGED staging
    \/ attempt[a].cause = "finished" /\ owner[a].response = "rejected" /\ Fail(a, "rejected")
    \/ attempt[a].cause = "finished" /\ owner[a].response = "failed" /\ Fail(a, "retryable")
    \/ attempt[a].cause \in {"deadline", "broken"} /\ Fail(a, "retryable")
    \/ attempt[a].cause \in {"cancelled", "broken-cancelled"} /\ Fail(a, "cancelled")

\* Mutant: only the leader is awaited, not its descendants.
LeaderGone(a) ==
    /\ At(a, "fence")
    /\ owner[a].group \in {"exited", "gone"}
    /\ Conclude(a)
    /\ UNCHANGED <<owner, committed>>

FenceConfirmed(a) ==
    /\ At(a, "fence")
    /\ GroupGone(a)
    /\ Conclude(a)
    /\ UNCHANGED <<owner, committed>>

\* Mutant: the group is polled without a bound.
FenceAwaited(a) ==
    /\ At(a, "fence")
    /\ ~GroupGone(a)
    /\ UNCHANGED activityVars

\* Signals were sent and the confirmation timed out: an OSError, except where
\* the wait itself had raised and a cancellation came during the stop.
FenceUnconfirmed(a) ==
    /\ At(a, "fence")
    /\ ~GroupGone(a)
    /\ \/ attempt[a].cause = "broken-cancelled" /\ Fail(a, "cancelled")
       \/ attempt[a].cause # "broken-cancelled" /\ Fail(a, "retryable")
    /\ UNCHANGED <<owner, committed>>

\* Mutant: the winner under the lock is not looked up again.
CommitUnchecked(a) ==
    /\ At(a, "commit")
    /\ committed' = a
    /\ Place(a, "committed")
    /\ Go(a, "report")
    /\ UNCHANGED owner

\* commit_validation_readiness_staging_result, in one holding of the key's lock.
Commit(a) ==
    /\ At(a, "commit")
    /\ \/ /\ committed = None
          /\ committed' = a
          /\ Place(a, "committed")
          /\ Go(a, "report")
       \/ /\ committed # None /\ BoundToMine(a)
          /\ Go(a, "report")
          /\ UNCHANGED <<staging, committed>>
       \/ /\ committed # None /\ ~BoundToMine(a)
          /\ Fail(a, "rejected")
          /\ UNCHANGED committed
    /\ UNCHANGED owner

\* The directory of an attempt that came second is removed; then the answer is returned.
Report(a) ==
    /\ At(a, "report")
    /\ Answer(a, CommittedResult)
    /\ IF committed = a THEN UNCHANGED staging ELSE Place(a, "removed")
    /\ UNCHANGED <<owner, committed>>

RemovalFails(a) ==
    /\ At(a, "report")
    /\ committed # a
    /\ Fail(a, "retryable")
    /\ UNCHANGED <<owner, committed>>

\* The worker process dies; the process group it started is not in its session.
Crash(a) ==
    /\ attempt[a].pc \in {"spawn", "wait", "fence", "commit", "report"}
    /\ End(a, "lost")
    /\ UNCHANGED <<owner, staging, committed>>

OwnerStep(a) ==
    \/ WriteEvidence(a)
    \/ \E s \in Statuses : RecordResult(a, s)
    \/ LeaderExits(a)
    \/ DescendantsExit(a)

WorkStep(a) ==
    \/ Spawn(a)
    \/ SpawnEnds(a)
    \/ Finish(a)
    \/ \E cause \in {"deadline", "cancelled", "broken"} : Interrupt(a, cause)
    \/ CancelDuringFence(a)
    \/ FenceConfirmed(a)
    \/ FenceUnconfirmed(a)
    \/ Commit(a)
    \/ Report(a)
    \/ RemovalFails(a)
    \/ Crash(a)

ActivityNext == \E a \in Attempts : Begin(a) \/ WorkStep(a) \/ OwnerStep(a)

ActivitySpec == Init /\ [][ActivityNext]_activityVars

\* What the event loop and its timers bring about in a worker that lives: a spawn
\* ends or succeeds, a wait ends by its deadline, the stop of a group is bounded.
\* Nothing is assumed of the owner process.
Progress(a) ==
    \/ Spawn(a)
    \/ Interrupt(a, "deadline")
    \/ FenceConfirmed(a)
    \/ FenceUnconfirmed(a)
    \/ Commit(a)
    \/ Report(a)

ActivityFairness == \A a \in Attempts : WF_activityVars(Progress(a))
-----------------------------------------------------------------------------
TypeOK ==
    /\ attempt \in [Attempts -> Attempt]
    /\ owner \in [Attempts -> Owner]
    /\ staging \in [Attempts -> Staging]
    /\ committed \in Attempts \cup {None}

\* Evidence has authority only when complete and when no process is left that could
\* write it, and one directory has it (activities.py 331-388, README "grants canonical
\* evidence authority by atomic rename only after the complete process group is
\* confirmed absent").
CommittedIsSettled ==
    \A a \in Attempts :
        /\ staging[a].place = "committed" <=> committed = a
        /\ committed = a => GroupGone(a) /\ staging[a].cached # None

\* Every attempt that succeeds, whichever worker ran it and however often it was
\* delivered, returns the committed result of its own request
\* (commit_validation_readiness_staging_result, load_committed_...).
AnswersAreCommitted ==
    \A a \in Attempts :
        attempt[a].answer # None =>
            /\ committed # None
            /\ attempt[a].answer = CommittedResult
            /\ RequestOf[committed] = RequestOf[a]

\* Committed evidence is never replaced and never written again: not by a retry, not by
\* a late process of any attempt (README "cannot mutate committed evidence during a
\* Temporal retry").
EvidenceIsFinal ==
    [][committed # None => /\ committed' = committed
                           /\ staging'[committed] = staging[committed]]_activityVars

\* A cancellation is acknowledged only after the process group of the attempt is gone
\* (docs/operations/operator-surface.md 769-770).
CancellationIsFenced ==
    \A a \in Attempts :
        attempt[a].outcome = "cancelled" => owner[a].group \in {"none", "gone"}

\* An attempt that started in a worker that lives ends, whatever its process group does
\* (the bounded deadline and stop of _run_owner_execution).
EveryAttemptEnds == \A a \in Attempts : At(a, "spawn") ~> At(a, "ended")

\* The committed evidence of the key is a write-once record of a result.
Told == {attempt[a].answer : a \in Attempts} \ {None}
Evidence == INSTANCE WriteOnce WITH
    Keys <- {"result"},
    Values <- Result,
    written <- [k \in {"result"} |-> IF committed = None THEN None ELSE CommittedResult],
    told <- [k \in {"result"} |-> Told]

\* The staging and commit protocol implements WriteOnce (orchestration_activities.py 306-343).
ImplementsWriteOnce == Evidence!Spec
=============================================================================
