------------------------- MODULE OwnerActivityProofs ------------------------
(***************************************************************************)
(* Proofs about the activity and its evidence, for every set of attempts,  *)
(* requests and status codes and any number of writes of the owners.       *)
(***************************************************************************)
EXTENDS OwnerActivity, TLAPS

\* An attempt that has not committed has no authority yet.
NotYetCommitted ==
    \A a \in Attempts :
        attempt[a].pc \in {"scheduled", "spawn", "wait", "fence", "commit"} => committed # a

\* Before the owner process is started there is none.
NotYetStarted ==
    \A a \in Attempts : attempt[a].pc \in {"scheduled", "spawn"} => owner[a].group = "none"

\* A leader that reported completion recorded its result first.
CompletedIsRecorded ==
    \A a \in Attempts : owner[a].response = "completed" => staging[a].cached # None

\* Only a complete result of a process group that is gone is brought to the commit.
CommitIsSettled ==
    \A a \in Attempts : At(a, "commit") => GroupGone(a) /\ staging[a].cached # None

\* A result is reported only once one of the same request has authority.
ReportIsBound ==
    \A a \in Attempts :
        At(a, "report") => committed # None /\ RequestOf[committed] = RequestOf[a]

\* The inductive invariant.
Inductive ==
    /\ TypeOK
    /\ NotYetCommitted
    /\ NotYetStarted
    /\ CompletedIsRecorded
    /\ CommitIsSettled
    /\ ReportIsBound
    /\ CommittedIsSettled
    /\ AnswersAreCommitted

-----------------------------------------------------------------------------
(* Type correctness.                                                       *)

\* A fresh result is a result.
LEMMA NewResultTyped ==
  ASSUME NEW a \in Attempts, NEW s \in Statuses
  PROVE  NewResult(a, s) \in Result
BY DEF NewResult, Result

\* A step of the coroutine within its phases keeps the attempts typed.
LEMMA PhaseTyped ==
  ASSUME attempt \in [Attempts -> Attempt], NEW a \in Attempts,
         \/ \E pc \in {"spawn", "wait", "commit", "report"} : Go(a, pc)
         \/ \E cause \in {"finished", "deadline", "cancelled", "broken", "broken-cancelled"} :
               Fence(a, cause)
         \/ \E outcome \in {"retryable", "rejected", "cancelled", "lost"} : End(a, outcome)
         \/ \E result \in Result \cup {None} : Answer(a, result)
  PROVE  attempt' \in [Attempts -> Attempt]
BY DEF Go, Fence, End, Answer, Attempt

\* A directory that is moved or removed is a directory.
LEMMA PlaceTyped ==
  ASSUME staging \in [Attempts -> Staging], NEW a \in Attempts,
         \/ \E place \in {"staging", "committed", "removed"} : Place(a, place)
         \/ Quarantine(a)
  PROVE  staging' \in [Attempts -> Staging]
BY DEF Place, Quarantine, Staging

\* An attempt that fails moves its directory away at most.
LEMMA FailTyped ==
  ASSUME TypeOK, NEW a \in Attempts,
         NEW outcome \in {"retryable", "rejected", "cancelled"}, Fail(a, outcome)
  PROVE  attempt' \in [Attempts -> Attempt] /\ staging' \in [Attempts -> Staging]
BY PhaseTyped, PlaceTyped DEF TypeOK, Fail

\* The committed result is a result once there is one.
LEMMA CommittedTyped ==
  ASSUME TypeOK, committed # None
  PROVE  CommittedResult \in Result \cup {None}
BY DEF TypeOK, CommittedResult, Staging

\* The owner process keeps the types.
LEMMA OwnerTyped ==
  ASSUME TypeOK, NEW a \in Attempts, OwnerStep(a)
  PROVE  TypeOK'
<1>1. CASE WriteEvidence(a)
  <2>1. staging[a].writes \in 0 .. MaxWrites /\ staging[a].writes < MaxWrites
    BY <1>1 DEF WriteEvidence, TypeOK, Staging
  <2>2. staging[a].writes + 1 \in 0 .. MaxWrites
    BY <2>1, ActivityAssumption
  <2> QED
    BY <1>1, <2>2 DEF WriteEvidence, TypeOK, Staging
<1>2. ASSUME NEW s \in Statuses, RecordResult(a, s)
      PROVE  TypeOK'
  BY <1>2, NewResultTyped DEF RecordResult, TypeOK, Staging
<1>3. CASE LeaderExits(a)
  BY <1>3 DEF LeaderExits, TypeOK, Owner
<1>4. CASE DescendantsExit(a)
  BY <1>4 DEF DescendantsExit, TypeOK, Owner
<1> QED
  BY <1>1, <1>2, <1>3, <1>4 DEF OwnerStep

\* So does the coroutine.
LEMMA WorkTyped ==
  ASSUME TypeOK, ReportIsBound, NEW a \in Attempts, Begin(a) \/ WorkStep(a)
  PROVE  TypeOK'
<1>1. CASE Begin(a)
  BY <1>1, PhaseTyped, PlaceTyped, CommittedTyped DEF Begin, TypeOK
<1>2. CASE Spawn(a)
  BY <1>2, PhaseTyped DEF Spawn, TypeOK, Owner
<1>3. CASE SpawnEnds(a)
  BY <1>3, FailTyped DEF SpawnEnds, TypeOK
<1>4. CASE Finish(a)
  BY <1>4, PhaseTyped DEF Finish, TypeOK
<1>5. ASSUME NEW cause \in {"deadline", "cancelled", "broken"}, Interrupt(a, cause)
      PROVE  TypeOK'
  BY <1>5, PhaseTyped DEF Interrupt, TypeOK
<1>6. CASE CancelDuringFence(a)
  BY <1>6, PhaseTyped DEF CancelDuringFence, TypeOK
<1>7. CASE FenceConfirmed(a)
  <2>1. CASE Go(a, "commit") /\ UNCHANGED staging
    BY <1>7, <2>1, PhaseTyped DEF FenceConfirmed, TypeOK
  <2>2. ASSUME NEW outcome \in {"retryable", "rejected", "cancelled"}, Fail(a, outcome)
        PROVE  TypeOK'
    BY <1>7, <2>2, FailTyped DEF FenceConfirmed, TypeOK
  <2> QED
    BY <1>7, <2>1, <2>2 DEF FenceConfirmed, Conclude
<1>8. CASE FenceUnconfirmed(a)
  BY <1>8, FailTyped DEF FenceUnconfirmed, TypeOK
<1>9. CASE Commit(a)
  <2>1. CASE committed = None
    BY <1>9, <2>1, PhaseTyped, PlaceTyped DEF Commit, TypeOK
  <2>2. CASE committed # None
    BY <1>9, <2>2, PhaseTyped, FailTyped DEF Commit, TypeOK
  <2> QED
    BY <2>1, <2>2
<1>10. CASE Report(a)
  <2>1. CommittedResult \in Result \cup {None}
    BY <1>10, CommittedTyped DEF Report, ReportIsBound
  <2> QED
    BY <1>10, <2>1, PhaseTyped, PlaceTyped DEF Report, TypeOK
<1>11. CASE RemovalFails(a)
  BY <1>11, FailTyped DEF RemovalFails, TypeOK
<1>12. CASE Crash(a)
  BY <1>12, PhaseTyped DEF Crash, TypeOK
<1> QED
  BY <1>1, <1>2, <1>3, <1>4, <1>5, <1>6, <1>7, <1>8, <1>9, <1>10, <1>11, <1>12 DEF WorkStep

-----------------------------------------------------------------------------
(* What a step does to the attempt that takes it.                          *)

\* The coroutine of a goes on to one of the phases and nothing it answers changes.
Moves(a, phases) ==
    /\ attempt' = [attempt EXCEPT ![a] = attempt'[a]]
    /\ attempt'[a].pc \in phases
    /\ attempt'[a].answer = attempt[a].answer

\* The directory of a is moved at most, to a place without authority.
Displaced(a) ==
    /\ staging' = [staging EXCEPT ![a] = staging'[a]]
    /\ staging'[a].cached = staging[a].cached
    /\ staging'[a].place = staging[a].place \/ staging'[a].place # "committed"

\* A failure ends the attempt and moves its directory.
LEMMA FailEffect ==
  ASSUME TypeOK, NEW a \in Attempts, NEW outcome, Fail(a, outcome)
  PROVE  Moves(a, {"ended"}) /\ Displaced(a)
BY DEF TypeOK, Attempt, Staging, Fail, End, Quarantine, Place, Moves, Displaced

\* An action of the wait: the process group and the authority are left alone.
LEMMA WaitEffect ==
  ASSUME TypeOK, NEW a \in Attempts,
         \/ SpawnEnds(a) \/ Finish(a) \/ CancelDuringFence(a) \/ FenceUnconfirmed(a)
         \/ \E cause \in {"deadline", "cancelled", "broken"} : Interrupt(a, cause)
  PROVE  /\ attempt[a].pc \in {"spawn", "wait", "fence"}
         /\ Moves(a, {"fence", "ended"}) /\ Displaced(a)
         /\ UNCHANGED <<owner, committed>>
<1>1. CASE SpawnEnds(a) \/ FenceUnconfirmed(a)
  <2>1. \E outcome \in {"retryable", "cancelled"} : Fail(a, outcome)
    BY <1>1 DEF SpawnEnds, FenceUnconfirmed
  <2>2. Moves(a, {"ended"}) /\ Displaced(a)
    BY <2>1, FailEffect
  <2> QED
    BY <1>1, <2>2 DEF SpawnEnds, FenceUnconfirmed, At, Moves
<1>2. CASE Finish(a) \/ CancelDuringFence(a)
           \/ \E cause \in {"deadline", "cancelled", "broken"} : Interrupt(a, cause)
  BY <1>2 DEF TypeOK, Attempt, Staging, Finish, CancelDuringFence, Interrupt, At, Fence, Moves, Displaced
<1> QED
  BY <1>1, <1>2

\* A confirmed stop brings a complete result to the commit, or ends the attempt.
LEMMA FenceEffect ==
  ASSUME TypeOK, NEW a \in Attempts, FenceConfirmed(a)
  PROVE  /\ At(a, "fence") /\ GroupGone(a)
         /\ UNCHANGED <<owner, committed>> /\ Displaced(a)
         /\ \/ Moves(a, {"commit"}) /\ owner[a].response = "completed"
            \/ Moves(a, {"ended"})
<1>1. CASE owner[a].response = "completed" /\ Go(a, "commit") /\ UNCHANGED staging
  BY <1>1 DEF TypeOK, Attempt, Staging, FenceConfirmed, Go, Moves, Displaced
<1>2. ASSUME NEW outcome \in {"retryable", "rejected", "cancelled"}, Fail(a, outcome)
      PROVE  Moves(a, {"ended"}) /\ Displaced(a)
  BY <1>2, FailEffect
<1> QED
  BY <1>1, <1>2 DEF FenceConfirmed, Conclude

\* A worker that dies ends its attempt and nothing else.
LEMMA CrashEffect ==
  ASSUME TypeOK, NEW a \in Attempts, Crash(a)
  PROVE  Moves(a, {"ended"}) /\ Displaced(a) /\ UNCHANGED <<owner, committed>>
BY DEF TypeOK, Attempt, Staging, Crash, End, Moves, Displaced

-----------------------------------------------------------------------------
(* The invariant is inductive.                                             *)

\* Everything but the types.
Claims ==
    /\ NotYetCommitted
    /\ NotYetStarted
    /\ CompletedIsRecorded
    /\ CommitIsSettled
    /\ ReportIsBound
    /\ CommittedIsSettled
    /\ AnswersAreCommitted

\* A step that leaves processes and authority alone, and the directory of the attempt
\* that has authority, keeps the claims.
LEMMA QuietKeeps ==
  ASSUME Inductive, NEW a \in Attempts,
         Moves(a, {"fence", "ended"}),
         attempt'[a].pc = "fence" => committed # a,
         UNCHANGED <<owner, committed>>,
         UNCHANGED staging \/ (committed # a /\ Displaced(a))
  PROVE  Claims'
<1>1. /\ \A b \in Attempts \ {a} : attempt'[b] = attempt[b]
      /\ attempt'[a].pc \in {"fence", "ended"} /\ attempt'[a].answer = attempt[a].answer
  BY DEF Inductive, TypeOK, Moves
<1>2. /\ \A b \in Attempts : staging'[b].cached = staging[b].cached
      /\ committed # None => staging'[committed] = staging[committed]
      /\ \A b \in Attempts : staging'[b].place = "committed" <=> staging[b].place = "committed"
  BY DEF Inductive, TypeOK, CommittedIsSettled, Displaced
<1>3. NotYetCommitted'
  BY <1>1 DEF Inductive, NotYetCommitted
<1>4. NotYetStarted'
  BY <1>1 DEF Inductive, NotYetStarted
<1>5. CompletedIsRecorded'
  BY <1>2 DEF Inductive, CompletedIsRecorded
<1>6. CommitIsSettled'
  BY <1>1, <1>2 DEF Inductive, CommitIsSettled, At, GroupGone
<1>7. ReportIsBound'
  BY <1>1 DEF Inductive, ReportIsBound, At
<1>8. CommittedIsSettled'
  BY <1>2 DEF Inductive, CommittedIsSettled, GroupGone
<1>9. AnswersAreCommitted'
  BY <1>1, <1>2 DEF Inductive, AnswersAreCommitted, CommittedResult
<1> QED
  BY <1>3, <1>4, <1>5, <1>6, <1>7, <1>8, <1>9 DEF Claims

\* A living process group changes itself and its evidence; what it recorded stays.
Works(a) ==
    /\ owner[a].group \in {"running", "exited"}
    /\ UNCHANGED <<attempt, committed>>
    /\ staging' = [staging EXCEPT ![a] = staging'[a]]
    /\ staging'[a].place = staging[a].place
    /\ staging[a].cached # None => staging'[a].cached = staging[a].cached
    /\ owner' = [owner EXCEPT ![a] = owner'[a]]
    /\ owner'[a].group # "none"
    /\ owner'[a].response = "completed" => staging'[a].cached # None

\* That is what every step of an owner process is.
LEMMA OwnerEffect ==
  ASSUME TypeOK, CompletedIsRecorded, NEW a \in Attempts, OwnerStep(a)
  PROVE  Works(a)
<1>1. CASE WriteEvidence(a)
  BY <1>1 DEF WriteEvidence, TypeOK, Staging, Owner, CompletedIsRecorded, Works
<1>2. ASSUME NEW s \in Statuses, RecordResult(a, s)
      PROVE  Works(a)
  <2>1. NewResult(a, s) # None
    BY ActivityAssumption, NewResultTyped
  <2> QED
    BY <1>2, <2>1 DEF RecordResult, TypeOK, Staging, Owner, Works
<1>3. CASE LeaderExits(a)
  BY <1>3 DEF LeaderExits, TypeOK, Staging, Owner, Works
<1>4. CASE DescendantsExit(a)
  BY <1>4 DEF DescendantsExit, TypeOK, Staging, Owner, CompletedIsRecorded, Works
<1> QED
  BY <1>1, <1>2, <1>3, <1>4 DEF OwnerStep

\* An owner process keeps the claims: nothing it can still write is committed.
LEMMA OwnerKeeps ==
  ASSUME Inductive, NEW a \in Attempts, OwnerStep(a)
  PROVE  Claims'
<1>1. Works(a)
  BY OwnerEffect DEF Inductive
<1>2. attempt[a].pc \notin {"scheduled", "spawn", "commit"} /\ committed # a
  BY <1>1 DEF Works, Inductive, NotYetStarted, CommitIsSettled, CommittedIsSettled, At, GroupGone
<1>3. /\ \A b \in Attempts \ {a} : staging'[b] = staging[b] /\ owner'[b] = owner[b]
      /\ committed # None => staging'[committed] = staging[committed]
  BY <1>1, <1>2 DEF Works, Inductive, TypeOK
<1>4. NotYetCommitted' /\ ReportIsBound'
  BY <1>1 DEF Works, Inductive, NotYetCommitted, ReportIsBound, At
<1>5. NotYetStarted'
  BY <1>1, <1>2, <1>3 DEF Works, Inductive, NotYetStarted
<1>6. CompletedIsRecorded'
  BY <1>1, <1>3 DEF Works, Inductive, CompletedIsRecorded
<1>7. CommitIsSettled'
  BY <1>1, <1>2, <1>3 DEF Works, Inductive, CommitIsSettled, At, GroupGone
<1>8. CommittedIsSettled'
  BY <1>1, <1>2, <1>3 DEF Works, Inductive, CommittedIsSettled, GroupGone
<1>9. AnswersAreCommitted'
  BY <1>1, <1>3 DEF Works, Inductive, AnswersAreCommitted, CommittedResult
<1> QED
  BY <1>4, <1>5, <1>6, <1>7, <1>8, <1>9 DEF Claims

\* The lookup starts an attempt that has no authority, or answers what is committed.
LEMMA BeginKeeps ==
  ASSUME Inductive, NEW a \in Attempts, Begin(a)
  PROVE  Claims'
<1>1. At(a, "scheduled") /\ committed # a /\ UNCHANGED <<owner, committed>>
  BY DEF Begin, Inductive, NotYetCommitted, At
<1>2. CASE committed # None /\ End(a, "rejected") /\ UNCHANGED staging
  <2>1. Moves(a, {"fence", "ended"}) /\ attempt'[a].pc # "fence"
    BY <1>2 DEF End, Moves, Inductive, TypeOK, Attempt
  <2>2. UNCHANGED <<owner, committed>>
    BY <1>1
  <2>3. UNCHANGED staging \/ (committed # a /\ Displaced(a))
    BY <1>2 DEF Displaced
  <2> QED
    BY <2>1, <2>2, <2>3, QuietKeeps
<1>3. CASE committed = None /\ Go(a, "spawn") /\ Place(a, "staging")
  <2>1. /\ \A b \in Attempts \ {a} : attempt'[b] = attempt[b] /\ staging'[b] = staging[b]
        /\ attempt'[a].pc = "spawn" /\ attempt'[a].answer = attempt[a].answer
        /\ staging'[a].place = "staging" /\ staging'[a].cached = staging[a].cached
    BY <1>3 DEF Go, Place, Inductive, TypeOK, Attempt, Staging
  <2>2. \A b \in Attempts : committed # b
    BY <1>3, ActivityAssumption
  <2>3. NotYetCommitted' /\ CommittedIsSettled'
    BY <1>1, <2>1, <2>2 DEF Inductive, NotYetCommitted, CommittedIsSettled
  <2>4. NotYetStarted'
    BY <1>1, <2>1 DEF Inductive, NotYetStarted, At
  <2>5. CompletedIsRecorded' /\ CommitIsSettled' /\ ReportIsBound'
    BY <1>1, <2>1 DEF Inductive, CompletedIsRecorded, CommitIsSettled, ReportIsBound, At, GroupGone
  <2>6. AnswersAreCommitted'
    BY <1>1, <1>3, <2>1 DEF Inductive, AnswersAreCommitted
  <2> QED
    BY <2>3, <2>4, <2>5, <2>6 DEF Claims
<1>4. CASE committed # None /\ BoundToMine(a) /\ Answer(a, CommittedResult) /\ UNCHANGED staging
  <2>1. /\ \A b \in Attempts \ {a} : attempt'[b] = attempt[b]
        /\ attempt'[a].pc = "ended" /\ attempt'[a].answer = CommittedResult
    BY <1>4 DEF Answer, Inductive, TypeOK, Attempt
  <2>2. NotYetCommitted' /\ NotYetStarted' /\ CompletedIsRecorded'
    BY <1>1, <1>4, <2>1 DEF Inductive, NotYetCommitted, NotYetStarted, CompletedIsRecorded
  <2>3. CommitIsSettled' /\ ReportIsBound' /\ CommittedIsSettled'
    BY <1>1, <1>4, <2>1 DEF Inductive, CommitIsSettled, ReportIsBound, CommittedIsSettled, At, GroupGone
  <2>4. AnswersAreCommitted'
    BY <1>1, <1>4, <2>1 DEF Inductive, AnswersAreCommitted, CommittedResult, BoundToMine
  <2> QED
    BY <2>2, <2>3, <2>4 DEF Claims
<1> QED
  BY <1>2, <1>3, <1>4 DEF Begin

\* A process group is started for an attempt that has no authority.
LEMMA SpawnKeeps ==
  ASSUME Inductive, NEW a \in Attempts, Spawn(a)
  PROVE  Claims'
<1>1. /\ At(a, "spawn") /\ committed # a /\ UNCHANGED <<staging, committed>>
      /\ \A b \in Attempts \ {a} : attempt'[b] = attempt[b] /\ owner'[b] = owner[b]
      /\ attempt'[a].pc = "wait" /\ attempt'[a].answer = attempt[a].answer
      /\ owner'[a].response = owner[a].response
  BY DEF Spawn, Go, Inductive, NotYetCommitted, At, TypeOK, Attempt, Owner
<1>2. NotYetCommitted' /\ NotYetStarted' /\ CompletedIsRecorded'
  BY <1>1 DEF Inductive, NotYetCommitted, NotYetStarted, CompletedIsRecorded
<1>3. CommitIsSettled' /\ ReportIsBound' /\ CommittedIsSettled'
  BY <1>1 DEF Inductive, CommitIsSettled, ReportIsBound, CommittedIsSettled, At, GroupGone
<1>4. AnswersAreCommitted'
  BY <1>1 DEF Inductive, AnswersAreCommitted, CommittedResult
<1> QED
  BY <1>2, <1>3, <1>4 DEF Claims

\* The stop of the group is confirmed: only settled evidence goes to the commit.
LEMMA FenceKeeps ==
  ASSUME Inductive, NEW a \in Attempts, FenceConfirmed(a)
  PROVE  Claims'
<1>1. /\ At(a, "fence") /\ GroupGone(a) /\ committed # a
      /\ UNCHANGED <<owner, committed>> /\ Displaced(a)
  BY FenceEffect DEF Inductive, NotYetCommitted, At
<1>2. CASE Moves(a, {"ended"})
  <2>1. Moves(a, {"fence", "ended"}) /\ attempt'[a].pc # "fence"
    BY <1>2 DEF Moves
  <2> QED
    BY <1>1, <2>1, QuietKeeps
<1>3. CASE Moves(a, {"commit"}) /\ owner[a].response = "completed"
  <2>1. /\ \A b \in Attempts \ {a} : attempt'[b] = attempt[b] /\ staging'[b] = staging[b]
        /\ attempt'[a].pc = "commit" /\ attempt'[a].answer = attempt[a].answer
        /\ staging'[a].cached = staging[a].cached /\ staging'[a].place # "committed"
    BY <1>1, <1>3 DEF Moves, Displaced, Inductive, TypeOK, CommittedIsSettled
  <2>2. NotYetCommitted' /\ NotYetStarted' /\ CompletedIsRecorded'
    BY <1>1, <2>1 DEF Inductive, NotYetCommitted, NotYetStarted, CompletedIsRecorded
  <2>3. CommitIsSettled'
    BY <1>1, <1>3, <2>1 DEF Inductive, CommitIsSettled, CompletedIsRecorded, At, GroupGone
  <2>4. ReportIsBound' /\ CommittedIsSettled'
    BY <1>1, <2>1 DEF Inductive, ReportIsBound, CommittedIsSettled, At, GroupGone
  <2>5. AnswersAreCommitted'
    BY <1>1, <2>1 DEF Inductive, TypeOK, AnswersAreCommitted, CommittedResult
  <2> QED
    BY <2>2, <2>3, <2>4, <2>5 DEF Claims
<1> QED
  BY <1>2, <1>3, FenceEffect DEF Inductive

\* The commit gives authority to the first settled directory, and to no other.
LEMMA CommitKeeps ==
  ASSUME Inductive, NEW a \in Attempts, Commit(a)
  PROVE  Claims'
<1>1. /\ At(a, "commit") /\ committed # a /\ UNCHANGED owner
      /\ GroupGone(a) /\ staging[a].cached # None
  BY DEF Commit, Inductive, NotYetCommitted, CommitIsSettled, At
<1>2. CASE committed # None /\ Fail(a, "rejected") /\ UNCHANGED committed
  <2>1. Moves(a, {"ended"}) /\ Displaced(a)
    BY <1>2, FailEffect DEF Inductive
  <2>2. Moves(a, {"fence", "ended"}) /\ attempt'[a].pc # "fence"
    BY <2>1 DEF Moves
  <2> QED
    BY <1>1, <1>2, <2>1, <2>2, QuietKeeps
<1>3. CASE committed # None /\ BoundToMine(a) /\ Go(a, "report") /\ UNCHANGED <<staging, committed>>
  <2>1. /\ \A b \in Attempts \ {a} : attempt'[b] = attempt[b]
        /\ attempt'[a].pc = "report" /\ attempt'[a].answer = attempt[a].answer
    BY <1>3 DEF Go, Inductive, TypeOK, Attempt
  <2>2. NotYetCommitted' /\ NotYetStarted' /\ CompletedIsRecorded'
    BY <1>1, <1>3, <2>1 DEF Inductive, NotYetCommitted, NotYetStarted, CompletedIsRecorded
  <2>3. CommitIsSettled' /\ ReportIsBound' /\ CommittedIsSettled'
    BY <1>1, <1>3, <2>1
    DEF Inductive, CommitIsSettled, ReportIsBound, CommittedIsSettled, At, GroupGone, BoundToMine
  <2>4. AnswersAreCommitted'
    BY <1>1, <1>3, <2>1 DEF Inductive, AnswersAreCommitted, CommittedResult
  <2> QED
    BY <2>2, <2>3, <2>4 DEF Claims
<1>4. CASE committed = None /\ committed' = a /\ Place(a, "committed") /\ Go(a, "report")
  <2>1. /\ \A b \in Attempts \ {a} : attempt'[b] = attempt[b] /\ staging'[b] = staging[b]
        /\ attempt'[a].pc = "report" /\ attempt'[a].answer = attempt[a].answer
        /\ staging'[a].place = "committed" /\ staging'[a].cached = staging[a].cached
    BY <1>4 DEF Go, Place, Inductive, TypeOK, Attempt, Staging
  <2>2. \A b \in Attempts : staging[b].place # "committed" /\ attempt[b].answer = None
    BY <1>4, ActivityAssumption DEF Inductive, CommittedIsSettled, AnswersAreCommitted
  <2>3. NotYetCommitted' /\ NotYetStarted' /\ CompletedIsRecorded'
    BY <1>1, <1>4, <2>1 DEF Inductive, NotYetCommitted, NotYetStarted, CompletedIsRecorded
  <2>4. CommitIsSettled' /\ CommittedIsSettled'
    BY <1>1, <1>4, <2>1, <2>2 DEF Inductive, CommitIsSettled, CommittedIsSettled, At, GroupGone
  <2>5. ReportIsBound'
    BY <1>4, <2>1, ActivityAssumption DEF Inductive, ReportIsBound, At
  <2>6. AnswersAreCommitted'
    BY <2>1, <2>2 DEF AnswersAreCommitted
  <2> QED
    BY <2>3, <2>4, <2>5, <2>6 DEF Claims
<1> QED
  BY <1>2, <1>3, <1>4 DEF Commit

\* What is reported is what is committed, and the directory that has authority stays.
LEMMA ReportKeeps ==
  ASSUME Inductive, NEW a \in Attempts, Report(a)
  PROVE  Claims'
<1>1. /\ committed # None /\ RequestOf[committed] = RequestOf[a]
      /\ UNCHANGED <<owner, committed>>
      /\ \A b \in Attempts \ {a} : attempt'[b] = attempt[b] /\ staging'[b] = staging[b]
      /\ attempt'[a].pc = "ended" /\ attempt'[a].answer = CommittedResult
      /\ staging'[a].cached = staging[a].cached
      /\ committed = a => staging'[a] = staging[a]
      /\ committed # a => staging'[a].place = "removed"
  BY DEF Report, Answer, Place, ReportIsBound, Inductive, TypeOK, Attempt, Staging
<1>2. NotYetCommitted' /\ NotYetStarted' /\ CompletedIsRecorded'
  BY <1>1 DEF Inductive, NotYetCommitted, NotYetStarted, CompletedIsRecorded
<1>3. CommitIsSettled' /\ ReportIsBound'
  BY <1>1 DEF Inductive, CommitIsSettled, ReportIsBound, At, GroupGone
<1>4. CommittedIsSettled'
  BY <1>1 DEF Inductive, CommittedIsSettled, GroupGone
<1>5. AnswersAreCommitted'
  BY <1>1 DEF Inductive, TypeOK, AnswersAreCommitted, CommittedResult
<1> QED
  BY <1>2, <1>3, <1>4, <1>5 DEF Claims

\* The other steps of the coroutine touch no process and no authority.
LEMMA WorkKeeps ==
  ASSUME Inductive, NEW a \in Attempts, WorkStep(a)
  PROVE  Claims'
<1>1. CASE \/ SpawnEnds(a) \/ Finish(a) \/ CancelDuringFence(a) \/ FenceUnconfirmed(a)
           \/ \E cause \in {"deadline", "cancelled", "broken"} : Interrupt(a, cause)
  <2>1. /\ attempt[a].pc \in {"spawn", "wait", "fence"}
        /\ Moves(a, {"fence", "ended"}) /\ Displaced(a)
        /\ UNCHANGED <<owner, committed>>
    BY <1>1, WaitEffect DEF Inductive
  <2>2. committed # a
    BY <2>1 DEF Inductive, NotYetCommitted
  <2> QED
    BY <2>1, <2>2, QuietKeeps
<1>2. CASE RemovalFails(a)
  <2>1. committed # a /\ UNCHANGED <<owner, committed>> /\ Fail(a, "retryable")
    BY <1>2 DEF RemovalFails
  <2>2. Moves(a, {"ended"}) /\ Displaced(a)
    BY <2>1, FailEffect DEF Inductive
  <2>3. Moves(a, {"fence", "ended"})
    BY <2>2 DEF Moves
  <2> QED
    BY <2>1, <2>2, <2>3, QuietKeeps
<1>3. CASE Crash(a)
  <2>1. Moves(a, {"ended"}) /\ UNCHANGED <<owner, committed>>
    BY <1>3, CrashEffect DEF Inductive
  <2>2. Moves(a, {"fence", "ended"}) /\ attempt'[a].pc # "fence"
    BY <2>1 DEF Moves
  <2>3. UNCHANGED staging \/ (committed # a /\ Displaced(a))
    BY <1>3 DEF Crash, Displaced
  <2> QED
    BY <2>1, <2>2, <2>3, QuietKeeps
<1> QED
  BY <1>1, <1>2, <1>3, SpawnKeeps, FenceKeeps, CommitKeeps, ReportKeeps DEF WorkStep

\* Every step, and a step that changes nothing, keeps the invariant.
LEMMA InductiveStep ==
  ASSUME Inductive, [ActivityNext]_activityVars
  PROVE  Inductive'
<1>1. CASE ActivityNext
  <2>1. PICK a \in Attempts : Begin(a) \/ WorkStep(a) \/ OwnerStep(a)
    BY <1>1 DEF ActivityNext
  <2>2. TypeOK'
    BY <2>1, WorkTyped, OwnerTyped DEF Inductive
  <2>3. Claims'
    BY <2>1, BeginKeeps, WorkKeeps, OwnerKeeps
  <2> QED
    BY <2>2, <2>3 DEF Inductive, Claims
<1>2. CASE UNCHANGED activityVars
  BY <1>2 DEF activityVars, Inductive, TypeOK, NotYetCommitted, NotYetStarted,
     CompletedIsRecorded, CommitIsSettled, ReportIsBound, CommittedIsSettled,
     AnswersAreCommitted, At, GroupGone, CommittedResult
<1> QED
  BY <1>1, <1>2

\* The inductive invariant holds from the start: nothing has run.
LEMMA InductiveInit ==
  ASSUME Init
  PROVE  Inductive
<1>1. TypeOK
  BY ActivityAssumption DEF Init, TypeOK, Attempt, Owner, Staging
<1>2. \A a \in Attempts : committed # a
  BY ActivityAssumption DEF Init
<1>3. NotYetCommitted /\ NotYetStarted /\ CompletedIsRecorded
  BY <1>2 DEF Init, NotYetCommitted, NotYetStarted, CompletedIsRecorded
<1>4. CommitIsSettled /\ ReportIsBound /\ CommittedIsSettled /\ AnswersAreCommitted
  BY <1>2 DEF Init, CommitIsSettled, ReportIsBound, CommittedIsSettled, AnswersAreCommitted, At
<1> QED
  BY <1>1, <1>3, <1>4 DEF Inductive

-----------------------------------------------------------------------------
(* The theorems.                                                           *)

\* Every reachable state satisfies the inductive invariant.
THEOREM InductiveCorrect == ActivitySpec => []Inductive
<1>1. Init => Inductive
  BY InductiveInit
<1>2. Inductive /\ [ActivityNext]_activityVars => Inductive'
  BY InductiveStep
<1> QED
  BY <1>1, <1>2, PTL DEF ActivitySpec

\* The variables of the activity keep their types, however many attempts there are.
THEOREM TypeCorrect == ActivitySpec => []TypeOK
<1>1. Inductive => TypeOK
  BY DEF Inductive
<1> QED
  BY <1>1, InductiveCorrect, PTL

\* One directory at most has authority, and only with a complete result and with no
\* process left that could write it (commit_validation_readiness_staging_result after
\* _run_owner_execution), for any number of attempts and whatever they die of.
THEOREM SettledCorrect == ActivitySpec => []CommittedIsSettled
<1>1. Inductive => CommittedIsSettled
  BY DEF Inductive
<1> QED
  BY <1>1, InductiveCorrect, PTL

\* Every attempt that succeeds returns the one committed result of its own request
\* (load_committed_validation_readiness_result and the commit under the key's lock).
THEOREM AnswersCorrect == ActivitySpec => []AnswersAreCommitted
<1>1. Inductive => AnswersAreCommitted
  BY DEF Inductive
<1> QED
  BY <1>1, InductiveCorrect, PTL

-----------------------------------------------------------------------------
(* What no step does to committed evidence.                                *)

\* The coroutine never touches the directory that has authority.
LEMMA WorkSpares ==
  ASSUME Inductive, NEW a \in Attempts, Begin(a) \/ WorkStep(a), committed # None
  PROVE  committed' = committed /\ staging'[committed] = staging[committed]
<1>1. CASE \/ SpawnEnds(a) \/ Finish(a) \/ CancelDuringFence(a) \/ FenceUnconfirmed(a)
           \/ \E cause \in {"deadline", "cancelled", "broken"} : Interrupt(a, cause)
  <2>1. attempt[a].pc \in {"spawn", "wait", "fence"} /\ Displaced(a) /\ committed' = committed
    BY <1>1, WaitEffect DEF Inductive
  <2> QED
    BY <2>1 DEF Inductive, TypeOK, NotYetCommitted, Displaced
<1>2. CASE FenceConfirmed(a)
  <2>1. At(a, "fence") /\ Displaced(a) /\ committed' = committed
    BY <1>2, FenceEffect DEF Inductive
  <2> QED
    BY <2>1 DEF Inductive, TypeOK, NotYetCommitted, At, Displaced
<1>3. CASE Commit(a)
  <2>1. committed # a /\ committed' = committed
    BY <1>3 DEF Commit, Inductive, NotYetCommitted, At
  <2>2. UNCHANGED staging \/ Displaced(a)
    BY <1>3, FailEffect DEF Commit, Inductive
  <2> QED
    BY <2>1, <2>2 DEF Inductive, TypeOK, Displaced
<1>4. CASE RemovalFails(a)
  <2>1. committed # a /\ committed' = committed /\ Displaced(a)
    BY <1>4, FailEffect DEF RemovalFails, Inductive
  <2> QED
    BY <2>1 DEF Inductive, TypeOK, Displaced
<1>5. CASE Begin(a) \/ Spawn(a) \/ Report(a) \/ Crash(a)
  BY <1>5 DEF Begin, Spawn, Report, Crash, Place, Inductive, TypeOK
<1> QED
  BY <1>1, <1>2, <1>3, <1>4, <1>5 DEF WorkStep

\* Nor does a process: the group whose evidence was committed is gone.
LEMMA OwnerSpares ==
  ASSUME Inductive, NEW a \in Attempts, OwnerStep(a), committed # None
  PROVE  committed' = committed /\ staging'[committed] = staging[committed]
<1>1. Works(a)
  BY OwnerEffect DEF Inductive
<1>2. committed # a
  BY <1>1 DEF Works, Inductive, CommittedIsSettled, GroupGone
<1> QED
  BY <1>1, <1>2 DEF Works, Inductive, TypeOK

\* Committed evidence is never replaced or written again, by any attempt or process of
\* it, before or after any crash.
THEOREM FinalCorrect == ActivitySpec => EvidenceIsFinal
<1>1. Inductive /\ [ActivityNext]_activityVars =>
        [committed # None => /\ committed' = committed
                             /\ staging'[committed] = staging[committed]]_activityVars
  BY WorkSpares, OwnerSpares DEF ActivityNext
<1> QED
  BY <1>1, InductiveCorrect, PTL DEF ActivitySpec, EvidenceIsFinal

-----------------------------------------------------------------------------
(* The protocol implements the write-once record.                          *)

\* The value the record has in this state.
Kept == IF committed = None THEN None ELSE CommittedResult

\* No authority and no answer changes: the record stutters.
LEMMA QuietStutters ==
  ASSUME committed' = committed,
         committed # None => staging'[committed] = staging[committed],
         \A b \in Attempts : attempt'[b].answer = attempt[b].answer
  PROVE  UNCHANGED Evidence!onceVars
<1>1. Kept' = Kept
  BY DEF Kept, CommittedResult
<1>2. Told' = Told
  BY DEF Told
<1> QED
  BY <1>1, <1>2 DEF Evidence!onceVars, Kept

\* A caller is answered what is committed: the record tells its value.
LEMMA AnswerTells ==
  ASSUME Inductive, NEW a \in Attempts, Answer(a, CommittedResult), committed # None,
         committed' = committed, staging'[committed] = staging[committed]
  PROVE  Evidence!Tell("result")
<1>1. Kept = CommittedResult /\ Kept # None /\ Kept' = Kept
  BY DEF Kept, CommittedResult, Inductive, TypeOK, CommittedIsSettled
<1>2. \A b \in Attempts : attempt[b].answer \in {None, CommittedResult}
  BY DEF Inductive, AnswersAreCommitted
<1>3. /\ \A b \in Attempts \ {a} : attempt'[b].answer = attempt[b].answer
      /\ attempt'[a].answer = CommittedResult
  BY DEF Answer, Inductive, TypeOK, Attempt
<1>4. Told' = Told \cup {Kept}
  BY <1>1, <1>2, <1>3 DEF Told
<1> QED
  BY <1>1, <1>4 DEF Evidence!Tell, Kept

\* The first commit writes the record, with a result some owner recorded.
LEMMA CommitWrites ==
  ASSUME Inductive, NEW a \in Attempts, committed = None, committed' = a,
         Go(a, "report"), Place(a, "committed"), staging[a].cached # None
  PROVE  Evidence!Write("result", Kept')
<1>1. staging[a].cached \in Result /\ Kept = None
  BY DEF Kept, Inductive, TypeOK, Staging
<1>2. Kept' = staging[a].cached
  BY ActivityAssumption DEF Kept, CommittedResult, Place, Inductive, TypeOK, Staging
<1>3. \A b \in Attempts : attempt'[b].answer = attempt[b].answer
  BY DEF Go, Inductive, TypeOK, Attempt
<1>4. Told' = Told
  BY <1>3 DEF Told
<1> QED
  BY <1>1, <1>2, <1>4 DEF Evidence!Write, Kept

\* A step of the coroutine writes the record, tells its value, or is invisible.
LEMMA WorkImplements ==
  ASSUME Inductive, NEW a \in Attempts, Begin(a) \/ WorkStep(a)
  PROVE  Evidence!Next \/ UNCHANGED Evidence!onceVars
<1>1. committed # None => committed' = committed /\ staging'[committed] = staging[committed]
  BY WorkSpares
<1>2. ASSUME Answer(a, CommittedResult), committed # None
      PROVE  Evidence!Next
  BY <1>1, <1>2, AnswerTells DEF Evidence!Next
<1>3. ASSUME committed' = committed,
             \A b \in Attempts : attempt'[b].answer = attempt[b].answer
      PROVE  UNCHANGED Evidence!onceVars
  BY <1>1, <1>3, QuietStutters
<1>4. ASSUME NEW phases, Moves(a, phases)
      PROVE  \A b \in Attempts : attempt'[b].answer = attempt[b].answer
  BY <1>4 DEF Moves, Inductive, TypeOK
<1>5. CASE Begin(a)
  <2>1. CASE committed # None /\ Answer(a, CommittedResult)
    BY <1>2, <2>1
  <2>2. CASE Go(a, "spawn") \/ End(a, "rejected")
    BY <1>3, <1>5, <2>2 DEF Begin, Go, End, Inductive, TypeOK, Attempt
  <2> QED
    BY <1>5, <2>1, <2>2 DEF Begin
<1>6. CASE Spawn(a)
  BY <1>3, <1>6 DEF Spawn, Go, Inductive, TypeOK, Attempt
<1>7. CASE \/ SpawnEnds(a) \/ Finish(a) \/ CancelDuringFence(a) \/ FenceUnconfirmed(a)
           \/ \E cause \in {"deadline", "cancelled", "broken"} : Interrupt(a, cause)
  <2>1. Moves(a, {"fence", "ended"}) /\ committed' = committed
    BY <1>7, WaitEffect DEF Inductive
  <2> QED
    BY <1>3, <1>4, <2>1
<1>8. CASE FenceConfirmed(a)
  <2>1. (Moves(a, {"commit"}) \/ Moves(a, {"ended"})) /\ committed' = committed
    BY <1>8, FenceEffect DEF Inductive
  <2> QED
    BY <1>3, <1>4, <2>1
<1>9. CASE Commit(a)
  <2>1. CASE committed = None
    <3>1. Evidence!Write("result", Kept')
      BY <1>9, <2>1, CommitWrites DEF Commit, Inductive, CommitIsSettled
    <3> QED
      BY <3>1 DEF Evidence!Next, Kept
  <2>2. CASE Go(a, "report") /\ committed' = committed
    BY <1>3, <2>2 DEF Go, Inductive, TypeOK, Attempt
  <2>3. CASE Fail(a, "rejected") /\ committed' = committed
    <3>1. Moves(a, {"ended"})
      BY <2>3, FailEffect DEF Inductive
    <3> QED
      BY <1>3, <1>4, <2>3, <3>1
  <2> QED
    BY <1>9, <2>1, <2>2, <2>3 DEF Commit
<1>10. CASE Report(a)
  BY <1>2, <1>10 DEF Report, Inductive, ReportIsBound
<1>11. CASE RemovalFails(a)
  <2>1. Moves(a, {"ended"}) /\ committed' = committed
    BY <1>11, FailEffect DEF RemovalFails, Inductive
  <2> QED
    BY <1>3, <1>4, <2>1
<1>12. CASE Crash(a)
  <2>1. Moves(a, {"ended"}) /\ committed' = committed
    BY <1>12, CrashEffect DEF Inductive
  <2> QED
    BY <1>3, <1>4, <2>1
<1> QED
  BY <1>5, <1>6, <1>7, <1>8, <1>9, <1>10, <1>11, <1>12 DEF WorkStep

\* A step of an owner process is invisible.
LEMMA OwnerImplements ==
  ASSUME Inductive, NEW a \in Attempts, OwnerStep(a)
  PROVE  UNCHANGED Evidence!onceVars
<1>1. committed' = committed /\ UNCHANGED attempt
  BY OwnerEffect DEF Works, Inductive
<1>2. committed # None => staging'[committed] = staging[committed]
  BY OwnerSpares
<1> QED
  BY <1>1, <1>2, QuietStutters

\* Staging, the confirmed stop and the commit under the key's lock implement a record
\* that is written once and of which every successful caller is told the value.
THEOREM ImplementsCorrect == ActivitySpec => ImplementsWriteOnce
<1>1. Init => Evidence!Init
  <2>1. Init => Kept = None /\ Told = {}
    BY DEF Init, Kept, Told
  <2> QED
    BY <2>1 DEF Evidence!Init, Kept
<1>2. Inductive /\ [ActivityNext]_activityVars => [Evidence!Next]_(Evidence!onceVars)
  <2>1. CASE Inductive /\ ActivityNext
    BY <2>1, WorkImplements, OwnerImplements DEF ActivityNext
  <2>2. CASE Inductive /\ UNCHANGED activityVars
    BY <2>2, QuietStutters DEF activityVars
  <2> QED
    BY <2>1, <2>2
<1> QED
  BY <1>1, <1>2, InductiveCorrect, PTL DEF ActivitySpec, ImplementsWriteOnce, Evidence!Spec
=============================================================================
