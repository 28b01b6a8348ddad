----------------------- MODULE ControlledProofProofs ------------------------
(***************************************************************************)
(* Proofs about controlled commissioning proofs, for every set of          *)
(* attempts, activities, requests and runs that satisfies the assumption.  *)
(***************************************************************************)
EXTENDS ControlledProof, TLAPS

Recording == {"observe", "seal", "reply"}

TypeOK ==
    /\ scenario \in Scenarios
    /\ context \in {"current", "revoked"}
    /\ expired \in BOOLEAN
    /\ run \in Runs \cup {None}
    /\ request \in Requests \cup {None}
    /\ evidence \in [{"key"} -> Result \cup {None}]
    /\ results \in [Activities -> Result \cup {None}]
    /\ observations \in [Activities -> Observation \cup {None}]
    /\ receipts \in [Activities -> Observation \cup {None}]
    /\ told \in [Activities -> SUBSET Observation]
    /\ attempt \in [Attempts -> Attempt]

\* An attempt asks for a draft before it takes the lock and for an observation after.
DraftsAreMade ==
    \A a \in Attempts :
        /\ At(a, "record") => Asks(a) \in Draft
        /\ attempt[a].pc \in Recording => Asks(a) \in Observation

\* The lock of an activity has one holder.
LockIsExclusive ==
    \A a, b \in Attempts :
        Key(a) = Key(b) /\ {attempt[a].pc, attempt[b].pc} \subseteq {"observe", "seal"} => a = b

\* What the files of the activity hold at each phase of an attempt that records.
FilesFollow ==
    \A a \in Attempts :
        /\ At(a, "observe") =>
              /\ receipts[Key(a)] = None
              /\ observations[Key(a)] = None
              /\ results[Key(a)] = Asks(a).activity
        /\ At(a, "seal") => receipts[Key(a)] = None /\ observations[Key(a)] = Asks(a)
        /\ At(a, "reply") => receipts[Key(a)] = Asks(a)

FilesInv == TypeOK /\ DraftsAreMade /\ LockIsExclusive /\ FilesFollow /\ ReceiptIsBacked

\* A pass is for what the scenario is to prove.
Earned(o) ==
    o.result = "passed" =>
        \/ scenario = "nominal" /\ evidence["key"] # None
           /\ evidence["key"] = o.activity
           /\ evidence["key"].status = "ready"
        \/ scenario = "cancellation" /\ o.kind = "activity-cancellation-fenced"
        \/ scenario = "boundary" /\ o.activity = None

InTime(o) == o.result = "passed" => o.at = "before"

\* Every answer is the one committed result, the purpose is one of the scenario, and what
\* an attempt asks to be recorded is earned.
Founded(r) ==
    /\ r.answer # None => evidence["key"] = r.answer
    /\ r.pc \in {"check", "stamp"} /\ r.purpose = "result" => r.answer # None
    /\ r.purpose = "boundary" => scenario = "boundary"
    /\ r.pc \in {"record"} \cup Recording => Earned(r.draft)
    /\ r.pc \in Recording => InTime(r.draft)

AttemptsAreFounded == \A a \in Attempts : Founded(attempt[a])

ObservationsAreEarned ==
    \A k \in Activities :
        observations[k] # None => Earned(observations[k]) /\ InTime(observations[k])

\* The inductive invariant.
Inductive ==
    /\ FilesInv
    /\ AttemptsAreBound
    /\ AttemptsAreFounded
    /\ ObservationsAreEarned
-----------------------------------------------------------------------------
(* Type correctness and drafts.                                            *)

\* An attempt that becomes something changes no other attempt.
LEMMA BecomesTyped ==
  ASSUME attempt \in [Attempts -> Attempt], NEW a \in Attempts,
         NEW r \in Attempt, Becomes(a, r)
  PROVE  /\ attempt' \in [Attempts -> Attempt]
         /\ attempt'[a] = r
         /\ \A b \in Attempts : b # a => attempt'[b] = attempt[b]
BY DEF Becomes

\* An attempt that ends keeps the rest of what it was.
LEMMA EndTyped ==
  ASSUME attempt \in [Attempts -> Attempt], NEW a \in Attempts,
         NEW outcome \in Outcomes, End(a, outcome)
  PROVE  /\ attempt' \in [Attempts -> Attempt]
         /\ attempt'[a] = [attempt[a] EXCEPT !.pc = "ended", !.outcome = outcome]
         /\ \A b \in Attempts : b # a => attempt'[b] = attempt[b]
<1>1. [attempt[a] EXCEPT !.pc = "ended", !.outcome = outcome] \in Attempt
  BY DEF Attempt
<1> QED
  BY <1>1 DEF End, Becomes

\* What passes the second context check is recorded as a draft.
LEMMA DraftTyped ==
  ASSUME TypeOK, NEW a \in Attempts
  PROVE  DraftOf(a) \in Draft
<1>1. /\ attempt[a].purpose \in {"result", "cancelled", "boundary", "expired"}
      /\ attempt[a].answer \in Result \cup {None}
  BY DEF TypeOK, Attempt
<1>2. Now \in Instants
  BY DEF Now, Instants
<1>3. OwnerResult(attempt[a].answer) \in OwnerResults
  BY DEF OwnerResult, OwnerResults
<1>4. CASE attempt[a].purpose = "result"
  BY <1>1, <1>3, <1>4 DEF DraftOf, NewDraft, Draft, Kinds
<1>5. CASE attempt[a].purpose = "boundary"
  BY <1>5 DEF DraftOf, NewDraft, Draft, Kinds, OwnerResults
<1>6. CASE attempt[a].purpose = "expired"
  BY <1>6 DEF DraftOf, NewDraft, Draft, Kinds, OwnerResults
<1>7. CASE attempt[a].purpose = "cancelled"
  BY <1>2, <1>7 DEF DraftOf, NewDraft, Draft, Kinds, OwnerResults
<1> QED
  BY <1>1, <1>4, <1>5, <1>6, <1>7

\* Under the lock a draft becomes an observation, with the instant it is recorded at.
LEMMA StampedTyped ==
  ASSUME TypeOK, NEW a \in Attempts, Asks(a) \in Draft
  PROVE  [Asks(a) EXCEPT !.at = RecordedAt(a)] \in Observation
<1>1. RecordedAt(a) \in Instants
  BY DEF RecordedAt, Now, Instants, Draft
<1> QED
  BY <1>1 DEF Draft, Observation

\* An attempt that is admitted, or whose owner ends, keeps the types.
LEMMA AdmissionTyped ==
  ASSUME TypeOK, NEW a \in Attempts,
         \/ Admit(a) \/ Deny(a) \/ AdmitInterrupted(a)
         \/ OwnerStarts(a) \/ OwnerReturns(a) \/ OwnerCancelled(a) \/ OwnerFails(a)
         \/ \E s \in ResultStatuses : OwnerCommits(a, s)
  PROVE  TypeOK'
<1> USE DEF TypeOK, owned, files
<1>1. CASE Admit(a)
  <2>1. RequestOf[a] \in Requests /\ RunOf[RequestOf[a]] \in Runs
    BY ControlledAssumption
  <2>2. /\ [attempt[a] EXCEPT !.pc = "check", !.purpose = "boundary"] \in Attempt
        /\ [attempt[a] EXCEPT !.pc = "begin"] \in Attempt
    BY DEF Attempt
  <2>3. attempt' \in [Attempts -> Attempt]
    BY <1>1, <2>2, BecomesTyped DEF Admit
  <2> QED
    BY <1>1, <2>1, <2>3 DEF Admit
<1>2. CASE Deny(a)
  BY <1>2, EndTyped DEF Deny, Outcomes
<1>3. CASE AdmitInterrupted(a)
  <2>1. RequestOf[a] \in Requests /\ RunOf[RequestOf[a]] \in Runs
    BY ControlledAssumption
  <2> QED
    BY <1>3, <2>1, EndTyped DEF AdmitInterrupted, Outcomes
<1>4. CASE OwnerStarts(a)
  <2>1. [attempt[a] EXCEPT !.pc = "owner"] \in Attempt
    BY DEF Attempt
  <2> QED
    BY <1>4, <2>1, BecomesTyped DEF OwnerStarts
<1>5. CASE OwnerReturns(a)
  <2>1. [attempt[a] EXCEPT !.pc = "check", !.answer = evidence["key"]] \in Attempt
    BY DEF Attempt
  <2> QED
    BY <1>5, <2>1, BecomesTyped DEF OwnerReturns, Owner!Tell
<1>6. CASE OwnerCancelled(a)
  <2>1. [attempt[a] EXCEPT !.pc = "check", !.purpose = "cancelled"] \in Attempt
    BY DEF Attempt
  <2> QED
    BY <1>6, <2>1, BecomesTyped DEF OwnerCancelled
<1>7. CASE OwnerFails(a)
  BY <1>7, EndTyped DEF OwnerFails, Outcomes
<1>8. ASSUME NEW s \in ResultStatuses, OwnerCommits(a, s)
      PROVE  TypeOK'
  BY <1>8 DEF OwnerCommits, Owner!Write
<1> QED
  BY <1>1, <1>2, <1>3, <1>4, <1>5, <1>6, <1>7, <1>8

\* So does one that is recorded.
LEMMA RecordingTyped ==
  ASSUME TypeOK, DraftsAreMade, NEW a \in Attempts,
         \/ Check(a) \/ Stamp(a) \/ Replay(a) \/ Resume(a) \/ Record(a) \/ Refuse(a)
         \/ Observe(a) \/ Seal(a) \/ Reply(a) \/ Interrupted(a)
  PROVE  TypeOK' /\ DraftsAreMade'
<1> USE DEF TypeOK, owned, files
<1>0. Key(a) \in Activities
  BY ControlledAssumption DEF Key
<1>1. ASSUME NEW r \in Attempt, Becomes(a, r),
             r.pc = "record" => r.draft \in Draft,
             r.pc \in Recording => r.draft \in Observation
      PROVE  attempt' \in [Attempts -> Attempt] /\ DraftsAreMade'
  BY <1>1, BecomesTyped DEF DraftsAreMade, At, Asks
<1>2. ASSUME NEW outcome \in Outcomes, End(a, outcome)
      PROVE  attempt' \in [Attempts -> Attempt] /\ DraftsAreMade'
  <2>1. /\ attempt' \in [Attempts -> Attempt]
        /\ attempt'[a] = [attempt[a] EXCEPT !.pc = "ended", !.outcome = outcome]
        /\ \A b \in Attempts : b # a => attempt'[b] = attempt[b]
    BY <1>2, EndTyped
  <2>2. attempt'[a].pc = "ended"
    BY <2>1 DEF Attempt
  <2> QED
    BY <2>1, <2>2 DEF DraftsAreMade, At, Asks, Recording
<1>3. CASE Check(a)
  <2>1. CASE End(a, "rejected")
    BY <1>2, <1>3, <2>1 DEF Check, Outcomes
  <2>2. CASE ~End(a, "rejected")
    <3> DEFINE r == [attempt[a] EXCEPT !.pc = "stamp",
                                       !.purpose = IF expired THEN "expired" ELSE @]
    <3>1. r \in Attempt /\ r.pc = "stamp"
      BY DEF Attempt
    <3>2. Becomes(a, r)
      BY <1>3, <2>2 DEF Check
    <3> HIDE DEF r
    <3> QED
      BY <1>1, <1>3, <3>1, <3>2 DEF Check, Recording
  <2> QED
    BY <2>1, <2>2
<1>4. CASE Stamp(a)
  <2> DEFINE r == [attempt[a] EXCEPT !.pc = "record", !.draft = DraftOf(a)]
  <2>1. r \in Attempt /\ r.pc = "record" /\ r.draft \in Draft
    BY DraftTyped DEF Attempt
  <2>2. Becomes(a, r)
    BY <1>4 DEF Stamp
  <2> HIDE DEF r
  <2> QED
    BY <1>1, <1>4, <2>1, <2>2 DEF Stamp, Recording
<1>5. \A o \in Observation : o \in Draft
  BY DEF Observation, Draft
<1>6. CASE Replay(a)
  <2> DEFINE r == [attempt[a] EXCEPT !.pc = "reply", !.draft = receipts[Key(a)]]
  <2>1. receipts[Key(a)] \in Observation
    BY <1>0, <1>6 DEF Replay
  <2>2. r \in Attempt /\ r.pc = "reply" /\ r.draft \in Observation
    BY <1>5, <2>1 DEF Attempt
  <2>3. Becomes(a, r)
    BY <1>6 DEF Replay
  <2> HIDE DEF r
  <2> QED
    BY <1>1, <1>6, <2>2, <2>3 DEF Replay
<1>7. CASE Resume(a)
  <2> DEFINE r == [attempt[a] EXCEPT !.pc = "seal", !.draft = observations[Key(a)]]
  <2>1. observations[Key(a)] \in Observation
    BY <1>0, <1>7 DEF Resume
  <2>2. r \in Attempt /\ r.pc = "seal" /\ r.draft \in Observation
    BY <1>5, <2>1 DEF Attempt
  <2>3. Becomes(a, r)
    BY <1>7 DEF Resume
  <2> HIDE DEF r
  <2> QED
    BY <1>1, <1>7, <2>2, <2>3 DEF Resume
<1>8. CASE Record(a)
  <2> DEFINE d == [Asks(a) EXCEPT !.at = RecordedAt(a)]
             r == [attempt[a] EXCEPT !.pc = "observe", !.draft = d]
  <2>1. Asks(a) \in Draft
    BY <1>8 DEF Record, DraftsAreMade
  <2>2. d \in Observation
    BY <2>1, StampedTyped
  <2>3. Becomes(a, r)
    BY <1>8 DEF Record
  <2> HIDE DEF d
  <2>4. r \in Attempt /\ r.pc = "observe" /\ r.draft \in Observation
    BY <1>5, <2>2 DEF Attempt
  <2> HIDE DEF r
  <2>5. attempt' \in [Attempts -> Attempt] /\ DraftsAreMade'
    BY <1>1, <2>3, <2>4
  <2>6. Asks(a).activity \in Result \cup {None}
    BY <2>1 DEF Draft
  <2>7. results' \in [Activities -> Result \cup {None}]
    BY <1>0, <1>8, <2>6 DEF Record
  <2> QED
    BY <1>8, <2>5, <2>7 DEF Record
<1>9. CASE Refuse(a)
  BY <1>2, <1>9 DEF Refuse, Outcomes
<1>10. CASE Observe(a)
  <2> DEFINE r == [attempt[a] EXCEPT !.pc = "seal"]
  <2>1. Asks(a) \in Observation
    BY <1>10 DEF Observe, DraftsAreMade, At, Recording
  <2>2. r \in Attempt /\ r.pc = "seal" /\ r.draft \in Observation
    BY <2>1 DEF Attempt, Asks
  <2>3. Becomes(a, r)
    BY <1>10 DEF Observe
  <2> HIDE DEF r
  <2> QED
    BY <1>0, <1>1, <1>10, <2>1, <2>2, <2>3 DEF Observe
<1>11. CASE Seal(a)
  <2> DEFINE r == [attempt[a] EXCEPT !.pc = "reply"]
  <2>1. Asks(a) \in Observation
    BY <1>11 DEF Seal, DraftsAreMade, At, Recording
  <2>2. r \in Attempt /\ r.pc = "reply" /\ r.draft \in Observation
    BY <2>1 DEF Attempt, Asks
  <2>3. Becomes(a, r)
    BY <1>11 DEF Seal
  <2> HIDE DEF r
  <2> QED
    BY <1>0, <1>1, <1>11, <2>1, <2>2, <2>3 DEF Seal
<1>12. CASE Reply(a)
  <2>1. Asks(a) \in Observation
    BY <1>12 DEF Reply, DraftsAreMade, At, Recording
  <2>2. OutcomesOf(attempt[a].purpose) \subseteq Outcomes
    BY DEF OutcomesOf, Outcomes, Attempt
  <2>3. attempt' \in [Attempts -> Attempt] /\ DraftsAreMade'
    BY <1>2, <1>12, <2>2 DEF Reply
  <2> QED
    BY <1>0, <1>12, <2>1, <2>3 DEF Reply
<1>13. CASE Interrupted(a)
  BY <1>2, <1>13 DEF Interrupted, Outcomes
<1> QED
  BY <1>3, <1>4, <1>6, <1>7, <1>8, <1>9, <1>10, <1>11, <1>12, <1>13
-----------------------------------------------------------------------------
(* The files of an activity.                                               *)

\* A step that writes no file and takes no attempt further into the recording.
QuietStep ==
    /\ UNCHANGED <<results, observations, receipts>>
    /\ \A b \in Attempts : attempt'[b] = attempt[b] \/ attempt'[b].pc \notin Recording

\* Such a step leaves the files as their attempts know them.
LEMMA QuietKeepsFiles ==
  ASSUME LockIsExclusive, FilesFollow, ReceiptIsBacked, QuietStep
  PROVE  LockIsExclusive' /\ FilesFollow' /\ ReceiptIsBacked'
<1>1. \A b \in Attempts : attempt'[b].pc \in Recording => attempt'[b] = attempt[b]
  BY DEF QuietStep
<1>2. LockIsExclusive'
  BY <1>1 DEF LockIsExclusive, Key, Recording
<1>3. FilesFollow'
  BY <1>1 DEF FilesFollow, QuietStep, At, Asks, Key, Recording
<1>4. ReceiptIsBacked'
  BY DEF ReceiptIsBacked, QuietStep
<1> QED
  BY <1>2, <1>3, <1>4

\* An attempt that becomes something outside the recording is a quiet step.
LEMMA BecomesQuiet ==
  ASSUME attempt \in [Attempts -> Attempt], NEW a \in Attempts,
         \/ \E r \in Attempt : Becomes(a, r) /\ r.pc \notin Recording
         \/ \E outcome \in Outcomes : End(a, outcome),
         UNCHANGED <<results, observations, receipts>>
  PROVE  QuietStep
<1>1. ASSUME NEW r \in Attempt, Becomes(a, r), r.pc \notin Recording
      PROVE  QuietStep
  BY <1>1, BecomesTyped DEF QuietStep
<1>2. ASSUME NEW outcome \in Outcomes, End(a, outcome)
      PROVE  QuietStep
  <2>1. attempt'[a] = [attempt[a] EXCEPT !.pc = "ended", !.outcome = outcome]
    BY <1>2, EndTyped
  <2>2. attempt'[a].pc = "ended"
    BY <2>1 DEF Attempt
  <2> QED
    BY <1>2, <2>2, EndTyped DEF QuietStep, Recording
<1> QED
  BY <1>1, <1>2

\* Admission, the owner, the second context check and the answer write no file.
LEMMA AdmissionQuiet ==
  ASSUME TypeOK, NEW a \in Attempts,
         \/ Admit(a) \/ Deny(a) \/ AdmitInterrupted(a)
         \/ OwnerStarts(a) \/ OwnerReturns(a) \/ OwnerCancelled(a) \/ OwnerFails(a)
         \/ \E s \in ResultStatuses : OwnerCommits(a, s)
  PROVE  QuietStep
<1> USE DEF TypeOK, owned, files, Recording
<1>1. CASE Admit(a)
  <2>1. /\ [attempt[a] EXCEPT !.pc = "check", !.purpose = "boundary"] \in Attempt
        /\ [attempt[a] EXCEPT !.pc = "begin"] \in Attempt
    BY DEF Attempt
  <2>2. /\ [attempt[a] EXCEPT !.pc = "check", !.purpose = "boundary"].pc = "check"
        /\ [attempt[a] EXCEPT !.pc = "begin"].pc = "begin"
    BY DEF Attempt
  <2> QED
    BY <1>1, <2>1, <2>2, BecomesQuiet DEF Admit
<1>2. CASE Deny(a)
  BY <1>2, BecomesQuiet DEF Deny, Outcomes
<1>3. CASE AdmitInterrupted(a)
  BY <1>3, BecomesQuiet DEF AdmitInterrupted, Outcomes
<1>4. CASE OwnerStarts(a)
  <2>1. /\ [attempt[a] EXCEPT !.pc = "owner"] \in Attempt
        /\ [attempt[a] EXCEPT !.pc = "owner"].pc = "owner"
    BY DEF Attempt
  <2> QED
    BY <1>4, <2>1, BecomesQuiet DEF OwnerStarts
<1>5. CASE OwnerReturns(a)
  <2>1. /\ [attempt[a] EXCEPT !.pc = "check", !.answer = evidence["key"]] \in Attempt
        /\ [attempt[a] EXCEPT !.pc = "check", !.answer = evidence["key"]].pc = "check"
    BY DEF Attempt
  <2> QED
    BY <1>5, <2>1, BecomesQuiet DEF OwnerReturns
<1>6. CASE OwnerCancelled(a)
  <2>1. /\ [attempt[a] EXCEPT !.pc = "check", !.purpose = "cancelled"] \in Attempt
        /\ [attempt[a] EXCEPT !.pc = "check", !.purpose = "cancelled"].pc = "check"
    BY DEF Attempt
  <2> QED
    BY <1>6, <2>1, BecomesQuiet DEF OwnerCancelled
<1>7. CASE OwnerFails(a)
  BY <1>7, BecomesQuiet DEF OwnerFails, Outcomes
<1>8. ASSUME NEW s \in ResultStatuses, OwnerCommits(a, s)
      PROVE  QuietStep
  BY <1>8 DEF OwnerCommits, QuietStep
<1> QED
  BY <1>1, <1>2, <1>3, <1>4, <1>5, <1>6, <1>7, <1>8

\* Nor do a check, a refusal, an answer or an interruption.
LEMMA RefusalQuiet ==
  ASSUME TypeOK, NEW a \in Attempts,
         Check(a) \/ Stamp(a) \/ Refuse(a) \/ Reply(a) \/ Interrupted(a)
  PROVE  QuietStep
<1> USE DEF TypeOK, owned, files, Recording
<1>1. CASE Check(a)
  <2>1. /\ [attempt[a] EXCEPT !.pc = "stamp",
                              !.purpose = IF expired THEN "expired" ELSE @] \in Attempt
        /\ [attempt[a] EXCEPT !.pc = "stamp",
                              !.purpose = IF expired THEN "expired" ELSE @].pc = "stamp"
    BY DEF Attempt
  <2> QED
    BY <1>1, <2>1, BecomesQuiet DEF Check, Outcomes
<1>2. CASE Stamp(a)
  <2>1. /\ [attempt[a] EXCEPT !.pc = "record", !.draft = DraftOf(a)] \in Attempt
        /\ [attempt[a] EXCEPT !.pc = "record", !.draft = DraftOf(a)].pc = "record"
    BY DraftTyped DEF Attempt
  <2> QED
    BY <1>2, <2>1, BecomesQuiet DEF Stamp
<1>3. CASE Refuse(a)
  BY <1>3, BecomesQuiet DEF Refuse, Outcomes
<1>4. CASE Reply(a)
  <2>1. OutcomesOf(attempt[a].purpose) \subseteq Outcomes
    BY DEF OutcomesOf, Outcomes, Attempt
  <2> QED
    BY <1>4, <2>1, BecomesQuiet DEF Reply
<1>5. CASE Interrupted(a)
  BY <1>5, BecomesQuiet DEF Interrupted, Outcomes
<1> QED
  BY <1>1, <1>2, <1>3, <1>4, <1>5

\* A receipt of an earlier attempt is what is told.
LEMMA ReplayKeepsFiles ==
  ASSUME FilesInv, NEW a \in Attempts, Replay(a)
  PROVE  LockIsExclusive' /\ FilesFollow' /\ ReceiptIsBacked'
<1> USE DEF files, FilesInv
<1>1. /\ attempt'[a].pc = "reply" /\ attempt'[a].draft = receipts[Key(a)]
      /\ \A b \in Attempts : b # a => attempt'[b] = attempt[b]
      /\ UNCHANGED <<results, observations, receipts>>
  BY DEF Replay, Becomes, TypeOK, Attempt
<1>2. LockIsExclusive'
  BY <1>1 DEF LockIsExclusive, Key
<1>3. FilesFollow'
  BY <1>1 DEF FilesFollow, At, Asks, Key
<1>4. ReceiptIsBacked'
  BY <1>1 DEF ReceiptIsBacked
<1> QED
  BY <1>2, <1>3, <1>4

\* An attempt that finds the lock free is its one holder once it takes it.
LEMMA TakesLock ==
  ASSUME LockIsExclusive, NEW a \in Attempts, ~Locked(Key(a)),
         \A b \in Attempts : b # a => attempt'[b] = attempt[b]
  PROVE  LockIsExclusive'
BY DEF LockIsExclusive, Locked, Key

\* An observation that has no receipt is completed under the lock.
LEMMA ResumeKeepsFiles ==
  ASSUME FilesInv, NEW a \in Attempts, Resume(a)
  PROVE  LockIsExclusive' /\ FilesFollow' /\ ReceiptIsBacked'
<1> USE DEF files, FilesInv
<1>1. /\ attempt'[a].pc = "seal" /\ attempt'[a].draft = observations[Key(a)]
      /\ \A b \in Attempts : b # a => attempt'[b] = attempt[b]
      /\ UNCHANGED <<results, observations, receipts>>
      /\ receipts[Key(a)] = None
  BY DEF Resume, Becomes, TypeOK, Attempt
<1>2. LockIsExclusive'
  BY <1>1, TakesLock DEF Resume
<1>3. FilesFollow'
  BY <1>1 DEF FilesFollow, At, Asks, Key
<1>4. ReceiptIsBacked'
  BY <1>1 DEF ReceiptIsBacked
<1> QED
  BY <1>2, <1>3, <1>4

\* The activity result is written under the lock, before there is an observation.
LEMMA RecordKeepsFiles ==
  ASSUME FilesInv, NEW a \in Attempts, Record(a)
  PROVE  LockIsExclusive' /\ FilesFollow' /\ ReceiptIsBacked'
<1> USE DEF files, FilesInv
<1>0. Key(a) \in Activities
  BY ControlledAssumption DEF Key
<1>1. /\ attempt'[a].pc = "observe"
      /\ attempt'[a].draft = [Asks(a) EXCEPT !.at = RecordedAt(a)]
      /\ \A b \in Attempts : b # a => attempt'[b] = attempt[b]
      /\ UNCHANGED <<observations, receipts>>
      /\ receipts[Key(a)] = None /\ observations[Key(a)] = None
  BY DEF Record, Becomes, TypeOK, Attempt
<1>2. LockIsExclusive'
  BY <1>1, TakesLock DEF Record
<1>3. attempt'[a].draft.activity = Asks(a).activity
  <2>1. Asks(a) \in Draft
    BY DEF Record, DraftsAreMade
  <2> QED
    BY <1>1, <2>1 DEF Draft
<1>4. results'[Key(a)] = Asks(a).activity
  BY <1>0 DEF Record, Unbound, TypeOK
<1>5. \A k \in Activities : k # Key(a) => results'[k] = results[k]
  BY DEF Record, TypeOK
<1>6. FilesFollow'
  <2>1. ASSUME NEW b \in Attempts, attempt'[b].pc = "observe", b # a
        PROVE  Key(b) \in Activities /\ Key(b) # Key(a)
    BY <1>1, <2>1, ControlledAssumption DEF Record, Locked, Key
  <2>2. Key(a)' = Key(a) /\ \A b \in Attempts : Key(b)' = Key(b)
    BY DEF Key
  <2>3. ASSUME NEW b \in Attempts
        PROVE  /\ At(b, "observe")' =>
                     /\ receipts'[Key(b)] = None
                     /\ observations'[Key(b)] = None
                     /\ results'[Key(b)] = Asks(b)'.activity
               /\ At(b, "seal")' => receipts'[Key(b)] = None /\ observations'[Key(b)] = Asks(b)'
               /\ At(b, "reply")' => receipts'[Key(b)] = Asks(b)'
    <3>1. CASE b = a
      BY <1>1, <1>3, <1>4, <3>1 DEF At, Asks
    <3>2. CASE b # a
      BY <1>1, <1>5, <2>1, <3>2 DEF FilesFollow, At, Asks
    <3> QED
      BY <3>1, <3>2
  <2> QED
    BY <2>2, <2>3 DEF FilesFollow
<1>7. ReceiptIsBacked'
  BY <1>1, <1>5 DEF ReceiptIsBacked
<1> QED
  BY <1>2, <1>6, <1>7

\* Whoever writes the observation or the receipt meets no other attempt of the activity
\* that does, and none that has a receipt.
LEMMA HolderIsAlone ==
  ASSUME FilesInv, NEW a \in Attempts, NEW b \in Attempts,
         attempt[a].pc \in {"observe", "seal"}, b # a, attempt[b].pc \in Recording
  PROVE  Key(b) # Key(a)
<1>1. receipts[Key(a)] = None
  BY DEF FilesInv, FilesFollow, At
<1>2. CASE attempt[b].pc = "reply"
  <2>1. receipts[Key(b)] = Asks(b) /\ Asks(b) \in Observation
    BY <1>2 DEF FilesInv, FilesFollow, DraftsAreMade, At
  <2> QED
    BY <1>1, <2>1, ControlledAssumption
<1>3. CASE attempt[b].pc \in {"observe", "seal"}
  BY <1>3 DEF FilesInv, LockIsExclusive
<1> QED
  BY <1>2, <1>3 DEF Recording

\* The observation says what the activity result says.
LEMMA ObserveKeepsFiles ==
  ASSUME FilesInv, NEW a \in Attempts, Observe(a)
  PROVE  LockIsExclusive' /\ FilesFollow' /\ ReceiptIsBacked'
<1> USE DEF files, FilesInv
<1>0. Key(a) \in Activities /\ \A b \in Attempts : Key(b) \in Activities
  BY ControlledAssumption DEF Key
<1>1. /\ attempt[a].pc = "observe"
      /\ attempt'[a].pc = "seal" /\ attempt'[a].draft = Asks(a)
      /\ \A b \in Attempts : b # a => attempt'[b] = attempt[b]
      /\ UNCHANGED <<results, receipts>>
      /\ observations'[Key(a)] = Asks(a)
      /\ \A k \in Activities : k # Key(a) => observations'[k] = observations[k]
  BY <1>0 DEF Observe, Becomes, TypeOK, Attempt, At, Asks
<1>2. LockIsExclusive'
  BY <1>1 DEF LockIsExclusive, Key
<1>3. receipts[Key(a)] = None /\ results[Key(a)] = Asks(a).activity
  BY <1>1 DEF FilesFollow, At
<1>4. FilesFollow'
  <2>1. \A b \in Attempts : b # a /\ attempt[b].pc \in Recording => Key(b) # Key(a)
    BY <1>1, HolderIsAlone
  <2> QED
    BY <1>0, <1>1, <1>3, <2>1 DEF FilesFollow, At, Asks, Key, Recording
<1>5. ReceiptIsBacked'
  BY <1>1, <1>3 DEF ReceiptIsBacked
<1> QED
  BY <1>2, <1>4, <1>5

\* The receipt says what the observation says.
LEMMA SealKeepsFiles ==
  ASSUME FilesInv, NEW a \in Attempts, Seal(a)
  PROVE  LockIsExclusive' /\ FilesFollow' /\ ReceiptIsBacked'
<1> USE DEF files, FilesInv
<1>0. Key(a) \in Activities /\ \A b \in Attempts : Key(b) \in Activities
  BY ControlledAssumption DEF Key
<1>1. /\ attempt[a].pc = "seal"
      /\ attempt'[a].pc = "reply" /\ attempt'[a].draft = Asks(a)
      /\ \A b \in Attempts : b # a => attempt'[b] = attempt[b]
      /\ UNCHANGED <<results, observations>>
      /\ receipts'[Key(a)] = Asks(a)
      /\ \A k \in Activities : k # Key(a) => receipts'[k] = receipts[k]
  BY <1>0 DEF Seal, Becomes, TypeOK, Attempt, At, Asks
<1>2. LockIsExclusive'
  BY <1>1 DEF LockIsExclusive, Key
<1>3. observations[Key(a)] = Asks(a)
  BY <1>1 DEF FilesFollow, At
<1>4. FilesFollow'
  <2>1. \A b \in Attempts : b # a /\ attempt[b].pc \in Recording => Key(b) # Key(a)
    BY <1>1, HolderIsAlone
  <2> QED
    BY <1>0, <1>1, <2>1 DEF FilesFollow, At, Asks, Key, Recording
<1>5. ReceiptIsBacked'
  BY <1>1, <1>3 DEF ReceiptIsBacked
<1> QED
  BY <1>2, <1>4, <1>5

\* Together: the files keep their invariant on every step of every attempt.
LEMMA FilesStep ==
  ASSUME FilesInv, [Next]_vars
  PROVE  FilesInv'
<1> USE DEF FilesInv
<1>1. ASSUME NEW a \in Attempts,
             \/ Admit(a) \/ Deny(a) \/ AdmitInterrupted(a)
             \/ OwnerStarts(a) \/ OwnerReturns(a) \/ OwnerCancelled(a) \/ OwnerFails(a)
             \/ \E s \in ResultStatuses : OwnerCommits(a, s)
      PROVE  FilesInv'
  <2>1. TypeOK'
    BY <1>1, AdmissionTyped
  <2>2. QuietStep
    BY <1>1, AdmissionQuiet
  <2>3. \A b \in Attempts : attempt'[b] = attempt[b] \/ attempt'[b].pc # "record"
    <3>1. CASE Admit(a)
      BY <3>1 DEF Admit, Becomes, TypeOK, Attempt
    <3>2. CASE OwnerStarts(a)
      BY <3>2 DEF OwnerStarts, Becomes, TypeOK, Attempt
    <3>3. CASE OwnerReturns(a)
      BY <3>3 DEF OwnerReturns, Becomes, TypeOK, Attempt
    <3>4. CASE OwnerCancelled(a)
      BY <3>4 DEF OwnerCancelled, Becomes, TypeOK, Attempt
    <3>5. CASE Deny(a) \/ AdmitInterrupted(a) \/ OwnerFails(a)
      <4>1. \E outcome \in Outcomes : End(a, outcome)
        BY <3>5 DEF Deny, AdmitInterrupted, OwnerFails, Outcomes
      <4> QED
        BY <4>1, EndTyped DEF TypeOK, Attempt
    <3>6. ASSUME NEW s \in ResultStatuses, OwnerCommits(a, s)
          PROVE  attempt' = attempt
      BY <3>6 DEF OwnerCommits
    <3> QED
      BY <1>1, <3>1, <3>2, <3>3, <3>4, <3>5, <3>6
  <2>4. DraftsAreMade'
    BY <2>2, <2>3 DEF DraftsAreMade, QuietStep, At, Asks
  <2> QED
    BY <2>1, <2>2, <2>4, QuietKeepsFiles
<1>2. ASSUME NEW a \in Attempts,
             Check(a) \/ Stamp(a) \/ Refuse(a) \/ Reply(a) \/ Interrupted(a)
      PROVE  FilesInv'
  BY <1>2, RecordingTyped, RefusalQuiet, QuietKeepsFiles
<1>3. ASSUME NEW a \in Attempts,
             Replay(a) \/ Resume(a) \/ Record(a) \/ Observe(a) \/ Seal(a)
      PROVE  FilesInv'
  <2>1. TypeOK' /\ DraftsAreMade'
    BY <1>3, RecordingTyped
  <2>2. LockIsExclusive' /\ FilesFollow' /\ ReceiptIsBacked'
    BY <1>3, ReplayKeepsFiles, ResumeKeepsFiles, RecordKeepsFiles, ObserveKeepsFiles,
       SealKeepsFiles
  <2> QED
    BY <2>1, <2>2
<1>4. CASE Expire \/ Remount \/ UNCHANGED vars
  <2>1. UNCHANGED <<scenario, run, request, owned, files, attempt>>
    BY <1>4 DEF Expire, Remount, vars, owned, files
  <2>2. TypeOK'
    BY <1>4, <2>1 DEF TypeOK, Expire, Remount, vars, owned, files
  <2>3. DraftsAreMade'
    BY <2>1 DEF DraftsAreMade, At, Asks
  <2>4. QuietStep
    BY <2>1 DEF QuietStep, files
  <2> QED
    BY <2>2, <2>3, <2>4, QuietKeepsFiles
<1> QED
  BY <1>1, <1>2, <1>3, <1>4 DEF Next, AttemptNext
-----------------------------------------------------------------------------
(* Bindings and passes.                                                    *)

\* Once an attempt is past admission both bindings are its own and are not written over.
LEMMA BoundStep ==
  ASSUME TypeOK, AttemptsAreBound, [Next]_vars
  PROVE  AttemptsAreBound'
<1> USE DEF AttemptsAreBound, TypeOK
<1>1. \A a \in Attempts : RequestOf[a] # None /\ RunOf[RequestOf[a]] # None
  BY ControlledAssumption
<1>2. ASSUME NEW a \in Attempts, Admit(a)
      PROVE  AttemptsAreBound'
  <2>1. request' = RequestOf[a] /\ run' = RunOf[RequestOf[a]]
    BY <1>2 DEF Admit
  <2>2. \A b \in Attempts : attempt[b].pc \notin {"scheduled", "ended"} => RequestOf[b] = RequestOf[a]
    BY <1>1, <1>2 DEF Admit, Compatible
  <2>3. \A b \in Attempts : b # a => attempt'[b] = attempt[b]
    BY <1>2 DEF Admit, Becomes
  <2> QED
    BY <2>1, <2>2, <2>3
<1>3. ASSUME NEW a \in Attempts, AdmitInterrupted(a)
      PROVE  AttemptsAreBound'
  <2>1. UNCHANGED request /\ run' = RunOf[RequestOf[a]] /\ run \in {None, run'}
    BY <1>3 DEF AdmitInterrupted, Compatible
  <2>2. attempt'[a].pc = "ended" /\ \A b \in Attempts : b # a => attempt'[b] = attempt[b]
    BY <1>3 DEF AdmitInterrupted, End, Becomes, Attempt
  <2> QED
    BY <1>1, <2>1, <2>2
<1>4. ASSUME UNCHANGED <<run, request>>,
             \A b \in Attempts : attempt'[b].pc \notin {"scheduled", "ended"} =>
                 attempt[b].pc \notin {"scheduled", "ended"}
      PROVE  AttemptsAreBound'
  BY <1>4
<1>5. ASSUME NEW a \in Attempts,
             \/ Deny(a) \/ OwnerFails(a) \/ Refuse(a) \/ Reply(a) \/ Interrupted(a)
      PROVE  AttemptsAreBound'
  <2>0. OutcomesOf(attempt[a].purpose) \subseteq Outcomes
    BY DEF OutcomesOf, Outcomes, Attempt
  <2>1. UNCHANGED <<run, request>> /\ \E outcome \in Outcomes : End(a, outcome)
    <3>1. CASE Deny(a)
      BY <3>1 DEF Deny, Outcomes
    <3>2. CASE OwnerFails(a)
      BY <3>2 DEF OwnerFails, Outcomes
    <3>3. CASE Refuse(a)
      BY <3>3 DEF Refuse, Outcomes
    <3>4. CASE Reply(a)
      BY <2>0, <3>4 DEF Reply
    <3>5. CASE Interrupted(a)
      BY <3>5 DEF Interrupted, Outcomes
    <3> QED
      BY <1>5, <3>1, <3>2, <3>3, <3>4, <3>5
  <2>2. attempt'[a].pc = "ended" /\ \A b \in Attempts : b # a => attempt'[b] = attempt[b]
    BY <2>1, EndTyped DEF Attempt
  <2> QED
    BY <1>4, <2>1, <2>2
<1>6. ASSUME NEW a \in Attempts,
             \/ OwnerStarts(a) \/ OwnerReturns(a) \/ OwnerCancelled(a)
             \/ Stamp(a) \/ Replay(a) \/ Resume(a) \/ Record(a) \/ Observe(a) \/ Seal(a)
      PROVE  AttemptsAreBound'
  <2>1. attempt[a].pc \notin {"scheduled", "ended"} /\ UNCHANGED <<run, request>>
    <3>1. CASE OwnerStarts(a) \/ OwnerReturns(a)
      BY <3>1 DEF OwnerStarts, OwnerReturns, At
    <3>2. CASE OwnerCancelled(a) \/ Stamp(a)
      BY <3>2 DEF OwnerCancelled, Awaits, Stamp, At
    <3>3. CASE Replay(a) \/ Resume(a) \/ Record(a)
      BY <3>3 DEF Replay, Resume, Record, At
    <3>4. CASE Observe(a) \/ Seal(a)
      BY <3>4 DEF Observe, Seal, At
    <3> QED
      BY <1>6, <3>1, <3>2, <3>3, <3>4
  <2>2. \A b \in Attempts : b # a => attempt'[b] = attempt[b]
    BY <1>6 DEF OwnerStarts, OwnerReturns, OwnerCancelled, Stamp, Replay, Resume, Record,
                Observe, Seal, Becomes
  <2> QED
    BY <1>4, <2>1, <2>2
<1>7. ASSUME NEW a \in Attempts, Check(a)
      PROVE  AttemptsAreBound'
  <2>1. attempt[a].pc \notin {"scheduled", "ended"} /\ UNCHANGED <<run, request>>
    BY <1>7 DEF Check, At
  <2>2. \A b \in Attempts : b # a => attempt'[b] = attempt[b]
    BY <1>7 DEF Check, End, Becomes
  <2> QED
    BY <1>4, <2>1, <2>2
<1>8. ASSUME NEW a \in Attempts, NEW s \in ResultStatuses, OwnerCommits(a, s)
      PROVE  AttemptsAreBound'
  BY <1>4, <1>8 DEF OwnerCommits
<1>9. CASE Expire \/ Remount \/ UNCHANGED vars
  BY <1>4, <1>9 DEF Expire, Remount, vars
<1> QED
  BY <1>2, <1>3, <1>5, <1>6, <1>7, <1>8, <1>9 DEF Next, AttemptNext

\* Where the owner result stands, attempts are judged as before.
LEMMA FoundedFrame ==
  ASSUME AttemptsAreFounded, UNCHANGED <<scenario, evidence>>,
         \A b \in Attempts : attempt'[b] = attempt[b] \/ Founded(attempt'[b])
  PROVE  AttemptsAreFounded'
BY DEF AttemptsAreFounded, Founded, Earned, InTime

\* So are observations.
LEMMA EarnedFrame ==
  ASSUME ObservationsAreEarned, UNCHANGED <<scenario, evidence>>, UNCHANGED observations
  PROVE  ObservationsAreEarned'
BY DEF ObservationsAreEarned, Earned, InTime

\* The first owner result of the key takes nothing from what was earned without one.
LEMMA CommitKeepsEarned ==
  ASSUME TypeOK, AttemptsAreFounded, ObservationsAreEarned,
         NEW a \in Attempts, NEW s \in ResultStatuses, OwnerCommits(a, s)
  PROVE  AttemptsAreFounded' /\ ObservationsAreEarned'
<1>1. evidence["key"] = None /\ UNCHANGED <<scenario, observations, attempt>>
  BY DEF OwnerCommits, Owner!Write, files
<1>2. \A b \in Attempts : attempt[b].answer = None
  BY <1>1 DEF AttemptsAreFounded, Founded, TypeOK, Attempt
<1>3. AttemptsAreFounded'
  BY <1>1, <1>2 DEF AttemptsAreFounded, Founded, Earned, InTime
<1>4. ObservationsAreEarned'
  BY <1>1 DEF ObservationsAreEarned, Earned, InTime
<1> QED
  BY <1>3, <1>4

\* An attempt that ends asks for nothing more.
LEMMA EndFounded ==
  ASSUME TypeOK, AttemptsAreFounded, NEW a \in Attempts, NEW outcome \in Outcomes,
         End(a, outcome)
  PROVE  \A b \in Attempts : attempt'[b] = attempt[b] \/ Founded(attempt'[b])
<1>1. /\ attempt'[a] = [attempt[a] EXCEPT !.pc = "ended", !.outcome = outcome]
      /\ \A b \in Attempts : b # a => attempt'[b] = attempt[b]
  BY EndTyped DEF TypeOK
<1>2. /\ attempt'[a].pc = "ended"
      /\ attempt'[a].answer = attempt[a].answer
      /\ attempt'[a].purpose = attempt[a].purpose
  BY <1>1 DEF TypeOK, Attempt
<1> QED
  BY <1>1, <1>2 DEF AttemptsAreFounded, Founded, Recording

\* What passes the second context check is earned.
LEMMA DraftEarned ==
  ASSUME TypeOK, AttemptsAreFounded, NEW a \in Attempts, At(a, "stamp")
  PROVE  Earned(DraftOf(a))
<1>1. /\ attempt[a].purpose \in {"result", "cancelled", "boundary", "expired"}
      /\ attempt[a].answer \in Result \cup {None}
  BY DEF TypeOK, Attempt
<1>2. CASE attempt[a].purpose = "result"
  <2>1. attempt[a].answer # None /\ evidence["key"] = attempt[a].answer
    BY <1>2 DEF AttemptsAreFounded, Founded, At
  <2>2. OwnerResult(attempt[a].answer) = "passed" =>
            scenario = "nominal" /\ attempt[a].answer.status = "ready"
    BY DEF OwnerResult
  <2>3. DraftOf(a).result = OwnerResult(attempt[a].answer) /\ DraftOf(a).activity = attempt[a].answer
    BY <1>2 DEF DraftOf, NewDraft
  <2> QED
    BY <2>1, <2>2, <2>3 DEF Earned
<1>3. CASE attempt[a].purpose = "boundary"
  <2>1. scenario = "boundary"
    BY <1>3 DEF AttemptsAreFounded, Founded
  <2>2. DraftOf(a).activity = None
    BY <1>3 DEF DraftOf, NewDraft
  <2> QED
    BY <2>1, <2>2 DEF Earned
<1>4. CASE attempt[a].purpose = "expired"
  <2>1. DraftOf(a).result = "failed"
    BY <1>4 DEF DraftOf, NewDraft
  <2> QED
    BY <2>1 DEF Earned
<1>5. CASE attempt[a].purpose = "cancelled"
  <2>1. CASE scenario = "cancellation" /\ ~expired
    <3>1. DraftOf(a).kind = "activity-cancellation-fenced"
      BY <1>5, <2>1 DEF DraftOf, NewDraft
    <3> QED
      BY <2>1, <3>1 DEF Earned
  <2>2. CASE ~(scenario = "cancellation" /\ ~expired)
    <3>1. DraftOf(a).result = "cancelled"
      BY <1>5, <2>2 DEF DraftOf, NewDraft
    <3> QED
      BY <3>1 DEF Earned
  <2> QED
    BY <2>1, <2>2
<1> QED
  BY <1>1, <1>2, <1>3, <1>4, <1>5

\* Admission and the owner: what a step makes of its attempt is founded.
LEMMA AdmissionFounded ==
  ASSUME TypeOK, AttemptsAreFounded, NEW a \in Attempts,
         \/ Admit(a) \/ Deny(a) \/ AdmitInterrupted(a)
         \/ OwnerStarts(a) \/ OwnerReturns(a) \/ OwnerCancelled(a) \/ OwnerFails(a)
  PROVE  /\ \A b \in Attempts : attempt'[b] = attempt[b] \/ Founded(attempt'[b])
         /\ UNCHANGED <<scenario, evidence, observations>>
<1> USE DEF owned, files
<1>1. ASSUME NEW outcome \in Outcomes, End(a, outcome)
      PROVE  \A b \in Attempts : attempt'[b] = attempt[b] \/ Founded(attempt'[b])
  BY <1>1, EndFounded
<1>2. CASE Deny(a) \/ AdmitInterrupted(a) \/ OwnerFails(a)
  <2>1. \E outcome \in Outcomes : End(a, outcome)
    BY <1>2 DEF Deny, AdmitInterrupted, OwnerFails, Outcomes
  <2>2. UNCHANGED <<scenario, evidence, observations>>
    BY <1>2 DEF Deny, AdmitInterrupted, OwnerFails
  <2> QED
    BY <1>1, <2>1, <2>2
<1>3. ASSUME NEW r, Becomes(a, r), Founded(r)
      PROVE  \A b \in Attempts : attempt'[b] = attempt[b] \/ Founded(attempt'[b])
  BY <1>3 DEF Becomes, TypeOK
<1>4. attempt[a] \in Attempt /\ Founded(attempt[a])
  BY DEF TypeOK, AttemptsAreFounded
<1>5. CASE Admit(a)
  <2> DEFINE b == [attempt[a] EXCEPT !.pc = "check", !.purpose = "boundary"]
             r == [attempt[a] EXCEPT !.pc = "begin"]
  <2>1. b.pc = "check" /\ b.purpose = "boundary" /\ b.answer = attempt[a].answer
    BY <1>4 DEF Attempt
  <2>2. scenario = "boundary" => Founded(b)
    <3> HIDE DEF b
    <3> QED
      BY <1>4, <2>1 DEF Founded, Recording
  <2>3. r.pc = "begin" /\ r.purpose = attempt[a].purpose /\ r.answer = attempt[a].answer
    BY <1>4 DEF Attempt
  <2>4. Founded(r)
    <3> HIDE DEF r
    <3> QED
      BY <1>4, <2>3 DEF Founded, Recording
  <2>5. (scenario = "boundary" /\ Becomes(a, b)) \/ Becomes(a, r)
    BY <1>5 DEF Admit
  <2>6. UNCHANGED <<scenario, evidence, observations>>
    BY <1>5 DEF Admit
  <2> HIDE DEF b, r
  <2> QED
    BY <1>3, <2>2, <2>4, <2>5, <2>6
<1>6. CASE OwnerStarts(a)
  <2> DEFINE r == [attempt[a] EXCEPT !.pc = "owner"]
  <2>1. r.pc = "owner" /\ r.purpose = attempt[a].purpose /\ r.answer = attempt[a].answer
    BY <1>4 DEF Attempt
  <2>2. Becomes(a, r) /\ UNCHANGED <<scenario, evidence, observations>>
    BY <1>6 DEF OwnerStarts
  <2> HIDE DEF r
  <2>3. Founded(r)
    BY <1>4, <2>1 DEF Founded, Recording
  <2> QED
    BY <1>3, <2>2, <2>3
<1>7. CASE OwnerReturns(a)
  <2> DEFINE r == [attempt[a] EXCEPT !.pc = "check", !.answer = evidence["key"]]
  <2>1. r.pc = "check" /\ r.purpose = attempt[a].purpose /\ r.answer = evidence["key"]
    BY <1>4 DEF Attempt
  <2>2. Becomes(a, r) /\ UNCHANGED <<scenario, evidence, observations>> /\ evidence["key"] # None
    BY <1>7 DEF OwnerReturns, Owner!Tell
  <2> HIDE DEF r
  <2>3. Founded(r)
    BY <1>4, <2>1, <2>2 DEF Founded, Recording
  <2> QED
    BY <1>3, <2>2, <2>3
<1>8. CASE OwnerCancelled(a)
  <2> DEFINE r == [attempt[a] EXCEPT !.pc = "check", !.purpose = "cancelled"]
  <2>1. r.pc = "check" /\ r.purpose = "cancelled" /\ r.answer = attempt[a].answer
    BY <1>4 DEF Attempt
  <2>2. Becomes(a, r) /\ UNCHANGED <<scenario, evidence, observations>>
    BY <1>8 DEF OwnerCancelled
  <2> HIDE DEF r
  <2>3. Founded(r)
    BY <1>4, <2>1 DEF Founded, Recording
  <2> QED
    BY <1>3, <2>2, <2>3
<1> QED
  BY <1>2, <1>5, <1>6, <1>7, <1>8

\* The recording: so is what it makes of its attempt.
LEMMA RecordingFounded ==
  ASSUME FilesInv, AttemptsAreFounded, ObservationsAreEarned,
         NEW a \in Attempts,
         \/ Check(a) \/ Stamp(a) \/ Replay(a) \/ Resume(a) \/ Record(a) \/ Refuse(a)
         \/ Observe(a) \/ Seal(a) \/ Reply(a) \/ Interrupted(a)
  PROVE  /\ \A b \in Attempts : attempt'[b] = attempt[b] \/ Founded(attempt'[b])
         /\ UNCHANGED <<scenario, evidence>>
<1> USE DEF owned, files
<1>1. TypeOK
  BY DEF FilesInv
<1>2. ASSUME NEW outcome \in Outcomes, End(a, outcome)
      PROVE  \A b \in Attempts : attempt'[b] = attempt[b] \/ Founded(attempt'[b])
  BY <1>1, <1>2, EndFounded
<1>3. ASSUME NEW r, Becomes(a, r), Founded(r)
      PROVE  \A b \in Attempts : attempt'[b] = attempt[b] \/ Founded(attempt'[b])
  BY <1>1, <1>3 DEF Becomes, TypeOK
<1>4. attempt[a] \in Attempt /\ Founded(attempt[a]) /\ Key(a) \in Activities
  BY <1>1, ControlledAssumption DEF TypeOK, AttemptsAreFounded, Key
<1>5. UNCHANGED <<scenario, evidence>>
  BY DEF Check, Stamp, Replay, Resume, Record, Refuse, Observe, Seal, Reply, Interrupted
<1>6. CASE Check(a)
  <2> DEFINE r == [attempt[a] EXCEPT !.pc = "stamp",
                                     !.purpose = IF expired THEN "expired" ELSE @]
  <2>1. /\ r.pc = "stamp" /\ r.answer = attempt[a].answer
        /\ r.purpose \in {"expired", attempt[a].purpose}
    BY <1>4 DEF Attempt
  <2>2. attempt[a].pc = "check" /\ (End(a, "rejected") \/ Becomes(a, r))
    BY <1>6 DEF Check, At
  <2> HIDE DEF r
  <2>3. Founded(r)
    BY <1>4, <2>1, <2>2 DEF Founded, Recording
  <2>4. "rejected" \in Outcomes
    BY DEF Outcomes
  <2> QED
    BY <1>2, <1>3, <1>5, <2>2, <2>3, <2>4
<1>7. CASE Stamp(a)
  <2> DEFINE r == [attempt[a] EXCEPT !.pc = "record", !.draft = DraftOf(a)]
  <2>1. /\ r.pc = "record" /\ r.answer = attempt[a].answer
        /\ r.purpose = attempt[a].purpose /\ r.draft = DraftOf(a)
    BY <1>4 DEF Attempt
  <2>2. Becomes(a, r) /\ At(a, "stamp")
    BY <1>7 DEF Stamp
  <2> HIDE DEF r
  <2>3. Founded(r)
    BY <1>1, <1>4, <2>1, <2>2, DraftEarned DEF Founded, Recording
  <2> QED
    BY <1>3, <1>5, <2>2, <2>3
<1>8. CASE Replay(a)
  <2> DEFINE r == [attempt[a] EXCEPT !.pc = "reply", !.draft = receipts[Key(a)]]
  <2>1. /\ r.pc = "reply" /\ r.answer = attempt[a].answer
        /\ r.purpose = attempt[a].purpose /\ r.draft = receipts[Key(a)]
    BY <1>4 DEF Attempt
  <2>2. Becomes(a, r) /\ receipts[Key(a)] # None
    BY <1>8 DEF Replay
  <2>3. observations[Key(a)] = receipts[Key(a)]
    BY <1>4, <2>2 DEF FilesInv, ReceiptIsBacked
  <2> HIDE DEF r
  <2>4. Founded(r)
    BY <1>4, <2>1, <2>2, <2>3 DEF Founded, ObservationsAreEarned
  <2> QED
    BY <1>3, <1>5, <2>2, <2>4
<1>9. CASE Resume(a)
  <2> DEFINE r == [attempt[a] EXCEPT !.pc = "seal", !.draft = observations[Key(a)]]
  <2>1. /\ r.pc = "seal" /\ r.answer = attempt[a].answer
        /\ r.purpose = attempt[a].purpose /\ r.draft = observations[Key(a)]
    BY <1>4 DEF Attempt
  <2>2. Becomes(a, r) /\ observations[Key(a)] # None
    BY <1>9 DEF Resume
  <2> HIDE DEF r
  <2>3. Founded(r)
    BY <1>4, <2>1, <2>2 DEF Founded, ObservationsAreEarned
  <2> QED
    BY <1>3, <1>5, <2>2, <2>3
<1>10. CASE Record(a)
  <2> DEFINE d == [Asks(a) EXCEPT !.at = RecordedAt(a)]
             r == [attempt[a] EXCEPT !.pc = "observe", !.draft = d]
  <2>1. Asks(a) \in Draft /\ Earned(Asks(a)) /\ RecordedAt(a) \in Instants /\ ~Late(a)
    <3>1. Asks(a) \in Draft /\ At(a, "record") /\ ~Late(a)
      BY <1>10 DEF Record, FilesInv, DraftsAreMade
    <3>2. RecordedAt(a) \in Instants
      BY <3>1 DEF RecordedAt, Now, Instants, Draft
    <3>3. Earned(Asks(a))
      BY <1>4, <3>1 DEF Founded, At, Asks
    <3> QED
      BY <3>1, <3>2, <3>3
  <2>2. /\ d.result = Asks(a).result /\ d.kind = Asks(a).kind
        /\ d.activity = Asks(a).activity /\ d.at = RecordedAt(a)
    BY <2>1 DEF Draft
  <2>3. Becomes(a, r)
    BY <1>10 DEF Record
  <2> HIDE DEF d
  <2>4. Earned(d)
    BY <2>1, <2>2 DEF Earned
  <2>5. InTime(d)
    BY <2>1, <2>2 DEF InTime, Late, Instants
  <2>6. /\ r.pc = "observe" /\ r.answer = attempt[a].answer
        /\ r.purpose = attempt[a].purpose /\ r.draft = d
    BY <1>4 DEF Attempt
  <2> HIDE DEF r
  <2>7. Founded(r)
    BY <1>4, <2>4, <2>5, <2>6 DEF Founded
  <2> QED
    BY <1>3, <1>5, <2>3, <2>7
<1>11. CASE Observe(a) \/ Seal(a)
  <2> PICK pc \in {"seal", "reply"} : Becomes(a, [attempt[a] EXCEPT !.pc = pc])
    BY <1>11 DEF Observe, Seal
  <2> DEFINE r == [attempt[a] EXCEPT !.pc = pc]
  <2>1. /\ r.pc = pc /\ r.answer = attempt[a].answer
        /\ r.purpose = attempt[a].purpose /\ r.draft = attempt[a].draft
    BY <1>4 DEF Attempt
  <2>2. Becomes(a, r) /\ attempt[a].pc \in {"observe", "seal"}
    BY <1>11 DEF Observe, Seal, At
  <2> HIDE DEF r
  <2>3. Founded(r)
    BY <1>4, <2>1, <2>2 DEF Founded, Recording
  <2> QED
    BY <1>3, <1>5, <2>2, <2>3
<1>12. CASE Refuse(a) \/ Reply(a) \/ Interrupted(a)
  <2>1. OutcomesOf(attempt[a].purpose) \subseteq Outcomes
    BY <1>4 DEF OutcomesOf, Outcomes, Attempt
  <2>2. \E outcome \in Outcomes : End(a, outcome)
    <3>1. CASE Refuse(a)
      BY <3>1 DEF Refuse, Outcomes
    <3>2. CASE Reply(a)
      BY <2>1, <3>2 DEF Reply
    <3>3. CASE Interrupted(a)
      BY <3>3 DEF Interrupted, Outcomes
    <3> QED
      BY <1>12, <3>1, <3>2, <3>3
  <2> QED
    BY <1>2, <1>5, <2>2
<1> QED
  BY <1>6, <1>7, <1>8, <1>9, <1>10, <1>11, <1>12

\* Observations are earned when they are written.
LEMMA ObservationsStep ==
  ASSUME FilesInv, AttemptsAreFounded, ObservationsAreEarned,
         NEW a \in Attempts, Observe(a)
  PROVE  ObservationsAreEarned'
<1>1. Key(a) \in Activities
  BY ControlledAssumption DEF Key
<1>2. Earned(Asks(a)) /\ InTime(Asks(a)) /\ UNCHANGED <<scenario, evidence>>
  BY DEF Observe, AttemptsAreFounded, Founded, Recording, At, Asks, owned
<1>3. /\ observations'[Key(a)] = Asks(a)
      /\ \A k \in Activities : k # Key(a) => observations'[k] = observations[k]
  BY <1>1 DEF Observe, FilesInv, TypeOK
<1> QED
  BY <1>2, <1>3 DEF ObservationsAreEarned, Earned, InTime
-----------------------------------------------------------------------------
(* The theorems.                                                           *)

\* The inductive invariant holds at first.
LEMMA InitInductive ==
  ASSUME Init
  PROVE  Inductive
<1>1. TypeOK
  BY DEF Init, Owner!Init, TypeOK, Attempt, Outcomes
<1>2. \A a \in Attempts : attempt[a] = [pc |-> "scheduled", purpose |-> "result", answer |-> None,
                                        draft |-> None, outcome |-> "pending"]
  BY DEF Init
<1>3. DraftsAreMade /\ LockIsExclusive /\ FilesFollow
  BY <1>2 DEF DraftsAreMade, LockIsExclusive, FilesFollow, At, Recording
<1>4. ReceiptIsBacked /\ ObservationsAreEarned
  BY DEF Init, ReceiptIsBacked, ObservationsAreEarned
<1>5. AttemptsAreBound
  BY <1>2 DEF AttemptsAreBound
<1>6. AttemptsAreFounded
  <2>1. ASSUME NEW a \in Attempts
        PROVE  Founded(attempt[a])
    <3>1. attempt[a].pc = "scheduled"
      BY <1>2
    <3>2. attempt[a].purpose = "result"
      BY <1>2
    <3>3. attempt[a].answer = None
      BY <1>2
    <3> QED
      BY <3>1, <3>2, <3>3 DEF Founded, Recording
  <2> QED
    BY <2>1 DEF AttemptsAreFounded
<1> QED
  BY <1>1, <1>3, <1>4, <1>5, <1>6 DEF Inductive, FilesInv

\* What is founded and earned stays so on every step.
LEMMA EarnedStep ==
  ASSUME FilesInv, AttemptsAreFounded, ObservationsAreEarned, [Next]_vars
  PROVE  AttemptsAreFounded' /\ ObservationsAreEarned'
<1>1. TypeOK
  BY DEF FilesInv
<1>2. ASSUME NEW a \in Attempts,
             \/ Admit(a) \/ Deny(a) \/ AdmitInterrupted(a)
             \/ OwnerStarts(a) \/ OwnerReturns(a) \/ OwnerCancelled(a) \/ OwnerFails(a)
      PROVE  AttemptsAreFounded' /\ ObservationsAreEarned'
  <2>1. /\ \A b \in Attempts : attempt'[b] = attempt[b] \/ Founded(attempt'[b])
        /\ UNCHANGED <<scenario, evidence, observations>>
    BY <1>1, <1>2, AdmissionFounded
  <2> QED
    BY <2>1, FoundedFrame, EarnedFrame
<1>3. ASSUME NEW a \in Attempts, NEW s \in ResultStatuses, OwnerCommits(a, s)
      PROVE  AttemptsAreFounded' /\ ObservationsAreEarned'
  BY <1>1, <1>3, CommitKeepsEarned
<1>4. ASSUME NEW a \in Attempts,
             \/ Check(a) \/ Stamp(a) \/ Replay(a) \/ Resume(a) \/ Record(a) \/ Refuse(a)
             \/ Observe(a) \/ Seal(a) \/ Reply(a) \/ Interrupted(a)
      PROVE  AttemptsAreFounded' /\ ObservationsAreEarned'
  <2>1. /\ \A b \in Attempts : attempt'[b] = attempt[b] \/ Founded(attempt'[b])
        /\ UNCHANGED <<scenario, evidence>>
    BY <1>4, RecordingFounded
  <2>2. AttemptsAreFounded'
    BY <2>1, FoundedFrame
  <2>3. CASE Observe(a)
    BY <2>2, <2>3, ObservationsStep
  <2>4. CASE ~Observe(a)
    <3>1. UNCHANGED observations
      BY <1>4, <2>4 DEF Check, Stamp, Replay, Resume, Record, Refuse, Seal, Reply, Interrupted, files
    <3> QED
      BY <2>1, <2>2, <3>1, EarnedFrame
  <2> QED
    BY <2>3, <2>4
<1>5. CASE Expire \/ Remount \/ UNCHANGED vars
  <2>1. UNCHANGED <<scenario, evidence, observations, attempt>>
    BY <1>5 DEF Expire, Remount, vars, owned, files
  <2> QED
    BY <2>1, FoundedFrame, EarnedFrame
<1> QED
  BY <1>2, <1>3, <1>4, <1>5 DEF Next, AttemptNext

\* The inductive invariant holds in every reachable state.
THEOREM InductiveCorrect == Spec => []Inductive
<1>1. Init => Inductive
  BY InitInductive
<1>2. Inductive /\ [Next]_vars => Inductive'
  BY FilesStep, BoundStep, EarnedStep DEF Inductive, FilesInv
<1> QED
  BY <1>1, <1>2, PTL DEF Spec

\* The bindings, the context, the evidence files and the attempts are well typed in every
\* reachable state.
THEOREM TypeCorrect == Spec => []TypeOK
<1>1. Inductive => TypeOK
  BY DEF Inductive, FilesInv
<1> QED
  BY <1>1, InductiveCorrect, PTL

\* A receipt has the observation and the activity result it names, whichever attempts
\* wrote the three files and wherever they were interrupted
\* (commit_controlled_proof_owner_receipt).
THEOREM BackedCorrect == Spec => []ReceiptIsBacked
<1>1. Inductive => ReceiptIsBacked
  BY DEF Inductive, FilesInv
<1> QED
  BY <1>1, InductiveCorrect, PTL

\* Every attempt past admission carries the bound request and run
\* (bind_controlled_proof_request).
THEOREM BoundCorrect == Spec => []AttemptsAreBound
<1>1. Inductive => AttemptsAreBound
  BY DEF Inductive
<1> QED
  BY <1>1, InductiveCorrect, PTL

\* A passing receipt was recorded in time for what its scenario proves
\* (owner_result_for_activity_result and the cancellation and boundary receipts).
THEOREM EarnedCorrect == Spec => []PassIsEarned
<1>1. Inductive => PassIsEarned
  <2> SUFFICES ASSUME Inductive, NEW k \in Activities,
                      receipts[k] # None, receipts[k].result = "passed"
               PROVE  Earned(receipts[k]) /\ InTime(receipts[k])
    BY DEF PassIsEarned, Earned, InTime
  <2>1. observations[k] = receipts[k]
    BY DEF Inductive, FilesInv, ReceiptIsBacked
  <2> QED
    BY <2>1 DEF Inductive, ObservationsAreEarned
<1> QED
  BY <1>1, InductiveCorrect, PTL

\* Each step writes a receipt that was not there, tells the one that is, or does neither.
LEMMA ReceiptsStep ==
  ASSUME Inductive, [Next]_vars
  PROVE  [Receipts!Next]_<<receipts, told>>
<1> USE DEF files
<1>1. TypeOK /\ DraftsAreMade /\ FilesFollow
  BY DEF Inductive, FilesInv
<1>2. ASSUME NEW a \in Attempts, Seal(a)
      PROVE  Receipts!Next
  <2>1. Key(a) \in Activities /\ receipts[Key(a)] = None
    BY <1>1, <1>2, ControlledAssumption DEF Seal, FilesFollow, Key
  <2>2. Asks(a) \in Observation
    BY <1>1, <1>2 DEF Seal, DraftsAreMade, At, Recording
  <2>3. /\ receipts' = [receipts EXCEPT ![Key(a)] = Asks(a)]
        /\ receipts'[Key(a)] = Asks(a)
        /\ UNCHANGED told
    BY <1>1, <1>2, <2>1 DEF Seal, TypeOK
  <2>4. Receipts!Write(Key(a), receipts'[Key(a)])
    BY <2>1, <2>2, <2>3 DEF Receipts!Write
  <2> QED
    BY <2>1, <2>4 DEF Receipts!Next
<1>3. ASSUME NEW a \in Attempts, Reply(a)
      PROVE  Receipts!Next
  <2>1. Key(a) \in Activities /\ receipts[Key(a)] = Asks(a)
    BY <1>1, <1>3, ControlledAssumption DEF Reply, FilesFollow, Key
  <2>2. receipts[Key(a)] # None
    BY <1>1, <1>3, <2>1, ControlledAssumption DEF Reply, DraftsAreMade, At, Recording
  <2>3. Receipts!Tell(Key(a))
    BY <1>3, <2>1, <2>2 DEF Reply, Receipts!Tell
  <2> QED
    BY <2>1, <2>3 DEF Receipts!Next
<1>4. ASSUME NEW a \in Attempts,
             \/ Admit(a) \/ Deny(a) \/ AdmitInterrupted(a)
             \/ OwnerStarts(a) \/ OwnerReturns(a) \/ OwnerCancelled(a) \/ OwnerFails(a)
             \/ \E s \in ResultStatuses : OwnerCommits(a, s)
      PROVE  UNCHANGED <<receipts, told>>
  BY <1>4 DEF Admit, Deny, AdmitInterrupted, OwnerStarts, OwnerReturns, OwnerCancelled,
              OwnerFails, OwnerCommits
<1>5. ASSUME NEW a \in Attempts,
             \/ Check(a) \/ Stamp(a) \/ Replay(a) \/ Resume(a) \/ Record(a) \/ Refuse(a)
             \/ Observe(a) \/ Interrupted(a)
      PROVE  UNCHANGED <<receipts, told>>
  BY <1>5 DEF Check, Stamp, Replay, Resume, Record, Refuse, Observe, Interrupted
<1>6. CASE Expire \/ Remount \/ UNCHANGED vars
  BY <1>6 DEF Expire, Remount, vars
<1> QED
  BY <1>2, <1>3, <1>4, <1>5, <1>6 DEF Next, AttemptNext

\* Each activity has one receipt, written once and told to every attempt that succeeds:
\* the three files implement WriteOnce (commit_controlled_proof_owner_receipt).
THEOREM ReceiptsCorrect == Spec => ReceiptsAreWrittenOnce
<1>1. Init => Receipts!Init
  BY DEF Init, Receipts!Init
<1>2. Inductive /\ [Next]_vars => [Receipts!Next]_<<receipts, told>>
  BY ReceiptsStep
<1> QED
  BY <1>1, <1>2, InductiveCorrect, PTL DEF Spec, ReceiptsAreWrittenOnce
=============================================================================
