------------------------ MODULE InstanceRecordsProofs ------------------------
(* What the internal operational records promise, for any number of threads, any requests, *)
(* records and values, and whatever the governance policy allows while it moves.           *)
EXTENDS InstanceRecords, SequenceTheorems, TLAPS

\* Every variable stays in its domain.
TypeOK ==
    /\ rows \in [Records -> State \cup {None}]
    /\ revisions \in [Records -> Seq(Revision)]
    /\ operations \in [Keys -> Operation \cup {None}]
    /\ policy \in Policies
    /\ answers \subseteq Operation
    /\ call \in [Workers -> Call]
    /\ calls \in Nat /\ changes \in Nat

\* The steps of a decision that holds the row it read, if there was one.
Locked == {"validate", "write", "commit"}

\* What a decision relies on.  Its key has no operation once it has looked, since only the holder
\* of the key could add one; the row it has locked, or is about to insert beside, is the state its
\* request was reviewed against; and no committed row or operation is under a key it is writing.
DecisionKnows(w) ==
    LET c == call[w] IN
    /\ c.pc \in {"begin"} \cup Deciding => c.request \in Requests /\ c.record = RecordOf[c.request]
    /\ c.pc \in Deciding \ {"operation"} => operations[Key(w)] = None
    /\ c.pc \in {"lock", "recover"} \cup Locked =>
          c.policy \in Policies /\ c.request \in Allows[c.policy]
    /\ c.pc \in Locked =>
          c.seen = ExpectedOf[c.request] /\ (c.seen # None => rows[c.record] = c.seen)
    /\ c.pc \in {"write", "commit"} /\ c.seen # None =>
          ProviderOf[c.seen.value] = ProviderOf[ValueOf[c.request]]
    /\ c.pc = "commit" => ~Taken(w)
    /\ c.pc = "reply" /\ c.outcome = "accepted" =>
          /\ c.request \in Requests /\ operations[KeyOf[c.request]] # None
          /\ operations[KeyOf[c.request]] = [request |-> c.request, version |-> c.version]

\* What a read of the source authority relies on: since it read the row, the record is in that
\* state or in a later version, and in a later one when the second policy read found it changed.
ReadingKnows(w) ==
    LET c == call[w] IN
    /\ c.pc \in Reading => c.record \in Records
    /\ c.pc \in {"second", "third", "compare"} =>
          /\ c.seen \in State /\ rows[c.record] \in State
          /\ rows[c.record] = c.seen \/ rows[c.record].version > c.seen.version
    /\ c.pc \in {"third", "compare"} /\ ~c.holds => rows[c.record].version > c.seen.version
    /\ c.pc = "reply" /\ c.outcome = "granted" => c.holds

\* Two decisions never hold one key, nor one row, nor write under one unique key.
Apart(w, u) ==
    /\ call[w].pc \in Deciding /\ call[u].pc \in Deciding => Key(w) # Key(u)
    /\ call[w].pc \in Locked /\ call[u].pc \in Locked /\ call[w].record = call[u].record =>
          call[w].seen = None \/ call[u].seen = None
    /\ At(w, "commit") => ~MustWaitFor(w, u)

\* No two records bind one provider repository, and no two operations use one AI decision.
BindingsAreUnique ==
    /\ \A r, s \in Records :
          /\ rows[r] # None /\ rows[s] # None
          /\ Shares(ProviderOf[rows[r].value], ProviderOf[rows[s].value])
          => r = s
    /\ \A k, l \in Keys :
          /\ operations[k] # None /\ operations[l] # None
          /\ Shares(SuggestionOf[operations[k].request], SuggestionOf[operations[l].request])
          => k = l

\* An operation is retained under the key of its request.
OperationsAreKeyed == \A k \in Keys : operations[k] # None => KeyOf[operations[k].request] = k

RecordsInv ==
    /\ TypeOK
    /\ \A w \in Workers : DecisionKnows(w) /\ ReadingKnows(w)
    /\ \A w \in Workers : \A u \in Workers \ {w} : Apart(w, u)
    /\ HistoryIsBound
    /\ BindingsAreUnique
    /\ OperationsAreKeyed
-----------------------------------------------------------------------------
(* Moves of a call.                                                        *)

\* Worker w moves, and no other does.
Moved(w) == /\ call' \in [Workers -> Call]
            /\ \A u \in Workers \ {w} : call'[u] = call[u]

\* It stays with its request and its record ...
KeepsTarget(w) == call'[w].request = call[w].request /\ call'[w].record = call[w].record
\* ... or with everything but its step.
KeepsCall(w) == /\ KeepsTarget(w)
                /\ call'[w].policy = call[w].policy /\ call'[w].seen = call[w].seen
                /\ call'[w].holds = call[w].holds /\ call'[w].outcome = call[w].outcome

CallSteps == {"idle", "begin", "reply"} \cup Deciding \cup Reading

\* Only w has another call when it becomes r.
LEMMA BecomesMoves ==
  ASSUME call \in [Workers -> Call], NEW w \in Workers, NEW r \in Call, Becomes(w, r)
  PROVE  Moved(w) /\ call'[w] = r
BY DEF Becomes, Moved

\* A call that ends leaves its worker idle.
LEMMA EndMoves ==
  ASSUME call \in [Workers -> Call], NEW w \in Workers, NEW o \in Outcomes, End(w, o)
  PROVE  Moved(w) /\ call'[w].pc = "idle" /\ call'[w].outcome = o
<1> PICK r : r = [Idle EXCEPT !.outcome = o]
  OBVIOUS
<1>1. r \in Call /\ r.pc = "idle" /\ r.outcome = o
  BY DEF Idle, Call, Outcomes
<1>2. Becomes(w, r)
  BY DEF End
<1> QED BY <1>1, <1>2, BecomesMoves

\* A call that goes on keeps what it holds.
LEMMA GoMoves ==
  ASSUME call \in [Workers -> Call], NEW w \in Workers, NEW pc \in CallSteps, Go(w, pc)
  PROVE  Moved(w) /\ call'[w].pc = pc /\ KeepsCall(w)
<1> PICK r : r = [call[w] EXCEPT !.pc = pc]
  OBVIOUS
<1>1. /\ r \in Call /\ r.pc = pc
      /\ r.request = call[w].request /\ r.record = call[w].record /\ r.policy = call[w].policy
      /\ r.seen = call[w].seen /\ r.holds = call[w].holds /\ r.outcome = call[w].outcome
  BY DEF Call, CallSteps
<1>2. Becomes(w, r)
  BY DEF Go
<1> QED BY <1>1, <1>2, BecomesMoves DEF KeepsCall, KeepsTarget

\* Decisions stay apart when the one that moves takes no further lock and begins no commit.
LEMMA ApartKept ==
  ASSUME NEW w \in Workers, Moved(w), KeepsTarget(w),
         call'[w].pc \in Deciding => call[w].pc \in Deciding,
         call'[w].pc \in Locked => call[w].pc \in Locked /\ call'[w].seen = call[w].seen,
         call'[w].pc # "commit",
         \A u \in Workers \ {w} : Apart(w, u) /\ Apart(u, w)
  PROVE  \A u \in Workers \ {w} : Apart(w, u)' /\ Apart(u, w)'
<1> SUFFICES ASSUME NEW u \in Workers \ {w} PROVE Apart(w, u)' /\ Apart(u, w)'
  OBVIOUS
<1>1. call'[u] = call[u]
  BY DEF Moved
<1>2. Key(w)' = Key(w) /\ Key(u)' = Key(u)
  BY <1>1 DEF Key, KeepsTarget
<1>3. ~At(w, "commit")' /\ ~MustWaitFor(u, w)'
  BY DEF At, MustWaitFor
<1>4. Apart(w, u) /\ Apart(u, w)
  OBVIOUS
<1> QED BY <1>1, <1>2, <1>3, <1>4 DEF Apart, KeepsTarget

\* A call that does not move knows what it knew, as long as the tables stay.
LEMMA StillKnows ==
  ASSUME NEW u \in Workers, call'[u] = call[u], UNCHANGED <<rows, operations>>,
         DecisionKnows(u), ReadingKnows(u)
  PROVE  DecisionKnows(u)' /\ ReadingKnows(u)'
<1>1. Key(u)' = Key(u)
  BY DEF Key
<1>2. Taken(u)' <=> Taken(u)
  BY DEF Taken
<1>3. DecisionKnows(u)'
  BY <1>1, <1>2 DEF DecisionKnows
<1>4. ReadingKnows(u)'
  BY DEF ReadingKnows
<1> QED BY <1>3, <1>4

\* So a step that writes no table has only the call that moves to answer for.
LEMMA QuietStep ==
  ASSUME RecordsInv, NEW w \in Workers, Moved(w), UNCHANGED <<tables, policy, changes>>,
         answers' \subseteq Operation, calls' \in Nat,
         DecisionKnows(w)', ReadingKnows(w)',
         \A u \in Workers \ {w} : Apart(w, u)' /\ Apart(u, w)'
  PROVE  RecordsInv'
<1>1. TypeOK'
  BY DEF RecordsInv, TypeOK, Moved, tables
<1>2. \A u \in Workers \ {w} : DecisionKnows(u)' /\ ReadingKnows(u)'
  BY StillKnows DEF RecordsInv, Moved, tables
<1>3. ASSUME NEW u \in Workers, NEW v \in Workers \ {u} PROVE Apart(u, v)'
  <2>1. CASE u # w /\ v # w
    <3>1. call'[u] = call[u] /\ call'[v] = call[v] /\ Apart(u, v)
      BY <2>1 DEF RecordsInv, Moved
    <3> QED BY <3>1 DEF Apart, Key, At, MustWaitFor
  <2> QED BY <2>1
<1>4. HistoryIsBound' /\ BindingsAreUnique' /\ OperationsAreKeyed'
  BY DEF RecordsInv, HistoryIsBound, StateAt, BindingsAreUnique, OperationsAreKeyed, tables
<1> QED BY <1>1, <1>2, <1>3, <1>4 DEF RecordsInv

\* A step that ends the call, or leaves it outside the decision and the read, needs no more.
LEMMA EndedStep ==
  ASSUME RecordsInv, NEW w \in Workers, Moved(w), call'[w].pc = "idle",
         UNCHANGED <<tables, policy, changes>>, answers' \subseteq Operation, calls' \in Nat
  PROVE  RecordsInv'
<1>1. DecisionKnows(w)' /\ ReadingKnows(w)'
  BY DEF DecisionKnows, ReadingKnows, Deciding, Reading, Locked
<1>2. call'[w].pc \notin Deciding
  BY DEF Deciding
<1>3. \A u \in Workers \ {w} : Apart(w, u)' /\ Apart(u, w)'
  BY <1>2 DEF Apart, MustWaitFor, At, Deciding, Locked
<1> QED BY <1>1, <1>3, QuietStep
-----------------------------------------------------------------------------
(* The steps of a call, one by one.                                        *)

\* An outcome without effect.
LEMMA EndStep ==
  ASSUME RecordsInv, NEW w \in Workers, NEW o \in Outcomes, End(w, o),
         UNCHANGED <<tables, policy, answers, calls, changes>>
  PROVE  RecordsInv'
<1>1. Moved(w) /\ call'[w].pc = "idle"
  BY EndMoves DEF RecordsInv, TypeOK
<1>2. answers' \subseteq Operation /\ calls' \in Nat
  BY DEF RecordsInv, TypeOK
<1> QED BY <1>1, <1>2, EndedStep

\* A step within a call that changes no lock.
LEMMA SameLocksStep ==
  ASSUME RecordsInv, NEW w \in Workers, Moved(w), KeepsTarget(w),
         UNCHANGED <<tables, policy, answers, calls, changes>>,
         call'[w].pc \in Deciding => call[w].pc \in Deciding,
         call'[w].pc \in Locked => call[w].pc \in Locked /\ call'[w].seen = call[w].seen,
         call'[w].pc # "commit",
         DecisionKnows(w)', ReadingKnows(w)'
  PROVE  RecordsInv'
<1>1. \A u \in Workers \ {w} : Apart(w, u)' /\ Apart(u, w)'
  BY ApartKept DEF RecordsInv
<1>2. answers' \subseteq Operation /\ calls' \in Nat
  BY DEF RecordsInv, TypeOK
<1> QED BY <1>1, <1>2, QuietStep

\* A call starts without a lock.
LEMMA StartStep ==
  ASSUME RecordsInv, NEW w \in Workers, Start(w)
  PROVE  RecordsInv'
<1>0. call \in [Workers -> Call] /\ calls \in Nat /\ answers \subseteq Operation
  BY DEF RecordsInv, TypeOK
<1>1. calls' \in Nat /\ answers' \subseteq Operation
  <2>1. calls' = calls + 1 /\ answers' = answers
    BY DEF Start
  <2> QED BY <1>0, <2>1
<1>2. UNCHANGED <<tables, policy, changes>>
  BY DEF Start
<1>3. \/ \E op \in Operations \cap {"accept", "resolve"}, q \in Requests :
            Becomes(w, [Idle EXCEPT !.pc = "begin", !.op = op, !.request = q,
                                    !.record = RecordOf[q]])
      \/ \E r \in Records :
            Becomes(w, [Idle EXCEPT !.pc = "context", !.op = "authority", !.record = r])
  BY DEF Start
<1>4. ASSUME NEW op \in Operations \cap {"accept", "resolve"}, NEW q \in Requests,
             Becomes(w, [Idle EXCEPT !.pc = "begin", !.op = op, !.request = q,
                                     !.record = RecordOf[q]])
      PROVE  Moved(w) /\ DecisionKnows(w)' /\ ReadingKnows(w)' /\ call'[w].pc \notin Deciding
  <2> PICK c : c = [Idle EXCEPT !.pc = "begin", !.op = op, !.request = q, !.record = RecordOf[q]]
    OBVIOUS
  <2>1. c \in Call /\ c.pc = "begin" /\ c.request = q /\ c.record = RecordOf[q]
    BY RecordsAssumption DEF Idle, Call, Outcomes
  <2>2. Moved(w) /\ call'[w] = c
    BY <1>0, <1>4, <2>1, BecomesMoves
  <2> QED BY <2>1, <2>2 DEF DecisionKnows, ReadingKnows, Deciding, Locked, Reading
<1>5. ASSUME NEW r \in Records,
             Becomes(w, [Idle EXCEPT !.pc = "context", !.op = "authority", !.record = r])
      PROVE  Moved(w) /\ DecisionKnows(w)' /\ ReadingKnows(w)' /\ call'[w].pc \notin Deciding
  <2> PICK c : c = [Idle EXCEPT !.pc = "context", !.op = "authority", !.record = r]
    OBVIOUS
  <2>1. c \in Call /\ c.pc = "context" /\ c.record = r
    BY DEF Idle, Call, Outcomes, Reading
  <2>2. Moved(w) /\ call'[w] = c
    BY <1>0, <1>5, <2>1, BecomesMoves
  <2> QED BY <2>1, <2>2 DEF DecisionKnows, ReadingKnows, Deciding, Locked, Reading
<1>6. Moved(w) /\ DecisionKnows(w)' /\ ReadingKnows(w)' /\ call'[w].pc \notin Deciding
  BY <1>3, <1>4, <1>5
<1>7. \A u \in Workers \ {w} : Apart(w, u)' /\ Apart(u, w)'
  BY <1>6 DEF Apart, MustWaitFor, At, Deciding, Locked
<1> QED BY <1>1, <1>2, <1>6, <1>7, QuietStep

\* The operation lock is taken only when nobody holds its key.
LEMMA BeginStep ==
  ASSUME RecordsInv, NEW w \in Workers, Begin(w)
  PROVE  RecordsInv'
<1>1. call \in [Workers -> Call] /\ At(w, "begin") /\ DecisionKnows(w)
      /\ UNCHANGED <<tables, policy, answers, calls, changes>>
  BY DEF RecordsInv, TypeOK, Begin
<1>2. CASE End(w, "unavailable")
  BY <1>1, <1>2, EndStep DEF Outcomes
<1>3. CASE (\A u \in Workers : ~HoldsKey(u, Key(w))) /\ Go(w, "operation")
  <2>1. Moved(w) /\ call'[w].pc = "operation" /\ KeepsCall(w)
    BY <1>1, <1>3, GoMoves DEF CallSteps, Deciding
  <2>2. DecisionKnows(w)' /\ ReadingKnows(w)'
    BY <1>1, <2>1 DEF DecisionKnows, ReadingKnows, At, KeepsCall, KeepsTarget, Deciding, Locked, Reading
  <2>3. ASSUME NEW u \in Workers \ {w} PROVE Apart(w, u)' /\ Apart(u, w)'
    <3>1. call'[u] = call[u] /\ ~HoldsKey(u, Key(w)) /\ Key(w)' = Key(w) /\ Key(u)' = Key(u)
      BY <1>3, <2>1 DEF Moved, Key, KeepsCall, KeepsTarget
    <3> QED BY <2>1, <3>1 DEF HoldsKey, Apart, MustWaitFor, At, Locked
  <2>4. answers' \subseteq Operation /\ calls' \in Nat
    BY <1>1 DEF RecordsInv, TypeOK
  <2> QED BY <1>1, <2>1, <2>2, <2>3, <2>4, QuietStep
<1> QED BY <1>2, <1>3 DEF Begin

\* A retained operation is answered with the version it has.
LEMMA ReplayStep ==
  ASSUME RecordsInv, NEW w \in Workers, call[w].pc \in Deciding, operations[Key(w)] # None,
         Replay(w), UNCHANGED <<tables, policy, answers, calls, changes>>
  PROVE  RecordsInv'
<1> PICK q, k : q = call[w].request /\ k = Key(w)
  OBVIOUS
<1>1. call \in [Workers -> Call] /\ q \in Requests /\ k = KeyOf[q] /\ k \in Keys
  BY RecordsAssumption DEF RecordsInv, TypeOK, DecisionKnows, Key
<1>2. CASE operations[k].request # q
  <2>1. End(w, "conflict")
    BY <1>2 DEF Replay
  <2> QED BY <2>1, EndStep DEF Outcomes
<1>3. CASE operations[k].request = q
  <2> PICK v : v = operations[k].version
    OBVIOUS
  <2> PICK c : c = [call[w] EXCEPT !.pc = "reply", !.outcome = "accepted", !.version = v]
    OBVIOUS
  <2>1. operations[k] = [request |-> q, version |-> v] /\ v \in Nat
    BY <1>1, <1>3 DEF RecordsInv, TypeOK, Operation
  <2>2. /\ c \in Call /\ c.pc = "reply" /\ c.outcome = "accepted" /\ c.version = v
        /\ c.request = q /\ c.record = call[w].record
    BY <1>1, <2>1 DEF Call, Outcomes
  <2>3. Moved(w) /\ call'[w] = c
    BY <1>1, <1>3, <2>2, BecomesMoves DEF Replay
  <2>4. DecisionKnows(w)'
    <3>1. operations'[KeyOf[q]] = [request |-> q, version |-> v] /\ operations'[KeyOf[q]] # None
      BY <1>1, <2>1 DEF tables, Key
    <3>2. call'[w].pc = "reply" /\ call'[w].request = q /\ call'[w].version = v
      BY <2>2, <2>3
    <3> QED BY <1>1, <3>1, <3>2 DEF DecisionKnows, Deciding, Locked
  <2>5. ReadingKnows(w)'
    BY <2>2, <2>3 DEF ReadingKnows, Reading
  <2>6. KeepsTarget(w) /\ call'[w].pc \notin Deciding /\ call'[w].pc \notin Locked
        /\ call'[w].pc # "commit"
    BY <2>2, <2>3 DEF KeepsTarget, Deciding, Locked
  <2> QED BY <2>3, <2>4, <2>5, <2>6, SameLocksStep
<1> QED BY <1>2, <1>3

\* Under the lock the key is seen to be free, or its operation is answered.
LEMMA ReadOperationStep ==
  ASSUME RecordsInv, NEW w \in Workers, ReadOperation(w)
  PROVE  RecordsInv'
<1>1. call \in [Workers -> Call] /\ At(w, "operation") /\ call[w].pc \in Deciding /\ DecisionKnows(w)
      /\ UNCHANGED <<tables, policy, answers, calls, changes>>
  BY DEF RecordsInv, TypeOK, ReadOperation, At, Deciding
<1>2. CASE operations[Key(w)] # None /\ Replay(w)
  BY <1>1, <1>2, ReplayStep
<1>3. CASE End(w, "absent")
  BY <1>1, <1>3, EndStep DEF Outcomes
<1>4. CASE operations[Key(w)] = None /\ Go(w, "plan")
  <2>1. Moved(w) /\ call'[w].pc = "plan" /\ KeepsCall(w)
    BY <1>1, <1>4, GoMoves DEF CallSteps, Deciding
  <2>2. Key(w)' = Key(w)
    BY <2>1 DEF Key, KeepsCall, KeepsTarget
  <2>3. DecisionKnows(w)' /\ ReadingKnows(w)'
    BY <1>1, <1>4, <2>1, <2>2
       DEF DecisionKnows, ReadingKnows, KeepsCall, KeepsTarget, Deciding, Locked, Reading, tables
  <2>4. KeepsTarget(w) /\ call'[w].pc \notin Locked /\ call'[w].pc # "commit"
    BY <2>1 DEF KeepsCall, Locked
  <2> QED BY <1>1, <2>1, <2>3, <2>4, SameLocksStep
<1> QED BY <1>2, <1>3, <1>4 DEF ReadOperation

\* What holds of every call that starts a step.
LEMMA StepFacts ==
  ASSUME RecordsInv, NEW w \in Workers
  PROVE  /\ call \in [Workers -> Call] /\ call[w] \in Call
         /\ DecisionKnows(w) /\ ReadingKnows(w)
         /\ \A u \in Workers \ {w} : Apart(w, u) /\ Apart(u, w)
         /\ policy \in Policies /\ rows \in [Records -> State \cup {None}]
BY DEF RecordsInv, TypeOK

\* The plan is made under the revision it names.
LEMMA PlanStep ==
  ASSUME RecordsInv, NEW w \in Workers, Plan(w)
  PROVE  RecordsInv'
<1>1. At(w, "plan") /\ UNCHANGED <<tables, policy, answers, calls, changes>>
  BY DEF Plan
<1>2. CASE End(w, "conflict")
  BY <1>1, <1>2, EndStep DEF Outcomes
<1>3. CASE /\ call[w].request \in Allows[policy]
           /\ Becomes(w, [call[w] EXCEPT !.pc = "lock", !.policy = policy])
  <2> PICK c : c = [call[w] EXCEPT !.pc = "lock", !.policy = policy]
    OBVIOUS
  <2>1. /\ c \in Call /\ c.pc = "lock" /\ c.policy = policy
        /\ c.request = call[w].request /\ c.record = call[w].record
    BY StepFacts DEF Call, Deciding
  <2>2. Moved(w) /\ call'[w] = c
    BY <1>3, <2>1, StepFacts, BecomesMoves
  <2>3. Key(w)' = Key(w)
    BY <2>1, <2>2 DEF Key
  <2>4. DecisionKnows(w)' /\ ReadingKnows(w)'
    BY <1>1, <1>3, <2>1, <2>2, <2>3, StepFacts
       DEF DecisionKnows, ReadingKnows, At, Deciding, Locked, Reading, tables
  <2>5. KeepsTarget(w) /\ call[w].pc \in Deciding /\ call'[w].pc \notin Locked
        /\ call'[w].pc # "commit"
    BY <1>1, <2>1, <2>2 DEF KeepsTarget, Deciding, Locked, At
  <2> QED BY <1>1, <2>2, <2>4, <2>5, SameLocksStep
<1> QED BY <1>2, <1>3 DEF Plan

\* The row lock is taken only when nobody holds the row, in the state that was reviewed.
LEMMA LockRowStep ==
  ASSUME RecordsInv, NEW w \in Workers, LockRow(w)
  PROVE  RecordsInv'
<1> PICK r : r = call[w].record
  OBVIOUS
<1>1. /\ At(w, "lock") /\ UNCHANGED <<tables, policy, answers, calls, changes>>
      /\ \A u \in Workers : ~HoldsRow(u, r)
  BY DEF LockRow
<1>2. CASE End(w, "conflict")
  BY <1>1, <1>2, EndStep DEF Outcomes
<1>3. CASE /\ ExpectedOf[call[w].request] = rows[r]
           /\ Becomes(w, [call[w] EXCEPT !.pc = "validate", !.seen = rows[r]])
  <2> PICK s : s = rows[r]
    OBVIOUS
  <2> PICK c : c = [call[w] EXCEPT !.pc = "validate", !.seen = s]
    OBVIOUS
  <2>1. r \in Records
    <3>1. call[w].request \in Requests /\ r = RecordOf[call[w].request]
      BY <1>1, StepFacts DEF DecisionKnows, At, Deciding
    <3> QED BY <3>1, RecordsAssumption
  <2>0. s \in State \cup {None}
    BY <2>1, StepFacts
  <2>2. /\ c \in Call /\ c.pc = "validate" /\ c.seen = s /\ c.policy = call[w].policy
        /\ c.request = call[w].request /\ c.record = r
    BY <2>0, StepFacts DEF Call, Deciding
  <2>3. Moved(w) /\ call'[w] = c
    BY <1>3, <2>2, StepFacts, BecomesMoves
  <2>4. Key(w)' = Key(w)
    BY <2>2, <2>3 DEF Key
  <2>5. DecisionKnows(w)' /\ ReadingKnows(w)'
    <3>1. s = ExpectedOf[call[w].request] /\ rows'[r] = s /\ operations'[Key(w)] = None
      BY <1>1, <1>3, StepFacts DEF DecisionKnows, At, Deciding, Locked, tables
    <3>2. DecisionKnows(w)'
      BY <1>1, <2>2, <2>3, <2>4, <3>1, StepFacts DEF DecisionKnows, At, Deciding, Locked
    <3> QED BY <2>2, <2>3, <3>2 DEF ReadingKnows, Reading
  <2>6. ASSUME NEW u \in Workers \ {w} PROVE Apart(w, u)' /\ Apart(u, w)'
    <3>1. call'[u] = call[u] /\ Key(u)' = Key(u) /\ ~HoldsRow(u, r) /\ Apart(w, u) /\ Apart(u, w)
      BY <1>1, <2>3, StepFacts DEF Moved, Key
    <3> QED
      BY <1>1, <2>2, <2>3, <2>4, <3>1 DEF HoldsRow, Apart, MustWaitFor, At, Deciding, Locked
  <2>7. answers' \subseteq Operation /\ calls' \in Nat
    BY <1>1 DEF RecordsInv, TypeOK
  <2> QED BY <1>1, <2>3, <2>5, <2>6, <2>7, QuietStep
<1> QED BY <1>2, <1>3 DEF LockRow

\* The policy is confirmed, and the provider binding is the row's.
LEMMA ValidateStep ==
  ASSUME RecordsInv, NEW w \in Workers, Validate(w)
  PROVE  RecordsInv'
<1>1. At(w, "validate") /\ UNCHANGED <<tables, policy, answers, calls, changes>>
  BY DEF Validate
<1>2. CASE End(w, "conflict")
  BY <1>1, <1>2, EndStep DEF Outcomes
<1>3. CASE /\ call[w].seen # None =>
                 ProviderOf[call[w].seen.value] = ProviderOf[ValueOf[call[w].request]]
           /\ Go(w, "write")
  <2>1. Moved(w) /\ call'[w].pc = "write" /\ KeepsCall(w)
    BY <1>3, StepFacts, GoMoves DEF CallSteps, Deciding
  <2>2. Key(w)' = Key(w)
    BY <2>1 DEF Key, KeepsCall, KeepsTarget
  <2>3. DecisionKnows(w)' /\ ReadingKnows(w)'
    BY <1>1, <1>3, <2>1, <2>2, StepFacts
       DEF DecisionKnows, ReadingKnows, At, KeepsCall, KeepsTarget, Deciding, Locked, Reading, tables
  <2>4. KeepsTarget(w) /\ call[w].pc \in Deciding /\ call[w].pc \in Locked
        /\ call'[w].seen = call[w].seen /\ call'[w].pc # "commit"
    BY <1>1, <2>1 DEF KeepsCall, Deciding, Locked, At
  <2> QED BY <1>1, <2>1, <2>3, <2>4, SameLocksStep
<1> QED BY <1>2, <1>3 DEF Validate

\* The flush waits for the writes under its keys, and finds none of them committed.
LEMMA WriteStep ==
  ASSUME RecordsInv, NEW w \in Workers, Write(w)
  PROVE  RecordsInv'
<1>1. /\ At(w, "write") /\ UNCHANGED <<tables, policy, answers, calls, changes>>
      /\ \A u \in Workers : ~MustWaitFor(w, u)
  BY DEF Write
<1>2. CASE End(w, "conflict")
  BY <1>1, <1>2, EndStep DEF Outcomes
<1>3. CASE Go(w, "recover")
  <2>1. Moved(w) /\ call'[w].pc = "recover" /\ KeepsCall(w)
    BY <1>3, StepFacts, GoMoves DEF CallSteps, Deciding
  <2>2. Key(w)' = Key(w)
    BY <2>1 DEF Key, KeepsCall, KeepsTarget
  <2>3. DecisionKnows(w)' /\ ReadingKnows(w)'
    BY <1>1, <1>3, <2>1, <2>2, StepFacts
       DEF DecisionKnows, ReadingKnows, At, KeepsCall, KeepsTarget, Deciding, Locked, Reading, tables
  <2>4. KeepsTarget(w) /\ call[w].pc \in Deciding /\ call'[w].pc \notin Locked
        /\ call'[w].pc # "commit"
    BY <1>1, <2>1 DEF KeepsCall, Deciding, Locked, At
  <2> QED BY <1>1, <2>1, <2>3, <2>4, SameLocksStep
<1>4. CASE ~Taken(w) /\ Go(w, "commit")
  <2>1. Moved(w) /\ call'[w].pc = "commit" /\ KeepsCall(w)
    BY <1>4, StepFacts, GoMoves DEF CallSteps, Deciding
  <2>2. Key(w)' = Key(w) /\ ~Taken(w)'
    BY <1>1, <1>4, <2>1 DEF Key, KeepsCall, KeepsTarget, Taken, tables
  <2>3. DecisionKnows(w)' /\ ReadingKnows(w)'
    BY <1>1, <2>1, <2>2, StepFacts
       DEF DecisionKnows, ReadingKnows, At, KeepsCall, KeepsTarget, Deciding, Locked, Reading, tables
  <2>4. ASSUME NEW u \in Workers \ {w} PROVE Apart(w, u)' /\ Apart(u, w)'
    <3>1. /\ call'[u] = call[u] /\ Key(u)' = Key(u) /\ Apart(w, u) /\ Apart(u, w)
          /\ ~MustWaitFor(w, u)
      BY <1>1, <2>1, StepFacts DEF Moved, Key
    <3>2. ~MustWaitFor(w, u)'
      BY <2>1, <3>1 DEF MustWaitFor, At, KeepsCall, KeepsTarget
    <3>3. At(u, "commit")' => ~MustWaitFor(u, w)'
      BY <3>2 DEF MustWaitFor, Shares
    <3> QED
      BY <1>1, <2>1, <2>2, <3>1, <3>2, <3>3
         DEF Apart, At, Deciding, Locked, KeepsCall, KeepsTarget
  <2>5. answers' \subseteq Operation /\ calls' \in Nat
    BY <1>1 DEF RecordsInv, TypeOK
  <2> QED BY <1>1, <2>1, <2>3, <2>4, <2>5, QuietStep
<1> QED BY <1>2, <1>3, <1>4 DEF Write

\* A rolled back write looks for the operation of its key once more.
LEMMA RecoverStep ==
  ASSUME RecordsInv, NEW w \in Workers, Recover(w)
  PROVE  RecordsInv'
<1>1. At(w, "recover") /\ call[w].pc \in Deciding
      /\ UNCHANGED <<tables, policy, answers, calls, changes>>
  BY DEF Recover, At, Deciding
<1>2. CASE operations[Key(w)] # None /\ Replay(w)
  BY <1>1, <1>2, ReplayStep
<1>3. CASE End(w, "conflict")
  BY <1>1, <1>3, EndStep DEF Outcomes
<1> QED BY <1>2, <1>3 DEF Recover

\* The read of the source authority starts with the policy ...
LEMMA ReadContextStep ==
  ASSUME RecordsInv, NEW w \in Workers, ReadContext(w)
  PROVE  RecordsInv'
<1> PICK c : c = [call[w] EXCEPT !.pc = "row", !.policy = policy]
  OBVIOUS
<1>1. /\ At(w, "context") /\ UNCHANGED <<tables, policy, answers, calls, changes>>
      /\ Becomes(w, c)
  BY DEF ReadContext
<1>2. c \in Call /\ c.pc = "row" /\ c.request = call[w].request /\ c.record = call[w].record
  BY StepFacts DEF Call, Reading
<1>3. Moved(w) /\ call'[w] = c
  BY <1>1, <1>2, StepFacts, BecomesMoves
<1>4. DecisionKnows(w)' /\ ReadingKnows(w)'
  BY <1>1, <1>2, <1>3, StepFacts DEF DecisionKnows, ReadingKnows, At, Deciding, Locked, Reading
<1>5. KeepsTarget(w) /\ call'[w].pc \notin Deciding /\ call'[w].pc \notin Locked
      /\ call'[w].pc # "commit"
  BY <1>2, <1>3 DEF KeepsTarget, Deciding, Locked
<1> QED BY <1>1, <1>3, <1>4, <1>5, SameLocksStep

\* ... goes on with the row ...
LEMMA ReadRowStep ==
  ASSUME RecordsInv, NEW w \in Workers, ReadRow(w)
  PROVE  RecordsInv'
<1> PICK r : r = call[w].record
  OBVIOUS
<1>1. /\ At(w, "row") /\ UNCHANGED <<tables, policy, answers, calls, changes>>
      /\ r \in Records /\ rows[r] \in State \cup {None}
  BY StepFacts DEF ReadRow, At, ReadingKnows, Reading
<1>2. CASE End(w, "conflict")
  BY <1>1, <1>2, EndStep DEF Outcomes
<1>3. CASE Becomes(w, [call[w] EXCEPT !.pc = "reply", !.outcome = "legacy"])
  <2> PICK c : c = [call[w] EXCEPT !.pc = "reply", !.outcome = "legacy"]
    OBVIOUS
  <2>1. /\ c \in Call /\ c.pc = "reply" /\ c.outcome = "legacy"
        /\ c.request = call[w].request /\ c.record = call[w].record
    BY StepFacts DEF Call, Outcomes
  <2>2. Moved(w) /\ call'[w] = c
    BY <1>3, <2>1, StepFacts, BecomesMoves
  <2>3. DecisionKnows(w)' /\ ReadingKnows(w)'
    BY <2>1, <2>2 DEF DecisionKnows, ReadingKnows, Deciding, Locked, Reading
  <2>4. KeepsTarget(w) /\ call'[w].pc \notin Deciding /\ call'[w].pc \notin Locked
        /\ call'[w].pc # "commit"
    BY <2>1, <2>2 DEF KeepsTarget, Deciding, Locked
  <2> QED BY <1>1, <2>2, <2>3, <2>4, SameLocksStep
<1>4. CASE rows[r] # None /\ Becomes(w, [call[w] EXCEPT !.pc = "second", !.seen = rows[r]])
  <2> PICK s : s = rows[r]
    OBVIOUS
  <2> PICK c : c = [call[w] EXCEPT !.pc = "second", !.seen = s]
    OBVIOUS
  <2>0. s \in State
    BY <1>1, <1>4
  <2>1. /\ c \in Call /\ c.pc = "second" /\ c.seen = s
        /\ c.request = call[w].request /\ c.record = call[w].record
    BY <2>0, StepFacts DEF Call, Reading
  <2>2. Moved(w) /\ call'[w] = c
    BY <1>4, <2>1, StepFacts, BecomesMoves
  <2>3. rows'[r] = s
    BY <1>1 DEF tables
  <2>4. DecisionKnows(w)' /\ ReadingKnows(w)'
    BY <1>1, <2>0, <2>1, <2>2, <2>3 DEF DecisionKnows, ReadingKnows, Deciding, Locked, Reading
  <2>5. KeepsTarget(w) /\ call'[w].pc \notin Deciding /\ call'[w].pc \notin Locked
        /\ call'[w].pc # "commit"
    BY <2>1, <2>2 DEF KeepsTarget, Deciding, Locked
  <2> QED BY <1>1, <2>2, <2>4, <2>5, SameLocksStep
<1> QED BY <1>2, <1>3, <1>4 DEF ReadRow

\* ... and with the policy again, when it is noted whether the row is still the one read.
LEMMA ReadAgainStep ==
  ASSUME RecordsInv, NEW w \in Workers, ReadAgain(w)
  PROVE  RecordsInv'
<1> PICK r, s : r = call[w].record /\ s = call[w].seen
  OBVIOUS
<1>1. /\ At(w, "second") /\ UNCHANGED <<tables, policy, answers, calls, changes>>
      /\ r \in Records /\ s \in State /\ rows[r] \in State
      /\ rows[r] = s \/ rows[r].version > s.version
  BY StepFacts DEF ReadAgain, At, ReadingKnows, Reading
<1>2. CASE End(w, "conflict")
  BY <1>1, <1>2, EndStep DEF Outcomes
<1>3. CASE Becomes(w, [call[w] EXCEPT !.pc = "third", !.holds = (rows[r] = s)])
  <2> PICK c : c = [call[w] EXCEPT !.pc = "third", !.holds = (rows[r] = s)]
    OBVIOUS
  <2>1. /\ c \in Call /\ c.pc = "third" /\ c.seen = s
        /\ c.request = call[w].request /\ c.record = call[w].record
    BY StepFacts DEF Call, Reading
  <2>2. c.holds <=> rows[r] = s
    BY StepFacts DEF Call
  <2>3. Moved(w) /\ call'[w] = c
    BY <1>3, <2>1, StepFacts, BecomesMoves
  <2>4. rows'[r] = rows[r]
    BY <1>1 DEF tables
  <2>5. DecisionKnows(w)' /\ ReadingKnows(w)'
    BY <1>1, <2>1, <2>2, <2>3, <2>4 DEF DecisionKnows, ReadingKnows, Deciding, Locked, Reading
  <2>6. KeepsTarget(w) /\ call'[w].pc \notin Deciding /\ call'[w].pc \notin Locked
        /\ call'[w].pc # "commit"
    BY <2>1, <2>3 DEF KeepsTarget, Deciding, Locked
  <2> QED BY <1>1, <2>3, <2>5, <2>6, SameLocksStep
<1> QED BY <1>2, <1>3 DEF ReadAgain

\* The second read of the policy changes nothing else.
LEMMA ReadContextAgainStep ==
  ASSUME RecordsInv, NEW w \in Workers, ReadContextAgain(w)
  PROVE  RecordsInv'
<1>1. At(w, "third") /\ UNCHANGED <<tables, policy, answers, calls, changes>>
  BY DEF ReadContextAgain
<1>2. CASE End(w, "conflict")
  BY <1>1, <1>2, EndStep DEF Outcomes
<1>3. CASE Go(w, "compare")
  <2>1. Moved(w) /\ call'[w].pc = "compare" /\ KeepsCall(w)
    BY <1>3, StepFacts, GoMoves DEF CallSteps, Reading
  <2>2. DecisionKnows(w)' /\ ReadingKnows(w)'
    BY <1>1, <2>1, StepFacts
       DEF DecisionKnows, ReadingKnows, At, KeepsCall, KeepsTarget, Deciding, Locked, Reading, tables
  <2>3. KeepsTarget(w) /\ call'[w].pc \notin Deciding /\ call'[w].pc \notin Locked
        /\ call'[w].pc # "commit"
    BY <2>1 DEF KeepsCall, Deciding, Locked
  <2> QED BY <1>1, <2>1, <2>2, <2>3, SameLocksStep
<1> QED BY <1>2, <1>3 DEF ReadContextAgain

\* A row that is still the one read was so at the second policy read: versions only grow.
LEMMA CompareRowStep ==
  ASSUME RecordsInv, NEW w \in Workers, CompareRow(w)
  PROVE  RecordsInv'
<1> PICK r, s : r = call[w].record /\ s = call[w].seen
  OBVIOUS
<1>1. /\ At(w, "compare") /\ UNCHANGED <<tables, policy, answers, calls, changes>>
      /\ s \in State /\ (~call[w].holds => rows[r].version > s.version)
  BY StepFacts DEF CompareRow, At, ReadingKnows, Reading
<1>2. CASE End(w, "conflict")
  BY <1>1, <1>2, EndStep DEF Outcomes
<1>3. CASE rows[r] = s /\ Becomes(w, [call[w] EXCEPT !.pc = "reply", !.outcome = "granted"])
  <2> PICK c : c = [call[w] EXCEPT !.pc = "reply", !.outcome = "granted"]
    OBVIOUS
  <2>1. /\ c \in Call /\ c.pc = "reply" /\ c.outcome = "granted" /\ c.holds = call[w].holds
        /\ c.request = call[w].request /\ c.record = call[w].record
    BY StepFacts DEF Call, Outcomes
  <2>2. call[w].holds
    BY <1>1, <1>3 DEF State
  <2>3. Moved(w) /\ call'[w] = c
    BY <1>3, <2>1, StepFacts, BecomesMoves
  <2>4. DecisionKnows(w)' /\ ReadingKnows(w)'
    BY <2>1, <2>2, <2>3 DEF DecisionKnows, ReadingKnows, Deciding, Locked, Reading
  <2>5. KeepsTarget(w) /\ call'[w].pc \notin Deciding /\ call'[w].pc \notin Locked
        /\ call'[w].pc # "commit"
    BY <2>1, <2>3 DEF KeepsTarget, Deciding, Locked
  <2> QED BY <1>1, <2>3, <2>4, <2>5, SameLocksStep
<1> QED BY <1>2, <1>3 DEF CompareRow

\* What a caller is told is a retained operation.
LEMMA ReplyStep ==
  ASSUME RecordsInv, NEW w \in Workers, Reply(w)
  PROVE  RecordsInv'
<1>1. At(w, "reply") /\ UNCHANGED <<tables, policy, calls, changes>> /\ End(w, call[w].outcome)
  BY DEF Reply
<1>2. Moved(w) /\ call'[w].pc = "idle"
  BY <1>1, StepFacts, EndMoves DEF Call
<1>3. answers \subseteq Operation /\ calls' \in Nat
  BY <1>1 DEF RecordsInv, TypeOK
<1>4. ASSUME call[w].outcome = "accepted"
      PROVE  [request |-> call[w].request, version |-> call[w].version] \in Operation
  <2> PICK q, v : q = call[w].request /\ v = call[w].version
    OBVIOUS
  <2>1. /\ q \in Requests /\ operations[KeyOf[q]] # None
        /\ operations[KeyOf[q]] = [request |-> q, version |-> v]
    BY <1>1, <1>4, StepFacts DEF DecisionKnows, At
  <2>2. operations[KeyOf[q]] \in Operation
    BY <2>1, RecordsAssumption DEF RecordsInv, TypeOK
  <2> QED BY <2>1, <2>2
<1>5. answers' \subseteq Operation
  BY <1>3, <1>4 DEF Reply
<1> QED BY <1>1, <1>2, <1>3, <1>5, EndedStep

\* A failure ends the call.
LEMMA FailStep ==
  ASSUME RecordsInv, NEW w \in Workers, Fail(w)
  PROVE  RecordsInv'
BY EndStep DEF Fail, Outcomes

\* The governance checkout is in no table, and no call relies on its staying.
LEMMA ChangePolicyStep ==
  ASSUME RecordsInv, ChangePolicy
  PROVE  RecordsInv'
<1>1. UNCHANGED <<rows, revisions, operations, answers, call, calls>>
      /\ policy' \in Policies /\ changes' = changes + 1
  BY DEF ChangePolicy, tables
<1>2. TypeOK'
  BY <1>1 DEF RecordsInv, TypeOK
<1>3. \A u \in Workers : DecisionKnows(u)' /\ ReadingKnows(u)'
  BY <1>1, StillKnows DEF RecordsInv
<1>4. \A u \in Workers : \A v \in Workers \ {u} : Apart(u, v)'
  BY <1>1 DEF RecordsInv, Apart, Key, At, MustWaitFor
<1>5. HistoryIsBound' /\ BindingsAreUnique' /\ OperationsAreKeyed'
  BY <1>1 DEF RecordsInv, HistoryIsBound, StateAt, BindingsAreUnique, OperationsAreKeyed
<1> QED BY <1>2, <1>3, <1>4, <1>5 DEF RecordsInv
-----------------------------------------------------------------------------
(* The commit.                                                             *)

\* Worker w commits request q, planned under revision p, as version n of its record: the record is
\* as q was reviewed, and nobody has used its key.
Accepts(w, q, p, n) ==
    LET r == RecordOf[q]
        k == KeyOf[q]
        s == ExpectedOf[q] IN
    /\ q = call[w].request /\ r = call[w].record /\ s = call[w].seen
    /\ q \in Allows[p]
    /\ rows[r] = s
    /\ s # None => ProviderOf[s.value] = ProviderOf[ValueOf[q]]
    /\ operations[k] = None
    /\ n = Len(revisions[r]) + 1
    /\ rows' = [rows EXCEPT ![r] = [version |-> n, value |-> ValueOf[q]]]
    /\ revisions' = [revisions EXCEPT ![r] =
          Append(@, [value |-> ValueOf[q], key |-> k, policy |-> p, previous |-> s])]
    /\ operations' = [operations EXCEPT ![k] = [request |-> q, version |-> n]]
    /\ UNCHANGED <<policy, answers, calls, changes>>
    /\ Moved(w) /\ KeepsTarget(w)
    /\ call'[w].pc = "reply" /\ call'[w].outcome = "accepted" /\ call'[w].version = n

\* The row of a record is the last of its revisions, so the next version is the next revision.
LEMMA VersionIsLength ==
  ASSUME RecordsInv, NEW r \in Records
  PROVE  /\ Len(revisions[r]) \in Nat
         /\ NewVersion(rows[r]) = Len(revisions[r]) + 1
         /\ rows[r] # None => rows[r].version = Len(revisions[r])
<1> PICK m : m = Len(revisions[r])
  OBVIOUS
<1>1. revisions[r] \in Seq(Revision) /\ rows[r] \in State \cup {None} /\ m \in Nat
  BY DEF RecordsInv, TypeOK
<1>2. rows[r] = StateAt(r, m)
  BY DEF RecordsInv, HistoryIsBound
<1>3. CASE m = 0
  BY <1>2, <1>3 DEF StateAt, NewVersion
<1>4. CASE m # 0
  <2>1. revisions[r][m] \in Revision
    BY <1>1, <1>4, ElementOfSeq
  <2>2. rows[r] = [version |-> m, value |-> revisions[r][m].value] /\ m \in Nat \ {0}
    BY <1>1, <1>2, <1>4 DEF StateAt
  <2>3. rows[r] \in State
    BY <2>1, <2>2 DEF State, Revision
  <2>4. rows[r] # None /\ rows[r].version = m
    BY <2>2, <2>3, RecordsAssumption
  <2> QED BY <1>1, <2>4 DEF NewVersion
<1> QED BY <1>1, <1>3, <1>4

\* A commit is one.
LEMMA CommitAccepts ==
  ASSUME RecordsInv, NEW w \in Workers, Commit(w)
  PROVE  \E q \in Requests, p \in Policies, n \in Nat \ {0} : Accepts(w, q, p, n)
<1> PICK q : q = call[w].request
  OBVIOUS
<1> PICK p : p = call[w].policy
  OBVIOUS
<1> PICK s : s = call[w].seen
  OBVIOUS
<1>1. call[w].pc = "commit"
  BY DEF Commit, At
<1>2. q \in Requests /\ RecordOf[q] = call[w].record /\ p \in Policies /\ q \in Allows[p]
  BY <1>1, StepFacts DEF DecisionKnows, Deciding, Locked
<1> PICK r : r = RecordOf[q]
  OBVIOUS
<1>3. s = ExpectedOf[q] /\ operations[KeyOf[q]] = None
  BY <1>1, StepFacts DEF DecisionKnows, Deciding, Locked, Key
<1>4. s # None => rows[r] = s /\ ProviderOf[s.value] = ProviderOf[ValueOf[q]]
  BY <1>1, <1>2, StepFacts DEF DecisionKnows, Locked
<1>5. ~Taken(w)
  BY <1>1, StepFacts DEF DecisionKnows
<1>6. s = None => rows[r] = None
  BY <1>2, <1>5 DEF Taken
<1>7. rows[r] = s /\ r \in Records
  BY <1>2, <1>4, <1>6, RecordsAssumption
<1> PICK n : n = NewVersion(s)
  OBVIOUS
<1>8. n = Len(revisions[r]) + 1 /\ n \in Nat \ {0}
  BY <1>7, VersionIsLength
<1>9. /\ rows' = [rows EXCEPT ![r] = [version |-> n, value |-> ValueOf[q]]]
      /\ revisions' = [revisions EXCEPT ![r] =
            Append(@, [value |-> ValueOf[q], key |-> KeyOf[q], policy |-> p, previous |-> s])]
      /\ operations' = [operations EXCEPT ![KeyOf[q]] = [request |-> q, version |-> n]]
      /\ UNCHANGED <<policy, answers, calls, changes>>
  BY <1>2 DEF Commit
<1> PICK c : c = [call[w] EXCEPT !.pc = "reply", !.outcome = "accepted", !.version = n]
  OBVIOUS
<1>10. /\ c \in Call /\ c.pc = "reply" /\ c.outcome = "accepted" /\ c.version = n
       /\ c.request = q /\ c.record = call[w].record
  <2>1. call[w] \in Call /\ n \in Nat
    BY <1>8, StepFacts
  <2> QED BY <2>1 DEF Call, Outcomes
<1>11. Becomes(w, c)
  BY DEF Commit
<1>12. Moved(w) /\ call'[w] = c
  BY <1>10, <1>11, StepFacts, BecomesMoves
<1>13. Accepts(w, q, p, n)
  BY <1>2, <1>3, <1>4, <1>7, <1>8, <1>9, <1>10, <1>12 DEF Accepts, KeepsTarget
<1> QED BY <1>2, <1>8, <1>13

\* What it writes, row by row.
Written(q, p, n) ==
    LET r == RecordOf[q]
        k == KeyOf[q] IN
    /\ rows'[r] = [version |-> n, value |-> ValueOf[q]]
    /\ \A x \in Records \ {r} : rows'[x] = rows[x]
    /\ \A x \in Records \ {r} : revisions'[x] = revisions[x]
    /\ Len(revisions'[r]) = n
    /\ \A i \in DOMAIN revisions[r] : revisions'[r][i] = revisions[r][i]
    /\ revisions'[r][n] =
          [value |-> ValueOf[q], key |-> k, policy |-> p, previous |-> ExpectedOf[q]]
    /\ operations'[k] = [request |-> q, version |-> n] /\ operations'[k] # None
    /\ \A l \in Keys \ {k} : operations'[l] = operations[l]

\* A commit does, and leaves everything well typed.
LEMMA AcceptWrites ==
  ASSUME RecordsInv, NEW w \in Workers, NEW q \in Requests, NEW p \in Policies,
         NEW n \in Nat \ {0}, Accepts(w, q, p, n)
  PROVE  Written(q, p, n) /\ TypeOK'
<1> PICK r : r = RecordOf[q]
  OBVIOUS
<1> PICK k : k = KeyOf[q]
  OBVIOUS
<1> PICK v : v = [value |-> ValueOf[q], key |-> k, policy |-> p, previous |-> ExpectedOf[q]]
  OBVIOUS
<1> PICK s : s = [version |-> n, value |-> ValueOf[q]]
  OBVIOUS
<1> PICK o : o = [request |-> q, version |-> n]
  OBVIOUS
<1>1. r \in Records /\ k \in Keys /\ v \in Revision /\ s \in State /\ o \in Operation
  BY RecordsAssumption DEF Revision, State, Operation
<1>2. /\ rows \in [Records -> State \cup {None}] /\ revisions \in [Records -> Seq(Revision)]
      /\ operations \in [Keys -> Operation \cup {None}]
  BY DEF RecordsInv, TypeOK
<1>3. /\ rows' = [rows EXCEPT ![r] = s]
      /\ revisions' = [revisions EXCEPT ![r] = Append(revisions[r], v)]
      /\ operations' = [operations EXCEPT ![k] = o]
      /\ n = Len(revisions[r]) + 1
  BY DEF Accepts
<1>4. /\ Append(revisions[r], v) \in Seq(Revision) /\ Len(Append(revisions[r], v)) = n
      /\ \A i \in 1 .. Len(revisions[r]) : Append(revisions[r], v)[i] = revisions[r][i]
      /\ Append(revisions[r], v)[n] = v /\ DOMAIN revisions[r] = 1 .. Len(revisions[r])
  BY <1>1, <1>2, <1>3, AppendProperties, LenProperties
<1>5. TypeOK'
  BY <1>1, <1>2, <1>3, <1>4 DEF RecordsInv, TypeOK, Accepts, Moved
<1>6. o # None
  BY <1>1, RecordsAssumption
<1> QED BY <1>1, <1>2, <1>3, <1>4, <1>5, <1>6 DEF Written

\* What HistoryIsBound says of one revision, and of one operation.
RevisionIsBound(r, n) ==
    LET revision == revisions[r][n]
        operation == operations[revision.key] IN
    /\ operation # None
    /\ operation.version = n
    /\ RecordOf[operation.request] = r
    /\ ValueOf[operation.request] = revision.value
    /\ ExpectedOf[operation.request] = revision.previous
    /\ operation.request \in Allows[revision.policy]
    /\ revision.previous = StateAt(r, n - 1)

OperationIsBound(k) ==
    operations[k] # None =>
        /\ operations[k].version \in DOMAIN revisions[RecordOf[operations[k].request]]
        /\ revisions[RecordOf[operations[k].request]][operations[k].version].key = k

\* HistoryIsBound, part by part, before and after a step.
LEMMA HistoryParts ==
  /\ HistoryIsBound <=>
        /\ \A r \in Records : /\ rows[r] = StateAt(r, Len(revisions[r]))
                              /\ \A n \in DOMAIN revisions[r] : RevisionIsBound(r, n)
        /\ \A k \in Keys : OperationIsBound(k)
  /\ HistoryIsBound' <=>
        /\ \A r \in Records : /\ rows'[r] = StateAt(r, Len(revisions[r]))'
                              /\ \A n \in DOMAIN revisions'[r] : RevisionIsBound(r, n)'
        /\ \A k \in Keys : OperationIsBound(k)'
BY DEF HistoryIsBound, RevisionIsBound, OperationIsBound

\* No revision that is there is under the key of a commit, so its operation stays with it.
LEMMA RevisionsStay ==
  ASSUME RecordsInv, NEW w \in Workers, NEW q \in Requests, NEW p \in Policies,
         NEW n \in Nat \ {0}, Accepts(w, q, p, n),
         NEW x \in Records, NEW i \in DOMAIN revisions[x]
  PROVE  /\ revisions'[x][i] = revisions[x][i]
         /\ revisions[x][i].key \in Keys \ {KeyOf[q]}
         /\ operations'[revisions[x][i].key] = operations[revisions[x][i].key]
<1>1. revisions[x][i] \in Revision
  BY ElementOfSeq, LenProperties DEF RecordsInv, TypeOK
<1>2. operations[revisions[x][i].key] # None
  BY HistoryParts DEF RecordsInv, RevisionIsBound
<1>3. revisions[x][i].key \in Keys \ {KeyOf[q]}
  BY <1>1, <1>2 DEF Revision, Accepts
<1>4. Written(q, p, n) /\ RecordOf[q] \in Records
  BY AcceptWrites, RecordsAssumption
<1> QED BY <1>3, <1>4 DEF Written

\* A commit binds its revision to its operation and to the state it was reviewed against, and
\* leaves every other revision and operation bound.
LEMMA AcceptKeepsHistory ==
  ASSUME RecordsInv, NEW w \in Workers, NEW q \in Requests, NEW p \in Policies,
         NEW n \in Nat \ {0}, Accepts(w, q, p, n)
  PROVE  HistoryIsBound'
<1> PICK r : r = RecordOf[q]
  OBVIOUS
<1> PICK k : k = KeyOf[q]
  OBVIOUS
<1> PICK m : m = Len(revisions[r])
  OBVIOUS
<1>1. r \in Records /\ k \in Keys
  BY RecordsAssumption
<1>2. /\ rows'[r] = [version |-> n, value |-> ValueOf[q]]
      /\ \A x \in Records \ {r} : rows'[x] = rows[x]
      /\ \A x \in Records \ {r} : revisions'[x] = revisions[x]
      /\ Len(revisions'[r]) = n
      /\ \A i \in DOMAIN revisions[r] : revisions'[r][i] = revisions[r][i]
      /\ revisions'[r][n] =
            [value |-> ValueOf[q], key |-> k, policy |-> p, previous |-> ExpectedOf[q]]
      /\ operations'[k] = [request |-> q, version |-> n] /\ operations'[k] # None
      /\ \A l \in Keys \ {k} : operations'[l] = operations[l]
  <2>1. Written(q, p, n)
    BY AcceptWrites
  <2> QED BY <2>1 DEF Written
<1>3. /\ q \in Allows[p] /\ rows[r] = ExpectedOf[q] /\ operations[k] = None /\ n = m + 1
  BY DEF Accepts
<1>4. /\ \A x \in Records : /\ rows[x] = StateAt(x, Len(revisions[x]))
                            /\ \A i \in DOMAIN revisions[x] : RevisionIsBound(x, i)
      /\ \A l \in Keys : OperationIsBound(l)
  BY HistoryParts DEF RecordsInv
<1>5. /\ \A x \in Records : /\ revisions[x] \in Seq(Revision) /\ revisions'[x] \in Seq(Revision)
                            /\ DOMAIN revisions[x] = 1 .. Len(revisions[x])
                            /\ DOMAIN revisions'[x] = 1 .. Len(revisions'[x])
                            /\ Len(revisions[x]) \in Nat
  <2>1. TypeOK /\ TypeOK'
    BY AcceptWrites DEF RecordsInv
  <2>2. ASSUME NEW x \in Records PROVE revisions[x] \in Seq(Revision) /\ revisions'[x] \in Seq(Revision)
    BY <2>1 DEF TypeOK
  <2> QED BY <2>2, LenProperties
<1>6. ASSUME NEW x \in Records, NEW i \in DOMAIN revisions[x]
      PROVE  /\ revisions'[x][i] = revisions[x][i]
             /\ revisions[x][i].key \in Keys \ {k}
             /\ operations'[revisions[x][i].key] = operations[revisions[x][i].key]
  BY RevisionsStay
<1>7. ASSUME NEW x \in Records, NEW i \in 0 .. Len(revisions[x])
      PROVE  StateAt(x, i)' = StateAt(x, i)
  BY <1>5, <1>6 DEF StateAt
<1>8. ASSUME NEW x \in Records, NEW i \in DOMAIN revisions[x]
      PROVE  RevisionIsBound(x, i)'
  <2>1. StateAt(x, i - 1)' = StateAt(x, i - 1)
    BY <1>5, <1>7
  <2> QED BY <1>4, <1>6, <2>1 DEF RevisionIsBound
\* the new one
<1>9. StateAt(r, n)' = rows'[r] /\ StateAt(r, m)' = ExpectedOf[q]
  <2>1. StateAt(r, n)' = rows'[r]
    BY <1>2 DEF StateAt
  <2>2. StateAt(r, m)' = StateAt(r, m)
    BY <1>1, <1>5, <1>7
  <2> QED BY <1>1, <1>3, <1>4, <2>1, <2>2
<1>10. RevisionIsBound(r, n)'
  <2> PICK v : v = revisions'[r][n]
    OBVIOUS
  <2>1. v.key = k /\ v.value = ValueOf[q] /\ v.policy = p /\ v.previous = ExpectedOf[q]
    BY <1>2
  <2>2. operations'[k].request = q /\ operations'[k].version = n /\ operations'[k] # None
    BY <1>2
  <2>3. n - 1 = m
    BY <1>1, <1>3, <1>5
  <2>4. v.previous = StateAt(r, n - 1)'
    BY <1>9, <2>1, <2>3
  <2> QED BY <1>3, <2>1, <2>2, <2>4 DEF RevisionIsBound
<1>11. ASSUME NEW x \in Records
       PROVE  /\ rows'[x] = StateAt(x, Len(revisions[x]))'
              /\ \A i \in DOMAIN revisions'[x] : RevisionIsBound(x, i)'
  <2>1. CASE x = r
    <3>1. DOMAIN revisions'[r] = DOMAIN revisions[r] \cup {n}
      BY <1>1, <1>2, <1>3, <1>5
    <3>2. StateAt(r, Len(revisions[r]))' = StateAt(r, n)'
      BY <1>2 DEF StateAt
    <3> QED BY <1>8, <1>9, <1>10, <2>1, <3>1, <3>2
  <2>2. CASE x # r
    <3>1. rows'[x] = rows[x] /\ revisions'[x] = revisions[x]
      BY <1>2, <2>2
    <3>2. StateAt(x, Len(revisions[x]))' = StateAt(x, Len(revisions[x]))
      BY <3>1 DEF StateAt
    <3> QED BY <1>4, <1>8, <3>1, <3>2
  <2> QED BY <2>1, <2>2
<1>12. ASSUME NEW l \in Keys PROVE OperationIsBound(l)'
  <2>1. CASE l = k
    <3>1. /\ operations'[l].request = q /\ operations'[l].version = n
          /\ n \in DOMAIN revisions'[r] /\ revisions'[r][n].key = k
      BY <1>1, <1>2, <1>3, <1>5, <2>1
    <3> QED BY <2>1, <3>1 DEF OperationIsBound
  <2>2. CASE l # k /\ operations[l] # None
    <3> PICK x : x = RecordOf[operations[l].request]
      OBVIOUS
    <3> PICK i : i = operations[l].version
      OBVIOUS
    <3>1. x \in Records
      BY <2>2, RecordsAssumption DEF RecordsInv, TypeOK, Operation
    <3>2. i \in DOMAIN revisions[x] /\ revisions[x][i].key = l
      BY <1>4, <2>2 DEF OperationIsBound
    <3>3. i \in DOMAIN revisions'[x] /\ revisions'[x][i].key = l
      <4>1. revisions'[x][i] = revisions[x][i]
        BY <1>6, <3>1, <3>2
      <4>2. Len(revisions[x]) <= Len(revisions'[x]) /\ Len(revisions'[x]) \in Nat
        BY <1>1, <1>2, <1>3, <1>5, <3>1
      <4>3. i \in DOMAIN revisions'[x]
        BY <1>5, <3>1, <3>2, <4>2
      <4> QED BY <3>2, <4>1, <4>3
    <3>4. operations'[l] = operations[l]
      BY <1>2, <2>2
    <3> QED BY <3>3, <3>4 DEF OperationIsBound
  <2>3. CASE l # k /\ operations[l] = None
    BY <1>2, <2>3 DEF OperationIsBound
  <2> QED BY <2>1, <2>2, <2>3
<1> QED BY <1>11, <1>12, HistoryParts

\* A commit binds a provider repository or uses an AI decision that no row or operation has.
LEMMA AcceptKeepsBindings ==
  ASSUME RecordsInv, NEW w \in Workers, At(w, "commit"), NEW q \in Requests, NEW p \in Policies,
         NEW n \in Nat \ {0}, Accepts(w, q, p, n)
  PROVE  BindingsAreUnique' /\ OperationsAreKeyed'
<1> PICK r : r = RecordOf[q]
  OBVIOUS
<1> PICK k : k = KeyOf[q]
  OBVIOUS
<1>1. r \in Records /\ k \in Keys
  BY RecordsAssumption
<1>2. /\ rows'[r] = [version |-> n, value |-> ValueOf[q]]
      /\ \A x \in Records \ {r} : rows'[x] = rows[x]
      /\ operations'[k] = [request |-> q, version |-> n]
      /\ \A l \in Keys \ {k} : operations'[l] = operations[l]
  <2>1. Written(q, p, n)
    BY AcceptWrites
  <2> QED BY <2>1 DEF Written
<1>3. rows'[r].value = ValueOf[q] /\ operations'[k].request = q
  BY <1>2
<1>4. ~Taken(w) /\ call[w].request = q /\ call[w].record = r
  BY StepFacts DEF DecisionKnows, At, Accepts
<1>5. /\ \A x \in Records \ {r} :
            rows[x] # None => ~Shares(ProviderOf[rows[x].value], ProviderOf[ValueOf[q]])
      /\ \A l \in Keys :
            operations[l] # None => ~Shares(SuggestionOf[operations[l].request], SuggestionOf[q])
  BY <1>4 DEF Taken
<1>6. BindingsAreUnique
  BY DEF RecordsInv
<1>7. ASSUME NEW x \in Records, NEW y \in Records, rows'[x] # None, rows'[y] # None,
             Shares(ProviderOf[rows'[x].value], ProviderOf[rows'[y].value])
      PROVE  x = y
  <2>1. CASE x # r /\ y # r
    BY <1>2, <1>6, <1>7, <2>1 DEF BindingsAreUnique
  <2>2. CASE x = r \/ y = r
    BY <1>2, <1>3, <1>5, <1>7, <2>2 DEF Shares
  <2> QED BY <2>1, <2>2
<1>8. ASSUME NEW x \in Keys, NEW y \in Keys, operations'[x] # None, operations'[y] # None,
             Shares(SuggestionOf[operations'[x].request], SuggestionOf[operations'[y].request])
      PROVE  x = y
  <2>1. CASE x # k /\ y # k
    BY <1>2, <1>6, <1>8, <2>1 DEF BindingsAreUnique
  <2>2. CASE x = k \/ y = k
    BY <1>2, <1>3, <1>5, <1>8, <2>2 DEF Shares
  <2> QED BY <2>1, <2>2
<1>9. OperationsAreKeyed'
  <2>1. OperationsAreKeyed
    BY DEF RecordsInv
  <2> QED BY <1>2, <1>3, <2>1 DEF OperationsAreKeyed
<1> QED BY <1>7, <1>8, <1>9 DEF BindingsAreUnique

\* A commit takes nothing from another decision: it is under another key, on another row than those
\* that are locked, and the others that are about to commit share no unique key with it.
LEMMA AcceptKeepsDecisions ==
  ASSUME RecordsInv, NEW w \in Workers, At(w, "commit"), NEW q \in Requests, NEW p \in Policies,
         NEW n \in Nat \ {0}, Accepts(w, q, p, n), NEW u \in Workers \ {w}
  PROVE  DecisionKnows(u)'
<1> PICK r : r = RecordOf[q]
  OBVIOUS
<1> PICK k : k = KeyOf[q]
  OBVIOUS
<1>1. r \in Records /\ k \in Keys
  BY RecordsAssumption
<1>2. /\ rows'[r] = [version |-> n, value |-> ValueOf[q]]
      /\ \A x \in Records \ {r} : rows'[x] = rows[x]
      /\ operations'[k] = [request |-> q, version |-> n]
      /\ \A l \in Keys \ {k} : operations'[l] = operations[l]
  <2>1. Written(q, p, n)
    BY AcceptWrites
  <2> QED BY <2>1 DEF Written
<1>3. rows'[r].value = ValueOf[q] /\ operations'[k].request = q
  BY <1>2
<1>4. /\ call'[u] = call[u] /\ call[w].request = q /\ call[w].record = r /\ call[w].pc = "commit"
      /\ call[w].seen = rows[r] /\ operations[k] = None
  BY DEF Accepts, Moved, At
<1>5. DecisionKnows(u) /\ Apart(w, u) /\ Apart(u, w)
  BY StepFacts
<1> PICK c : c = call[u]
  OBVIOUS
<1> PICK d : d = c.request
  OBVIOUS
<1>6. c.pc \in Deciding => d \in Requests /\ c.record = RecordOf[d] /\ KeyOf[d] \in Keys /\ KeyOf[d] # k
                            /\ RecordOf[d] \in Records
  BY <1>4, <1>5, RecordsAssumption DEF DecisionKnows, Apart, Key, Deciding
<1>7. c.pc \in Deciding \ {"operation"} => operations'[KeyOf[d]] = None
  BY <1>2, <1>5, <1>6 DEF DecisionKnows, Key
<1>8. c.pc \in Locked => c.pc \in Deciding /\ c.seen = ExpectedOf[d] /\ (c.seen # None => rows[c.record] = c.seen)
  BY <1>5 DEF DecisionKnows, Locked, Deciding
<1>9. c.pc \in Locked /\ c.seen # None => c.record # r
  BY <1>4, <1>5, <1>8 DEF Apart, Locked
<1>10. c.pc \in Locked /\ c.seen # None => rows'[c.record] = c.seen
  BY <1>2, <1>6, <1>8, <1>9
<1>11. ASSUME c.pc = "commit" PROVE ~Taken(u)'
  <2>1. c.record \in Records /\ c.record # r /\ ~Taken(u) /\ KeyOf[d] \in Keys /\ KeyOf[d] # k
        /\ ~MustWaitFor(u, w)
    BY <1>4, <1>5, <1>6, <1>11 DEF DecisionKnows, Apart, MustWaitFor, At, Deciding
  <2>2. /\ ~Shares(ProviderOf[ValueOf[q]], ProviderOf[ValueOf[d]])
        /\ ~Shares(SuggestionOf[q], SuggestionOf[d])
    BY <1>4, <2>1 DEF MustWaitFor, At
  <2>3. c.seen = None => rows'[c.record] = None
    BY <1>2, <2>1 DEF Taken
  <2>4. \A x \in Records \ {c.record} :
           rows'[x] # None => ~Shares(ProviderOf[rows'[x].value], ProviderOf[ValueOf[d]])
    BY <1>2, <1>3, <2>1, <2>2 DEF Taken
  <2>5. operations'[KeyOf[d]] = None
    BY <1>2, <2>1 DEF Taken
  <2>6. \A l \in Keys :
           operations'[l] # None => ~Shares(SuggestionOf[operations'[l].request], SuggestionOf[d])
    BY <1>2, <1>3, <2>1, <2>2 DEF Taken
  <2> QED BY <1>4, <2>3, <2>4, <2>5, <2>6 DEF Taken
<1>12. c.pc = "reply" /\ c.outcome = "accepted" =>
          /\ d \in Requests /\ operations'[KeyOf[d]] # None
          /\ operations'[KeyOf[d]] = [request |-> d, version |-> c.version]
  BY <1>2, <1>4, <1>5, RecordsAssumption DEF DecisionKnows
<1>13. Key(u)' = KeyOf[d]
  BY <1>4 DEF Key
<1> QED BY <1>4, <1>5, <1>7, <1>8, <1>10, <1>11, <1>12, <1>13 DEF DecisionKnows

\* For a read of the source authority a commit is a later version.
LEMMA AcceptKeepsReadings ==
  ASSUME RecordsInv, NEW w \in Workers, NEW q \in Requests, NEW p \in Policies,
         NEW n \in Nat \ {0}, Accepts(w, q, p, n), NEW u \in Workers \ {w}
  PROVE  ReadingKnows(u)'
<1> PICK r : r = RecordOf[q]
  OBVIOUS
<1>1. /\ rows'[r] = [version |-> n, value |-> ValueOf[q]]
      /\ \A x \in Records \ {r} : rows'[x] = rows[x]
      /\ call'[u] = call[u] /\ n = Len(revisions[r]) + 1
  <2>1. Written(q, p, n)
    BY AcceptWrites
  <2> QED BY <2>1 DEF Written, Accepts, Moved
<1>2. r \in Records /\ rows'[r].version = n /\ rows'[r] \in State
  BY <1>1, RecordsAssumption DEF State
<1>3. Len(revisions[r]) \in Nat /\ (rows[r] # None => rows[r].version = Len(revisions[r]))
  BY <1>2, VersionIsLength
<1> PICK c : c = call[u]
  OBVIOUS
<1>4. ReadingKnows(u)
  BY StepFacts
<1>5. ASSUME c.pc \in {"second", "third", "compare"}
      PROVE  /\ c.record \in Records /\ c.seen \in State /\ rows[c.record] \in State
             /\ rows[c.record] = c.seen \/ rows[c.record].version > c.seen.version
  BY <1>4, <1>5 DEF ReadingKnows, Reading
<1>6. ASSUME c.pc \in {"second", "third", "compare"}, c.record = r
      PROVE  n > c.seen.version
  <2>1. rows[r] # None /\ c.seen.version \in Nat
    BY <1>5, <1>6, RecordsAssumption DEF State
  <2> QED BY <1>1, <1>3, <1>5, <1>6, <2>1
<1>7. ASSUME c.pc \in {"second", "third", "compare"}
      PROVE  /\ rows'[c.record] \in State
             /\ rows'[c.record] = c.seen \/ rows'[c.record].version > c.seen.version
             /\ c.pc \in {"third", "compare"} /\ ~c.holds => rows'[c.record].version > c.seen.version
  <2>1. CASE c.record = r
    BY <1>2, <1>6, <1>7, <2>1
  <2>2. CASE c.record # r
    <3>1. rows'[c.record] = rows[c.record]
      BY <1>1, <1>5, <1>7, <2>2
    <3> QED BY <1>4, <1>5, <1>7, <3>1 DEF ReadingKnows
  <2> QED BY <2>1, <2>2
<1> QED BY <1>1, <1>4, <1>5, <1>7 DEF ReadingKnows

\* A commit keeps the invariant.
LEMMA CommitStep ==
  ASSUME RecordsInv, NEW w \in Workers, Commit(w)
  PROVE  RecordsInv'
<1>1. At(w, "commit")
  BY DEF Commit
<1>2. PICK q \in Requests, p \in Policies, n \in Nat \ {0} : Accepts(w, q, p, n)
  BY CommitAccepts
<1>3. TypeOK' /\ HistoryIsBound' /\ BindingsAreUnique' /\ OperationsAreKeyed'
  BY <1>1, <1>2, AcceptWrites, AcceptKeepsHistory, AcceptKeepsBindings
<1>4. \A u \in Workers \ {w} : DecisionKnows(u)' /\ ReadingKnows(u)'
  BY <1>1, <1>2, AcceptKeepsDecisions, AcceptKeepsReadings
<1>5. DecisionKnows(w)' /\ ReadingKnows(w)'
  <2>1. /\ call'[w].pc = "reply" /\ call'[w].outcome = "accepted" /\ call'[w].version = n
        /\ call'[w].request = q
    BY <1>2 DEF Accepts, KeepsTarget
  <2>2. operations'[KeyOf[q]] = [request |-> q, version |-> n] /\ operations'[KeyOf[q]] # None
    <3>1. Written(q, p, n)
      BY <1>2, AcceptWrites
    <3> QED BY <3>1 DEF Written
  <2> QED BY <2>1, <2>2 DEF DecisionKnows, ReadingKnows, Deciding, Locked, Reading
<1>6. Moved(w) /\ call'[w].pc = "reply"
  BY <1>2 DEF Accepts
<1>7. ASSUME NEW u \in Workers, NEW v \in Workers \ {u} PROVE Apart(u, v)'
  <2>1. CASE u # w /\ v # w
    <3>1. call'[u] = call[u] /\ call'[v] = call[v] /\ Apart(u, v)
      BY <1>6, <2>1 DEF RecordsInv, Moved
    <3> QED BY <3>1 DEF Apart, Key, At, MustWaitFor
  <2>2. CASE u = w \/ v = w
    BY <1>6, <2>2 DEF Apart, MustWaitFor, At, Deciding, Locked
  <2> QED BY <2>1, <2>2
<1> QED BY <1>3, <1>4, <1>5, <1>7 DEF RecordsInv
-----------------------------------------------------------------------------
(* The invariant, and what follows from it.                                *)

\* At first there is no row and no call.
LEMMA RecordsInit == Init => RecordsInv
<1> SUFFICES ASSUME Init PROVE RecordsInv
  OBVIOUS
<1>1. TypeOK
  <2>1. Idle \in Call
    BY DEF Idle, Call, Outcomes
  <2>2. \A r \in Records : revisions[r] \in Seq(Revision)
    BY DEF Init
  <2> QED BY <2>1, <2>2 DEF Init, TypeOK
<1>2. \A w \in Workers : call[w].pc = "idle"
  BY DEF Init, Idle
<1>3. \A w \in Workers : DecisionKnows(w) /\ ReadingKnows(w)
  BY <1>2 DEF DecisionKnows, ReadingKnows, Deciding, Locked, Reading
<1>4. \A w \in Workers : \A u \in Workers \ {w} : Apart(w, u)
  BY <1>2 DEF Apart, At, Deciding, Locked
<1>5. HistoryIsBound
  BY DEF Init, HistoryIsBound, StateAt
<1>6. BindingsAreUnique /\ OperationsAreKeyed
  BY DEF Init, BindingsAreUnique, OperationsAreKeyed
<1> QED BY <1>1, <1>3, <1>4, <1>5, <1>6 DEF RecordsInv

\* Every step keeps it.
LEMMA RecordsStep == RecordsInv /\ [Next]_vars => RecordsInv'
<1> SUFFICES ASSUME RecordsInv, [Next]_vars
             PROVE  RecordsInv'
  OBVIOUS
<1>1. ASSUME NEW w \in Workers, Start(w) \/ Serve(w) \/ Fail(w) PROVE RecordsInv'
  BY <1>1, StartStep, BeginStep, ReadOperationStep, PlanStep, LockRowStep, ValidateStep,
     WriteStep, RecoverStep, CommitStep, ReadContextStep, ReadRowStep, ReadAgainStep,
     ReadContextAgainStep, CompareRowStep, ReplyStep, FailStep DEF Serve
<1>2. CASE UNCHANGED vars
  <2>1. TypeOK'
    BY <1>2 DEF RecordsInv, TypeOK, vars, tables
  <2>2. \A u \in Workers : DecisionKnows(u)' /\ ReadingKnows(u)'
    BY <1>2, StillKnows DEF RecordsInv, vars, tables
  <2>3. \A u \in Workers : \A v \in Workers \ {u} : Apart(u, v)'
    BY <1>2 DEF RecordsInv, Apart, Key, At, MustWaitFor, vars
  <2>4. HistoryIsBound' /\ BindingsAreUnique' /\ OperationsAreKeyed'
    BY <1>2 DEF RecordsInv, HistoryIsBound, StateAt, BindingsAreUnique, OperationsAreKeyed, vars, tables
  <2> QED BY <2>1, <2>2, <2>3, <2>4 DEF RecordsInv
<1> QED BY <1>1, <1>2, ChangePolicyStep DEF Next

\* The inductive invariant holds of every reachable state (instance_records.py).
THEOREM RecordsInvariant == Spec => []RecordsInv
BY RecordsInit, RecordsStep, PTL DEF Spec

\* Current record, history and operations bind one another at all times.
THEOREM HistoryCorrect == Spec => []HistoryIsBound
BY RecordsInvariant, PTL DEF RecordsInv

\* Racing registrations never bind one provider repository to two records, nor use one AI decision
\* for two operations (the unique constraints of db/models.py, reached through _commit).
THEOREM BindingsCorrect == Spec => []BindingsAreUnique
BY RecordsInvariant, PTL DEF RecordsInv

\* Source authority is granted for a row and a revision that held together.
THEOREM AuthorityCorrect == Spec => []AuthorityIsSimultaneous
<1>1. RecordsInv => AuthorityIsSimultaneous
  BY DEF RecordsInv, AuthorityIsSimultaneous, ReadingKnows
<1> QED BY <1>1, RecordsInvariant, PTL

\* No accepted request moves the provider binding of a record.
THEOREM ProviderCorrect == Spec => ProviderNeverMoves
<1>1. RecordsInv /\ [Next]_vars =>
        [\A r \in Records : rows[r] # None =>
            rows'[r] # None /\ ProviderOf[rows'[r].value] = ProviderOf[rows[r].value]]_vars
  <2> SUFFICES ASSUME RecordsInv, [Next]_vars, NEW r \in Records, rows[r] # None
               PROVE  rows'[r] # None /\ ProviderOf[rows'[r].value] = ProviderOf[rows[r].value]
    OBVIOUS
  <2>1. ASSUME NEW w \in Workers, Commit(w)
        PROVE  rows'[r] # None /\ ProviderOf[rows'[r].value] = ProviderOf[rows[r].value]
    <3>1. PICK q \in Requests, p \in Policies, n \in Nat \ {0} : Accepts(w, q, p, n)
      BY <2>1, CommitAccepts
    <3>2. Written(q, p, n)
      BY <3>1, AcceptWrites
    <3>3. CASE r = RecordOf[q]
      <4>1. rows'[r] = [version |-> n, value |-> ValueOf[q]]
        BY <3>2, <3>3 DEF Written
      <4>2. [version |-> n, value |-> ValueOf[q]] \in State
        BY RecordsAssumption DEF State
      <4>3. ProviderOf[rows[r].value] = ProviderOf[ValueOf[q]]
        BY <3>1, <3>3 DEF Accepts
      <4> QED BY <4>1, <4>2, <4>3, RecordsAssumption
    <3>4. CASE r # RecordOf[q]
      BY <3>2, <3>4 DEF Written
    <3> QED BY <3>3, <3>4
  <2>2. ASSUME NEW w \in Workers, Start(w) \/ Serve(w) \/ Fail(w), ~Commit(w) PROVE rows' = rows
    BY <2>2 DEF Start, Serve, Begin, ReadOperation, Plan, LockRow, Validate, Write, Recover,
                ReadContext, ReadRow, ReadAgain, ReadContextAgain, CompareRow, Reply, Fail, tables
  <2>3. ChangePolicy \/ UNCHANGED vars => rows' = rows
    BY DEF ChangePolicy, vars, tables
  <2> QED BY <2>1, <2>2, <2>3 DEF Next
<1> QED BY <1>1, RecordsInvariant, PTL DEF Spec, ProviderNeverMoves

\* The holder of an operation key answers for every call of the key that is deciding.
THEOREM NegativeCorrect == Spec => NegativeIsFinal
<1>1. RecordsInv =>
        [\A w, u \in Workers :
           /\ w # u /\ call[w].pc \in Deciding
           /\ call'[w].pc = "idle" /\ call'[w].outcome \in {"absent", "conflict"}
           => ~(call[u].pc \in Deciding /\ Key(u) = Key(w))]_vars
  BY DEF RecordsInv, Apart
<1> QED BY <1>1, RecordsInvariant, PTL DEF NegativeIsFinal
-----------------------------------------------------------------------------
(* Refinement: the three tables are an operation log.                      *)

\* What OperationLog calls log and told.
LogOf(r) == [n \in DOMAIN revisions[r] |-> operations[revisions[r][n].key].request]
LogNow == [r \in Records |-> LogOf(r)]
Told == {a.request : a \in answers}

\* The log of a record has one request per revision, with its key and its value.
LEMMA LogsAreSequences ==
  ASSUME RecordsInv, NEW r \in Records
  PROVE  /\ LogOf(r) \in Seq(Requests)
         /\ Len(LogOf(r)) = Len(revisions[r]) /\ Len(revisions[r]) \in Nat
         /\ DOMAIN LogOf(r) = 1 .. Len(revisions[r])
         /\ \A n \in DOMAIN LogOf(r) :
               /\ KeyOf[LogOf(r)[n]] = revisions[r][n].key
               /\ operations[KeyOf[LogOf(r)[n]]] # None
               /\ ValueOf[LogOf(r)[n]] = revisions[r][n].value
<1> PICK m : m = Len(revisions[r])
  OBVIOUS
<1>1. revisions[r] \in Seq(Revision) /\ DOMAIN revisions[r] = 1 .. m /\ m \in Nat
  BY LenProperties DEF RecordsInv, TypeOK
<1>2. ASSUME NEW n \in 1 .. m
      PROVE  /\ revisions[r][n].key \in Keys
             /\ operations[revisions[r][n].key] \in Operation
             /\ operations[revisions[r][n].key] # None
             /\ ValueOf[operations[revisions[r][n].key].request] = revisions[r][n].value
             /\ KeyOf[operations[revisions[r][n].key].request] = revisions[r][n].key
  <2>1. revisions[r][n] \in Revision
    BY <1>1, ElementOfSeq
  <2>2. revisions[r][n].key \in Keys
    BY <2>1 DEF Revision
  <2>3. RevisionIsBound(r, n)
    BY <1>1, HistoryParts DEF RecordsInv
  <2>4. OperationsAreKeyed /\ operations \in [Keys -> Operation \cup {None}]
    BY DEF RecordsInv, TypeOK
  <2> QED BY <2>2, <2>3, <2>4 DEF RevisionIsBound, OperationsAreKeyed
<1>3. \A n \in 1 .. m : LogOf(r)[n] = operations[revisions[r][n].key].request
  BY <1>1 DEF LogOf
<1>4. \A n \in 1 .. m : LogOf(r)[n] \in Requests
  BY <1>2, <1>3 DEF Operation
<1>5. LogOf(r) \in [1 .. m -> Requests]
  BY <1>1, <1>4 DEF LogOf
<1>6. LogOf(r) \in Seq(Requests) /\ Len(LogOf(r)) = m /\ DOMAIN LogOf(r) = 1 .. m
  BY <1>1, <1>5
<1> QED BY <1>1, <1>2, <1>3, <1>6

\* The logs of all records are sequences as long as their histories, before ...
LogsTyped ==
    \A r \in Records : /\ LogOf(r) \in Seq(Requests)
                      /\ Len(LogOf(r)) = Len(revisions[r])
                      /\ DOMAIN LogOf(r) = 1 .. Len(revisions[r])

LEMMA LogsAreTyped == RecordsInv => LogsTyped
BY LogsAreSequences DEF LogsTyped

\* ... and after a step.
LEMMA LogsAreTypedNext == RecordsInv' => LogsTyped'
BY LogsAreTyped, PTL

\* The row of a record is the state its log is in.
LEMMA LogStateIsRow ==
  ASSUME RecordsInv, NEW r \in Records
  PROVE  Log!State(r) = rows[r]
<1> PICK m : m = Len(revisions[r])
  OBVIOUS
<1>1. /\ LogOf(r) \in Seq(Requests) /\ Len(LogOf(r)) = m /\ m \in Nat
      /\ DOMAIN LogOf(r) = 1 .. m
      /\ \A n \in DOMAIN LogOf(r) : ValueOf[LogOf(r)[n]] = revisions[r][n].value
  BY LogsAreSequences
<1>2. rows[r] = StateAt(r, m)
  BY DEF RecordsInv, HistoryIsBound
<1>3. Log!State(r) = IF LogOf(r) = <<>> THEN None
                     ELSE [version |-> Len(LogOf(r)), value |-> ValueOf[LogOf(r)[Len(LogOf(r))]]]
  BY DEF Log!State, LogOf
<1>4. LogOf(r) = <<>> <=> m = 0
  BY <1>1
<1>5. CASE m = 0
  BY <1>2, <1>3, <1>4, <1>5 DEF StateAt
<1>6. CASE m # 0
  <2>1. ValueOf[LogOf(r)[m]] = revisions[r][m].value
    BY <1>1, <1>6
  <2> QED BY <1>1, <1>2, <1>3, <1>4, <1>6, <2>1 DEF StateAt
<1> QED BY <1>5, <1>6

\* A commit appends its request to the log of its record, and to no other.
LEMMA AcceptExtendsLog ==
  ASSUME RecordsInv, RecordsInv', NEW w \in Workers, NEW q \in Requests, NEW p \in Policies,
         NEW n \in Nat \ {0}, Accepts(w, q, p, n)
  PROVE  LogNow' = [LogNow EXCEPT ![RecordOf[q]] = Append(@, q)]
<1> PICK r : r = RecordOf[q]
  OBVIOUS
<1>1. r \in Records
  BY RecordsAssumption
<1>2. Written(q, p, n) /\ n = Len(revisions[r]) + 1
  BY AcceptWrites DEF Accepts
<1>3. ASSUME NEW x \in Records \ {r} PROVE LogOf(x)' = LogOf(x)
  <2>1. revisions'[x] = revisions[x]
    BY <1>2 DEF Written
  <2>2. \A i \in DOMAIN revisions[x] :
           operations'[revisions[x][i].key] = operations[revisions[x][i].key]
    BY RevisionsStay
  <2> QED BY <2>1, <2>2 DEF LogOf
<1> PICK old : old = LogOf(r)
  OBVIOUS
<1> PICK new : new = LogOf(r)'
  OBVIOUS
<1>4. /\ old \in Seq(Requests) /\ Len(old) + 1 = n /\ Len(old) \in Nat
      /\ DOMAIN old = DOMAIN revisions[r] /\ DOMAIN old = 1 .. Len(old)
  BY <1>1, <1>2, LogsAreSequences DEF LogOf
<1>5. new \in Seq(Requests) /\ Len(new) = n /\ DOMAIN new = DOMAIN revisions'[r]
      /\ DOMAIN new = 1 .. n
  <2>1. Len(revisions'[r]) = n
    BY <1>2 DEF Written
  <2>2. /\ LogOf(r)' \in Seq(Requests) /\ Len(LogOf(r)') = Len(revisions'[r])
        /\ DOMAIN LogOf(r)' = 1 .. Len(revisions'[r])
    BY <1>1, LogsAreTypedNext DEF LogsTyped
  <2>3. DOMAIN new = DOMAIN revisions'[r]
    BY DEF LogOf
  <2> QED BY <2>1, <2>2, <2>3
<1>6. ASSUME NEW i \in 1 .. Len(old) PROVE new[i] = old[i]
  <2>1. i \in DOMAIN revisions[r] /\ i \in DOMAIN revisions'[r]
    BY <1>4, <1>5
  <2>2. /\ revisions'[r][i] = revisions[r][i]
        /\ operations'[revisions[r][i].key] = operations[revisions[r][i].key]
    BY <1>1, <2>1, RevisionsStay
  <2> QED BY <2>1, <2>2 DEF LogOf
<1>7. new[n] = q
  <2>1. n \in DOMAIN revisions'[r]
    BY <1>5
  <2>2. revisions'[r][n].key = KeyOf[q] /\ operations'[KeyOf[q]].request = q
    BY <1>2 DEF Written
  <2> QED BY <2>1, <2>2 DEF LogOf
<1>8. new = Append(old, q)
  <2>1. /\ Append(old, q) \in Seq(Requests) /\ Len(Append(old, q)) = n
        /\ \A i \in 1 .. Len(old) : Append(old, q)[i] = old[i]
        /\ Append(old, q)[n] = q
    BY <1>4, AppendProperties
  <2>2. \A i \in 1 .. n : new[i] = Append(old, q)[i]
    BY <1>4, <1>6, <1>7, <2>1
  <2> QED BY <1>5, <2>1, <2>2, SeqEqual
<1>9. LogNow' = [x \in Records |-> LogOf(x)']
  BY DEF LogNow
<1> QED BY <1>1, <1>3, <1>8, <1>9 DEF LogNow

\* A commit is an acceptance of the operation log.
LEMMA AcceptIsAccepted ==
  ASSUME RecordsInv, RecordsInv', NEW w \in Workers, NEW q \in Requests, NEW p \in Policies,
         NEW n \in Nat \ {0}, Accepts(w, q, p, n)
  PROVE  Log!Accept(q)
<1> PICK k : k = KeyOf[q]
  OBVIOUS
<1>1. operations[k] = None /\ rows[RecordOf[q]] = ExpectedOf[q] /\ answers' = answers
  BY DEF Accepts
<1>2. ~Log!Decided(k)
  <2> SUFFICES ASSUME NEW r \in Records, NEW i \in DOMAIN LogOf(r), KeyOf[LogOf(r)[i]] = k
               PROVE  FALSE
    BY DEF Log!Decided, LogOf
  <2> QED BY <1>1, LogsAreSequences
<1>3. ExpectedOf[q] = Log!State(RecordOf[q])
  BY <1>1, LogStateIsRow, RecordsAssumption
<1>4. LogNow' = [LogNow EXCEPT ![RecordOf[q]] = Append(@, q)]
  BY AcceptExtendsLog
<1>5. Told' = Told
  BY <1>1 DEF Told
<1> QED BY <1>2, <1>3, <1>4, <1>5 DEF Log!Accept, LogNow, LogOf, Told

\* An answer tells a request that is in the log.
LEMMA ReplyIsTold ==
  ASSUME RecordsInv, NEW w \in Workers, Reply(w), call[w].outcome = "accepted"
  PROVE  \E q \in Requests : Log!Tell(q)
<1> PICK q : q = call[w].request
  OBVIOUS
<1> PICK v : v = call[w].version
  OBVIOUS
<1> PICK k : k = KeyOf[q]
  OBVIOUS
<1> PICK r : r = RecordOf[q]
  OBVIOUS
<1>1. /\ q \in Requests /\ operations[k] # None
      /\ operations[k] = [request |-> q, version |-> v]
  BY StepFacts DEF DecisionKnows, Reply, At
<1>2. r \in Records /\ k \in Keys
  BY <1>1, RecordsAssumption
<1>3. v \in DOMAIN revisions[r] /\ revisions[r][v].key = k
  BY <1>1, <1>2, HistoryParts DEF RecordsInv, OperationIsBound
<1>4. v \in DOMAIN LogOf(r) /\ LogOf(r)[v] = q
  BY <1>1, <1>3 DEF LogOf
<1>5. \E i \in DOMAIN LogNow[r] : LogNow[r][i] = q
  BY <1>2, <1>4 DEF LogNow
<1> PICK b : b = [request |-> q, version |-> v]
  OBVIOUS
<1>6. answers' = answers \cup {b} /\ b.request = q
  BY DEF Reply
<1>7. Told' = Told \cup {q}
  <2>1. Told' = {a.request : a \in answers \cup {b}}
    BY <1>6 DEF Told
  <2> QED BY <1>6, <2>1 DEF Told
<1>8. LogNow' = LogNow
  BY DEF Reply, tables, LogNow, LogOf
<1>9. Log!Tell(q)
  BY <1>5, <1>7, <1>8 DEF Log!Tell, LogNow, LogOf, Told
<1> QED BY <1>1, <1>9

\* A step that leaves revisions, operations and answers alone is no step of the log.
LEMMA LogStays ==
  ASSUME UNCHANGED <<revisions, operations, answers>>
  PROVE  UNCHANGED Log!logVars
BY DEF Log!logVars

\* Every step of the tables is a step of the log, or none.
LEMMA LogStep == RecordsInv /\ RecordsInv' /\ [Next]_vars => [Log!Next]_Log!logVars
<1> SUFFICES ASSUME RecordsInv, RecordsInv', [Next]_vars
             PROVE  [Log!Next]_Log!logVars
  OBVIOUS
<1>1. ASSUME NEW w \in Workers, Commit(w) PROVE [Log!Next]_Log!logVars
  <2>1. \E q \in Requests : Log!Accept(q)
    BY <1>1, CommitAccepts, AcceptIsAccepted
  <2>2. Log!Next
    BY <2>1 DEF Log!Next
  <2> QED BY <2>2
<1>2. ASSUME NEW w \in Workers, Reply(w) PROVE [Log!Next]_Log!logVars
  <2>1. CASE call[w].outcome = "accepted"
    <3>1. Log!Next
      BY <1>2, <2>1, ReplyIsTold DEF Log!Next
    <3> QED BY <3>1
  <2>2. CASE call[w].outcome # "accepted"
    <3>1. UNCHANGED <<revisions, operations, answers>>
      BY <1>2, <2>2 DEF Reply, tables
    <3> QED BY <3>1, LogStays
  <2> QED BY <2>1, <2>2
<1>3. ASSUME NEW w \in Workers, Start(w) \/ Serve(w) \/ Fail(w), ~Commit(w), ~Reply(w)
      PROVE  UNCHANGED <<revisions, operations, answers>>
  BY <1>3 DEF Start, Serve, Begin, ReadOperation, Plan, LockRow, Validate, Write, Recover,
              ReadContext, ReadRow, ReadAgain, ReadContextAgain, CompareRow, Fail, tables
<1>4. ChangePolicy \/ UNCHANGED vars => UNCHANGED <<revisions, operations, answers>>
  BY DEF ChangePolicy, vars, tables
<1> QED BY <1>1, <1>2, <1>3, <1>4, LogStays DEF Next

\* Every key decides once, on the state that was reviewed, and callers are told what was decided.
THEOREM ImplementsCorrect == Spec => ImplementsOperationLog
<1>1. Init => Log!Init
  <2> SUFFICES ASSUME Init PROVE Log!Init
    OBVIOUS
  <2>1. \A r \in Records : LogOf(r) = <<>>
    BY DEF Init, LogOf
  <2>2. LogNow = [r \in Records |-> <<>>] /\ Told = {}
    BY <2>1 DEF LogNow, Told, Init
  <2> QED BY <2>2 DEF Log!Init, LogNow, LogOf, Told
<1>2. RecordsInv /\ RecordsInv' /\ [Next]_vars => [Log!Next]_Log!logVars
  BY LogStep
<1> QED
  BY <1>1, <1>2, RecordsInvariant, PTL DEF Spec, ImplementsOperationLog, Log!Spec
=============================================================================
