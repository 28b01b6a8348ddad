----------------------- MODULE ArtifactRegistryProofs -----------------------
(***************************************************************************)
(* Proofs about the artifact registry, for every set of workers, contents, *)
(* subjects and clock readings.                                            *)
(***************************************************************************)
EXTENDS ArtifactRegistry, FiniteSetTheorems, TLAPS

-----------------------------------------------------------------------------
(* What a step does to the call of the worker that takes it.               *)

\* Worker w now holds another well typed call and the other workers keep theirs.
Moved(w) == call' = [call EXCEPT ![w] = call'[w]] /\ call'[w] \in Call

\* Worker w became idle.
Ended(w) == /\ Moved(w)
            /\ call'[w].pc = "idle" /\ call'[w].head = None

\* The call of w goes on, about the same content.
GoesOn(w, pc) == /\ Moved(w)
                 /\ call'[w].pc = pc
                 /\ call'[w].content = call[w].content

\* What was read or fixed so far stays as it is.
KeepsHead(w) == call'[w].head = call[w].head
KeepsVersion(w) == call'[w].version = call[w].version
KeepsInstant(w) == call'[w].storedAt = call[w].storedAt
KeepsResolution(w) == call'[w].resolution = call[w].resolution

\* The call of w was answered from the row of its content.
Read(w, resolution) == /\ GoesOn(w, "materialize") /\ KeepsHead(w)
                       /\ LineageSound(call[w].content)
                       /\ call'[w].resolution = resolution

CallTyped == call \in [Workers -> Call]

Outcomes == Resolutions \cup Refusals

\* The worker holds exactly the new call.
LEMMA BecomesEffect ==
  ASSUME CallTyped, NEW w \in Workers, NEW r \in Call, Becomes(w, r)
  PROVE  Moved(w) /\ call'[w] = r
BY DEF CallTyped, Becomes, Moved

\* A call that ends leaves its worker idle, with its outcome.
LEMMA EndEffect ==
  ASSUME CallTyped, NEW w \in Workers, NEW o \in Outcomes, End(w, o)
  PROVE  Ended(w) /\ call'[w].outcome = o
<1>1. [Idle EXCEPT !.outcome = o] \in Call
  BY RegistryAssumption DEF Idle, Call, Steps, Resolutions, Outcomes
<1>2. Moved(w) /\ call'[w] = [Idle EXCEPT !.outcome = o]
  BY <1>1, BecomesEffect DEF End
<1> QED
  BY <1>2 DEF Ended, Idle

\* A call that goes on changes nothing but its step.
LEMMA GoEffect ==
  ASSUME CallTyped, NEW w \in Workers, NEW p \in Steps, Go(w, p)
  PROVE  /\ GoesOn(w, p) /\ KeepsHead(w) /\ KeepsVersion(w) /\ KeepsInstant(w)
         /\ KeepsResolution(w)
<1>1. call[w] \in Call
  BY DEF CallTyped
<1>2. [call[w] EXCEPT !.pc = p] \in Call
  BY <1>1 DEF Call
<1>3. Moved(w) /\ call'[w] = [call[w] EXCEPT !.pc = p]
  BY <1>2, BecomesEffect DEF Go
<1> QED
  BY <1>1, <1>3 DEF GoesOn, KeepsHead, KeepsVersion, KeepsInstant, KeepsResolution, Call

\* A stored row is answered from, or refused when its lineage is broken.
LEMMA SnapshotEffect ==
  ASSUME CallTyped, NEW w \in Workers, NEW x \in Resolutions, Snapshot(w, x)
  PROVE  Read(w, x) \/ Ended(w)
<1>1. call[w] \in Call
  BY DEF CallTyped
<1>2. CASE LineageSound(call[w].content)
  <2>1. [call[w] EXCEPT !.pc = "materialize", !.resolution = x] \in Call
    BY <1>1 DEF Call, Steps
  <2>2. Moved(w) /\ call'[w] = [call[w] EXCEPT !.pc = "materialize", !.resolution = x]
    BY <1>2, <2>1, BecomesEffect DEF Snapshot
  <2> QED
    BY <1>1, <1>2, <2>2 DEF Read, GoesOn, KeepsHead, Call
<1>3. CASE ~LineageSound(call[w].content)
  BY <1>3, EndEffect DEF Snapshot, Outcomes, Refusals
<1> QED
  BY <1>2, <1>3

\* A row of the same digest is reused, or refused.
LEMMA ReuseEffect ==
  ASSUME CallTyped, NEW w \in Workers, Reuse(w)
  PROVE  Read(w, "reused") \/ Ended(w)
<1>1. CASE End(w, "conflict")
  BY <1>1, EndEffect DEF Outcomes, Refusals
<1>2. CASE Snapshot(w, "reused")
  BY <1>2, SnapshotEffect DEF Resolutions
<1> QED
  BY <1>1, <1>2 DEF Reuse

\* Each remaining action, in the same terms.
LEMMA StartEffect ==
  ASSUME CallTyped, NEW w \in Workers, Start(w)
  PROVE  /\ Moved(w) /\ call'[w].pc = "lookup" /\ call'[w].content \in Contents
         /\ call'[w].head = None
<1>1. PICK o \in Operations, c \in Contents :
         Becomes(w, [Idle EXCEPT !.pc = "lookup", !.op = o, !.content = c])
  BY DEF Start
<1>2. [Idle EXCEPT !.pc = "lookup", !.op = o, !.content = c] \in Call
  BY RegistryAssumption DEF Idle, Call, Steps, Resolutions
<1>3. Moved(w) /\ call'[w] = [Idle EXCEPT !.pc = "lookup", !.op = o, !.content = c]
  BY <1>1, <1>2, BecomesEffect
<1> QED
  BY <1>3 DEF Idle

\* The lookup goes on to the head, or answers from the row, or ends.
LEMMA LookupEffect ==
  ASSUME CallTyped, NEW w \in Workers, Lookup(w)
  PROVE  \/ GoesOn(w, "head") /\ KeepsHead(w) /\ ~Registered(call[w].content)
         \/ Registered(call[w].content) /\ \E x \in {"reused", "read", "reconciled"} : Read(w, x)
         \/ Ended(w)
<1>1. CASE Registered(call[w].content) /\ Reuse(w)
  BY <1>1, ReuseEffect
<1>2. CASE Registered(call[w].content) /\ \E x \in {"read", "reconciled"} : Snapshot(w, x)
  BY <1>2, SnapshotEffect DEF Resolutions
<1>3. CASE ~Registered(call[w].content) /\ Go(w, "head")
  BY <1>3, GoEffect DEF Steps
<1>4. CASE End(w, "not_found")
  BY <1>4, EndEffect DEF Outcomes, Refusals
<1> QED
  BY <1>1, <1>2, <1>3, <1>4 DEF Lookup

\* The subject's head is a registered content of the subject.
HeadRead(w, h) == /\ IsHead(h, SubjectOf[call[w].content])
                  /\ SupersessionHolds(call[w].content, h)
                  /\ call'[w].head = h

\* The first head read validates the reference under a head of the subject.
LEMMA ReadHeadEffect ==
  ASSUME CallTyped, NEW w \in Workers, ReadHead(w)
  PROVE  \/ GoesOn(w, "get") /\ \E h \in Contents \cup {None} : HeadRead(w, h)
         \/ Ended(w)
<1>1. ASSUME NEW h \in Contents \cup {None}, IsHead(h, SubjectOf[call[w].content]),
             SupersessionHolds(call[w].content, h),
             Becomes(w, [call[w] EXCEPT !.pc = "get", !.head = h])
      PROVE  GoesOn(w, "get") /\ HeadRead(w, h)
  <2>1. call[w] \in Call
    BY DEF CallTyped
  <2>2. [call[w] EXCEPT !.pc = "get", !.head = h] \in Call
    BY <2>1 DEF Call, Steps
  <2>3. Moved(w) /\ call'[w] = [call[w] EXCEPT !.pc = "get", !.head = h]
    BY <1>1, <2>2, BecomesEffect
  <2> QED
    BY <1>1, <2>1, <2>3 DEF GoesOn, HeadRead, Call
<1>2. CASE End(w, "conflict")
  BY <1>2, EndEffect DEF Outcomes, Refusals
<1> QED
  BY <1>1, <1>2 DEF ReadHead

\* The GET leads to a PUT, or binds the current version with the right bytes.
LEMMA GetCurrentEffect ==
  ASSUME CallTyped, NEW w \in Workers, GetCurrent(w), Len(objects[call[w].content]) \in Nat
  PROVE  \/ GoesOn(w, "put") /\ KeepsHead(w)
         \/ /\ GoesOn(w, "begin") /\ KeepsHead(w)
            /\ objects[call[w].content] # <<>>
            /\ call'[w].version = Len(objects[call[w].content])
            /\ objects[call[w].content][call'[w].version] = call[w].content
         \/ Ended(w)
<1> DEFINE n == Len(objects[call[w].content])
<1>1. CASE Go(w, "put")
  BY <1>1, GoEffect DEF Steps
<1>2. CASE /\ Becomes(w, [call[w] EXCEPT !.pc = "begin", !.version = n])
           /\ objects[call[w].content] # <<>> /\ objects[call[w].content][n] = call[w].content
  <2>1. call[w] \in Call
    BY DEF CallTyped
  <2>2. [call[w] EXCEPT !.pc = "begin", !.version = n] \in Call
    BY <2>1 DEF Call, Steps
  <2>3. Moved(w) /\ call'[w] = [call[w] EXCEPT !.pc = "begin", !.version = n]
    BY <1>2, <2>2, BecomesEffect
  <2> QED
    BY <1>2, <2>1, <2>3 DEF GoesOn, KeepsHead, Call
<1>3. CASE End(w, "integrity")
  BY <1>3, EndEffect DEF Outcomes, Refusals
<1> QED
  BY <1>1, <1>2, <1>3 DEF GetCurrent

\* The PUT binds a new version with the right bytes.
LEMMA PutEffect ==
  ASSUME CallTyped, NEW w \in Workers, Put(w), Len(objects[call[w].content]) \in Nat
  PROVE  /\ GoesOn(w, "verify") /\ KeepsHead(w)
         /\ call'[w].version = Len(objects[call[w].content]) + 1
<1> DEFINE n == Len(objects[call[w].content]) + 1
<1>1. call[w] \in Call /\ n \in Nat
  BY DEF CallTyped
<1> HIDE DEF n
<1>2. [call[w] EXCEPT !.pc = "verify", !.version = n] \in Call
  BY <1>1 DEF Call, Steps
<1>3. Moved(w) /\ call'[w] = [call[w] EXCEPT !.pc = "verify", !.version = n]
  BY <1>2, BecomesEffect DEF Put, n
<1> QED
  BY <1>1, <1>3 DEF GoesOn, KeepsHead, Call, n

\* The exact version has the right bytes, or the call ends.
LEMMA VerifyEffect ==
  ASSUME CallTyped, NEW w \in Workers, Verify(w)
  PROVE  \/ GoesOn(w, "begin") /\ KeepsHead(w) /\ KeepsVersion(w)
            /\ objects[call[w].content][call[w].version] = call[w].content
         \/ Ended(w)
BY GoEffect, EndEffect DEF Verify, Steps, Outcomes, Refusals

\* The storage instant follows the head that was read first.
LEMMA BeginInsertEffect ==
  ASSUME CallTyped, NEW w \in Workers, BeginInsert(w),
         call[w].head # None => entries[call[w].head].at \in Nat
  PROVE  /\ \/ GoesOn(w, "resolve") /\ Registered(call[w].content)
            \/ GoesOn(w, "recheck") /\ ~Registered(call[w].content)
         /\ KeepsHead(w) /\ KeepsVersion(w)
         /\ call[w].head # None => entries[call[w].head].at < call'[w].storedAt
<1>1. call[w] \in Call
  BY DEF CallTyped
<1>2. PICK now \in Times : Becomes(w,
         [call[w] EXCEPT !.pc = IF Registered(call[w].content) THEN "resolve" ELSE "recheck",
                         !.storedAt = StorageInstant(now, call[w].head)])
  BY DEF BeginInsert
<1> DEFINE p == IF Registered(call[w].content) THEN "resolve" ELSE "recheck"
           n == StorageInstant(now, call[w].head)
<1>3. n \in Nat /\ (call[w].head # None => entries[call[w].head].at < n)
  BY RegistryAssumption DEF StorageInstant
<1>4. p \in Steps
  BY DEF Steps
<1> HIDE DEF p, n
<1>5. [call[w] EXCEPT !.pc = p, !.storedAt = n] \in Call
  BY <1>1, <1>3, <1>4 DEF Call
<1>6. Moved(w) /\ call'[w] = [call[w] EXCEPT !.pc = p, !.storedAt = n]
  BY <1>2, <1>5, BecomesEffect DEF p, n
<1>7. GoesOn(w, p) /\ KeepsHead(w) /\ KeepsVersion(w) /\ call'[w].storedAt = n
  BY <1>1, <1>6 DEF GoesOn, KeepsHead, KeepsVersion, Call
<1> QED
  BY <1>3, <1>7 DEF p

\* The second head read validates the reference once more.
LEMMA RecheckHeadEffect ==
  ASSUME CallTyped, NEW w \in Workers, RecheckHead(w)
  PROVE  \/ /\ GoesOn(w, "insert") /\ KeepsVersion(w) /\ KeepsInstant(w)
            /\ \E h \in Contents \cup {None} : HeadRead(w, h)
         \/ Ended(w)
<1>1. ASSUME NEW h \in Contents \cup {None}, IsHead(h, SubjectOf[call[w].content]),
             SupersessionHolds(call[w].content, h),
             Becomes(w, [call[w] EXCEPT !.pc = "insert", !.head = h])
      PROVE  GoesOn(w, "insert") /\ KeepsVersion(w) /\ KeepsInstant(w) /\ HeadRead(w, h)
  <2>1. call[w] \in Call
    BY DEF CallTyped
  <2>2. [call[w] EXCEPT !.pc = "insert", !.head = h] \in Call
    BY <2>1 DEF Call, Steps
  <2>3. Moved(w) /\ call'[w] = [call[w] EXCEPT !.pc = "insert", !.head = h]
    BY <1>1, <2>2, BecomesEffect
  <2> QED
    BY <1>1, <2>1, <2>3 DEF GoesOn, KeepsVersion, KeepsInstant, HeadRead, Call
<1>2. CASE \E o \in {"conflict", "unavailable"} : End(w, o)
  BY <1>2, EndEffect DEF Outcomes, Refusals
<1> QED
  BY <1>1, <1>2 DEF RecheckHead

\* After a lost insertion race the row is reused, or the call ends.
LEMMA ResolveEffect ==
  ASSUME CallTyped, NEW w \in Workers, Resolve(w)
  PROVE  (Registered(call[w].content) /\ Read(w, "reused")) \/ Ended(w)
<1>1. CASE Registered(call[w].content) /\ Reuse(w)
  BY <1>1, ReuseEffect
<1>2. CASE End(w, "conflict")
  BY <1>2, EndEffect DEF Outcomes, Refusals
<1> QED
  BY <1>1, <1>2 DEF Resolve

\* After its commit the row is answered from, or the call ends.
LEMMA ConfirmEffect ==
  ASSUME CallTyped, NEW w \in Workers, Confirm(w)
  PROVE  (Registered(call[w].content) /\ Read(w, "created")) \/ Ended(w)
<1>1. CASE Registered(call[w].content) /\ Snapshot(w, "created")
  BY <1>1, SnapshotEffect DEF Resolutions
<1>2. CASE End(w, "unavailable")
  BY <1>2, EndEffect DEF Outcomes, Refusals
<1> QED
  BY <1>1, <1>2 DEF Confirm

\* The row is materialized, or the call ends.
LEMMA MaterializeEffect ==
  ASSUME CallTyped, NEW w \in Workers, Materialize(w)
  PROVE  \/ /\ GoesOn(w, IF call[w].resolution = "created" THEN "reply" ELSE "record")
            /\ KeepsHead(w) /\ KeepsResolution(w)
         \/ Ended(w)
<1>1. (IF call[w].resolution = "created" THEN "reply" ELSE "record") \in Steps
  BY DEF Steps
<1> QED
  BY <1>1, GoEffect, EndEffect DEF Materialize, Outcomes, Refusals

\* An answered call leaves its worker idle.
LEMMA ReplyEffect ==
  ASSUME CallTyped, NEW w \in Workers, Reply(w)
  PROVE  Ended(w)
<1>1. call[w].resolution \in Outcomes
  BY DEF CallTyped, Call, Outcomes
<1> QED
  BY <1>1, EndEffect DEF Reply

\* A failed call leaves its worker idle.
LEMMA FailEffect ==
  ASSUME CallTyped, NEW w \in Workers, Fail(w)
  PROVE  Ended(w)
BY EndEffect DEF Fail, Outcomes, Refusals
-----------------------------------------------------------------------------
(* Type correctness.                                                       *)

\* What TypeOK says of the calls.
CallsOK ==
  /\ CallTyped
  /\ \A w \in Workers : call[w].pc # "idle" => call[w].content \in Contents
  /\ \A w \in Workers : call[w].head # None => Registered(call[w].head)

TablesOK ==
  /\ entries \in [Contents -> Entry \cup {None}]
  /\ receipts \in [Contents -> Receipt \cup {None}]
  /\ objects \in [Contents -> Seq(Contents \cup {Foreign})]
  /\ ledger \in [LedgerActions -> [Contents -> Nat]]
  /\ answered \in [Resolutions -> [Contents -> Nat]]
  /\ calls \in Nat

\* TypeOK, split into the tables and the calls ...
LEMMA TypeParts == TypeOK <=> TablesOK /\ CallsOK
BY DEF TypeOK, TablesOK, CallsOK, CallTyped

\* ... before and after a step.
LEMMA TypePartsNext == TypeOK' <=> TablesOK' /\ CallsOK'
BY DEF TypeOK, TablesOK, CallsOK, CallTyped

\* Rows are never removed.
RowsStay == \A c \in Contents : Registered(c) => Registered(c)'

\* A step that does not touch the rows keeps them.
LEMMA RowsStayUnchanged == ASSUME UNCHANGED entries PROVE RowsStay
BY DEF RowsStay, Registered

\* A step of w keeps the calls typed when it leaves w a typed call.
LEMMA CallsStep ==
  ASSUME CallsOK, RowsStay, NEW w \in Workers, Moved(w),
         call'[w].pc # "idle" => call'[w].content \in Contents,
         call'[w].head # None => Registered(call[w].head)'
  PROVE  CallsOK'
<1>1. \A u \in Workers : u # w => call'[u] = call[u]
  BY DEF Moved, CallsOK, CallTyped
<1>2. CallTyped'
  BY DEF Moved, CallsOK, CallTyped
<1>3. \A u \in Workers : call'[u].pc # "idle" => call'[u].content \in Contents
  BY <1>1 DEF CallsOK
<1>4. ASSUME NEW u \in Workers, call'[u].head # None PROVE Registered(call[u].head)'
  <2>1. CASE u = w
    BY <1>4, <2>1
  <2>2. CASE u # w
    <3>1. call'[u] = call[u] /\ call[u].head \in Contents \cup {None}
      BY <1>1, <2>2 DEF CallsOK, CallTyped, Call
    <3>2. Registered(call[u].head) /\ call[u].head \in Contents
      BY <1>4, <3>1 DEF CallsOK
    <3>3. Registered(call[u].head)'
      BY <3>1, <3>2, <1>4 DEF RowsStay, Registered
    <3> QED
      BY <3>1, <3>3 DEF Registered
  <2> QED
    BY <2>1, <2>2
<1> QED
  BY <1>2, <1>3, <1>4 DEF CallsOK

\* So a call that ends keeps the calls typed ...
LEMMA EndedKeepsCalls ==
  ASSUME CallsOK, RowsStay, NEW w \in Workers, Ended(w)
  PROVE  CallsOK'
BY CallsStep DEF Ended

\* ... as does one that goes on with its head ...
LEMMA GoesOnKeepsCalls ==
  ASSUME CallsOK, RowsStay, NEW w \in Workers, ~At(w, "idle"), NEW p, GoesOn(w, p), KeepsHead(w)
  PROVE  CallsOK'
<1>1. call'[w].head # None => Registered(call[w].head)'
  <2>1. call'[w].head \in Contents \cup {None}
    BY DEF GoesOn, Moved, Call
  <2> QED
    BY <2>1 DEF KeepsHead, CallsOK, RowsStay, Registered
<1> QED
  BY <1>1, CallsStep DEF GoesOn, CallsOK, At

\* ... or with a head it read from the rows.
LEMMA HeadReadKeepsCalls ==
  ASSUME CallsOK, UNCHANGED entries, NEW w \in Workers, ~At(w, "idle"), NEW p, GoesOn(w, p),
         NEW h \in Contents \cup {None}, HeadRead(w, h)
  PROVE  CallsOK'
<1>1. call'[w].head # None => Registered(call[w].head)'
  BY DEF HeadRead, IsHead, Members, Registered
<1>2. RowsStay
  BY RowsStayUnchanged
<1> QED
  BY <1>1, <1>2, CallsStep DEF GoesOn, CallsOK, At

\* Counting one more event or answer keeps a table of counts.
LEMMA AddOne ==
  ASSUME NEW A, NEW B, NEW f \in [A -> [B -> Nat]], NEW a \in A, NEW b \in B
  PROVE  /\ [f EXCEPT ![a][b] = @ + 1] \in [A -> [B -> Nat]]
         /\ \A x \in A, y \in B : [f EXCEPT ![a][b] = @ + 1][x][y] =
               IF x = a /\ y = b THEN f[a][b] + 1 ELSE f[x][y]
<1>1. [f[a] EXCEPT ![b] = @ + 1] \in [B -> Nat]
  OBVIOUS
<1>2. [f EXCEPT ![a][b] = @ + 1] = [f EXCEPT ![a] = [f[a] EXCEPT ![b] = @ + 1]]
  OBVIOUS
<1> QED
  BY <1>1, <1>2

\* The insertion, when no constraint refuses it.
Inserts(w) ==
  LET c == call[w].content
      h == call[w].head IN
  /\ ~UniqueViolation(c, h)
  /\ entries' = [entries EXCEPT ![c] =
        [generation |-> NewGeneration(h), version |-> call[w].version,
         at |-> call[w].storedAt + 2, supersedes |-> Supersedes[c]]]
  /\ receipts' = [receipts EXCEPT ![c] =
        [storedAt |-> call[w].storedAt, at |-> call[w].storedAt + 1,
         version |-> call[w].version, supersedes |-> h]]
  /\ ledger' = [ledger EXCEPT !["persisted"][c] = @ + 1]
  /\ GoesOn(w, "confirm") /\ KeepsHead(w) /\ KeepsResolution(w)
  /\ UNCHANGED <<objects, answered, calls>>

\* An insertion writes everything, or is refused and writes nothing.
LEMMA InsertEffect ==
  ASSUME CallTyped, NEW w \in Workers, Insert(w)
  PROVE  \/ Inserts(w)
         \/ /\ UniqueViolation(call[w].content, call[w].head)
            /\ GoesOn(w, "resolve") /\ KeepsHead(w)
            /\ UNCHANGED <<entries, receipts, objects, ledger, answered, calls>>
<1>1. ASSUME Go(w, "resolve") PROVE GoesOn(w, "resolve") /\ KeepsHead(w)
  BY <1>1, GoEffect DEF Steps
<1>2. ASSUME Go(w, "confirm") PROVE GoesOn(w, "confirm") /\ KeepsHead(w) /\ KeepsResolution(w)
  BY <1>2, GoEffect DEF Steps
<1> QED
  BY <1>1, <1>2 DEF Insert, Inserts, tables

\* The insertion writes typed rows.
LEMMA InsertsTyped ==
  ASSUME TablesOK, CallsOK, NEW w \in Workers, ~At(w, "idle"), Inserts(w)
  PROVE  TablesOK' /\ CallsOK'
<1> DEFINE c == call[w].content
           h == call[w].head
<1>1. /\ call[w] \in Call /\ c \in Contents /\ h \in Contents \cup {None}
      /\ h # None => entries[h] \in Entry
  BY DEF CallsOK, CallTyped, Call, At, TablesOK, Registered
<1>2. NewGeneration(h) \in Nat \ {0}
  BY <1>1 DEF NewGeneration, Entry
<1>3. call[w].version \in Nat /\ call[w].storedAt \in Nat /\ Supersedes[c] \in References \cup {None}
  BY <1>1, RegistryAssumption DEF Call
<1>4. entries' \in [Contents -> Entry \cup {None}]
  <2>1. [generation |-> NewGeneration(h), version |-> call[w].version,
         at |-> call[w].storedAt + 2, supersedes |-> Supersedes[c]] \in Entry
    BY <1>2, <1>3 DEF Entry
  <2> QED
    BY <2>1 DEF Inserts, TablesOK
<1>5. receipts' \in [Contents -> Receipt \cup {None}]
  <2>1. [storedAt |-> call[w].storedAt, at |-> call[w].storedAt + 1,
         version |-> call[w].version, supersedes |-> h] \in Receipt
    BY <1>1, <1>3 DEF Receipt
  <2> QED
    BY <2>1 DEF Inserts, TablesOK
<1>6. ledger' \in [LedgerActions -> [Contents -> Nat]]
  <2>1. "persisted" \in LedgerActions /\ ledger \in [LedgerActions -> [Contents -> Nat]]
    BY DEF LedgerActions, TablesOK
  <2>2. [ledger EXCEPT !["persisted"][c] = @ + 1] \in [LedgerActions -> [Contents -> Nat]]
    BY ONLY <1>1, <2>1, AddOne
  <2> QED
    BY <2>2 DEF Inserts
<1>7. TablesOK'
  BY <1>4, <1>5, <1>6 DEF Inserts, TablesOK
<1>8. RowsStay
  <2>1. ASSUME NEW d \in Contents, Registered(d) PROVE Registered(d)'
    <3>1. d # c
      BY <2>1 DEF Inserts, UniqueViolation
    <3> QED
      BY <2>1, <3>1 DEF Inserts, Registered, TablesOK
  <2> QED
    BY <2>1 DEF RowsStay
<1> QED
  BY <1>7, <1>8, GoesOnKeepsCalls DEF Inserts

\* The empty registry is well typed.
LEMMA TypeInit == Init => TypeOK
<1>1. Idle \in Call /\ Idle.pc = "idle" /\ Idle.head = None
  BY RegistryAssumption DEF Idle, Call, Steps, Resolutions
<1> QED
  BY <1>1 DEF Init, TypeOK

\* Every step keeps it well typed.
LEMMA TypeStep == TypeOK /\ [Next]_vars => TypeOK'
<1> SUFFICES ASSUME TablesOK, CallsOK, [Next]_vars
             PROVE  TypeOK'
  BY TypeParts
<1>0. CallTyped
  BY DEF CallsOK
<1>1. ASSUME CallsOK', UNCHANGED <<entries, receipts, objects, ledger, answered>>, calls' \in Nat
      PROVE  TypeOK'
  BY <1>1, TypePartsNext DEF TablesOK
<1>2. ASSUME UNCHANGED entries PROVE RowsStay
  BY <1>2, RowsStayUnchanged
<1>3. ASSUME NEW w \in Workers, ~At(w, "idle") PROVE Len(objects[call[w].content]) \in Nat
  BY <1>3 DEF CallsOK, TablesOK, At
<1>4. ASSUME NEW w \in Workers, Start(w) PROVE TypeOK'
  <2>1. CallsOK'
    BY <1>0, <1>2, <1>4, StartEffect, CallsStep DEF Start, tables
  <2> QED
    BY <1>1, <1>4, <2>1 DEF Start, TablesOK, tables
<1>5. ASSUME NEW w \in Workers, Lookup(w) PROVE TypeOK'
  <2>1. CallsOK'
    BY <1>0, <1>2, <1>5, LookupEffect, GoesOnKeepsCalls, EndedKeepsCalls
       DEF Lookup, At, Read, tables
  <2> QED
    BY <1>1, <1>5, <2>1 DEF Lookup, TablesOK, tables
<1>6. ASSUME NEW w \in Workers, ReadHead(w) PROVE TypeOK'
  <2>1. CallsOK'
    BY <1>0, <1>2, <1>6, ReadHeadEffect, HeadReadKeepsCalls, EndedKeepsCalls
       DEF ReadHead, At, tables
  <2> QED
    BY <1>1, <1>6, <2>1 DEF ReadHead, TablesOK, tables
<1>7. ASSUME NEW w \in Workers, GetCurrent(w) PROVE TypeOK'
  <2>1. CallsOK'
    BY <1>0, <1>2, <1>3, <1>7, GetCurrentEffect, GoesOnKeepsCalls, EndedKeepsCalls
       DEF GetCurrent, At, tables
  <2> QED
    BY <1>1, <1>7, <2>1 DEF GetCurrent, TablesOK, tables
<1>8. ASSUME NEW w \in Workers, Put(w) PROVE TypeOK'
  <2>1. CallsOK'
    BY <1>0, <1>2, <1>3, <1>8, PutEffect, GoesOnKeepsCalls DEF Put, At, tables
  <2>2. objects' \in [Contents -> Seq(Contents \cup {Foreign})]
    <3>1. call[w].content \in Contents
      BY <1>8 DEF CallsOK, Put, At
    <3> QED
      BY <1>8, <3>1 DEF Put, TablesOK
  <2> QED
    BY <1>8, <2>1, <2>2, TypePartsNext DEF Put, TablesOK, tables
<1>9. ASSUME NEW w \in Workers, Verify(w) PROVE TypeOK'
  <2>1. CallsOK'
    BY <1>0, <1>2, <1>9, VerifyEffect, GoesOnKeepsCalls, EndedKeepsCalls DEF Verify, At, tables
  <2> QED
    BY <1>1, <1>9, <2>1 DEF Verify, TablesOK, tables
<1>10. ASSUME NEW w \in Workers, BeginInsert(w) PROVE TypeOK'
  <2>1. call[w].head # None => entries[call[w].head].at \in Nat
    BY DEF CallsOK, CallTyped, Call, TablesOK, Registered, Entry
  <2>2. CallsOK'
    BY <1>0, <1>2, <1>10, <2>1, BeginInsertEffect, GoesOnKeepsCalls DEF BeginInsert, At, tables
  <2> QED
    BY <1>1, <1>10, <2>2 DEF BeginInsert, TablesOK, tables
<1>11. ASSUME NEW w \in Workers, RecheckHead(w) PROVE TypeOK'
  <2>1. CallsOK'
    BY <1>0, <1>2, <1>11, RecheckHeadEffect, HeadReadKeepsCalls, EndedKeepsCalls
       DEF RecheckHead, At, tables
  <2> QED
    BY <1>1, <1>11, <2>1 DEF RecheckHead, TablesOK, tables
<1>12. ASSUME NEW w \in Workers, Insert(w) PROVE TypeOK'
  <2>1. CASE Inserts(w)
    BY <1>12, <2>1, InsertsTyped, TypePartsNext DEF Insert, At
  <2>2. CASE /\ GoesOn(w, "resolve") /\ KeepsHead(w)
             /\ UNCHANGED <<entries, receipts, objects, ledger, answered, calls>>
    <3>1. CallsOK'
      BY <1>2, <1>12, <2>2, GoesOnKeepsCalls DEF Insert, At
    <3> QED
      BY <1>1, <2>2, <3>1 DEF TablesOK
  <2> QED
    BY <1>0, <1>12, <2>1, <2>2, InsertEffect
<1>13. ASSUME NEW w \in Workers, Resolve(w) PROVE TypeOK'
  <2>1. CallsOK'
    BY <1>0, <1>2, <1>13, ResolveEffect, GoesOnKeepsCalls, EndedKeepsCalls
       DEF Resolve, At, Read, tables
  <2> QED
    BY <1>1, <1>13, <2>1 DEF Resolve, TablesOK, tables
<1>14. ASSUME NEW w \in Workers, Confirm(w) PROVE TypeOK'
  <2>1. CallsOK'
    BY <1>0, <1>2, <1>14, ConfirmEffect, GoesOnKeepsCalls, EndedKeepsCalls
       DEF Confirm, At, Read, tables
  <2> QED
    BY <1>1, <1>14, <2>1 DEF Confirm, TablesOK, tables
<1>15. ASSUME NEW w \in Workers, Materialize(w) PROVE TypeOK'
  <2>1. CallsOK'
    BY <1>0, <1>2, <1>15, MaterializeEffect, GoesOnKeepsCalls, EndedKeepsCalls
       DEF Materialize, At, tables
  <2> QED
    BY <1>1, <1>15, <2>1 DEF Materialize, TablesOK, tables
<1>16. ASSUME NEW w \in Workers, Record(w) PROVE TypeOK'
  <2>1. CallsOK'
    <3>1. GoesOn(w, "reply") /\ KeepsHead(w)
      BY <1>0, <1>16, GoEffect DEF Record, Steps
    <3> QED
      BY <1>2, <1>16, <3>1, GoesOnKeepsCalls DEF Record, At, tables
  <2>2. ledger' \in [LedgerActions -> [Contents -> Nat]]
    <3>1. call[w].content \in Contents /\ LedgerAction(call[w].resolution) \in LedgerActions
      BY <1>16 DEF Record, At, CallsOK, CallTyped, Call, LedgerAction, LedgerActions, Resolutions
    <3>2. ledger \in [LedgerActions -> [Contents -> Nat]]
      BY DEF TablesOK
    <3> QED
      BY <1>16, <3>1, <3>2, AddOne DEF Record
  <2> QED
    BY <1>16, <2>1, <2>2, TypePartsNext DEF Record, TablesOK, tables
<1>17. ASSUME NEW w \in Workers, Reply(w) PROVE TypeOK'
  <2>1. CallsOK'
    BY <1>0, <1>2, <1>17, ReplyEffect, EndedKeepsCalls DEF Reply, tables
  <2>2. answered' \in [Resolutions -> [Contents -> Nat]]
    <3>1. call[w].content \in Contents /\ call[w].resolution \in Resolutions
      BY <1>17 DEF Reply, At, CallsOK, CallTyped, Call
    <3>2. answered \in [Resolutions -> [Contents -> Nat]]
      BY DEF TablesOK
    <3> QED
      BY <1>17, <3>1, <3>2, AddOne DEF Reply
  <2> QED
    BY <1>17, <2>1, <2>2, TypePartsNext DEF Reply, TablesOK, tables
<1>18. ASSUME NEW w \in Workers, Fail(w) PROVE TypeOK'
  <2>1. CallsOK'
    BY <1>0, <1>2, <1>18, FailEffect, EndedKeepsCalls DEF Fail, tables
  <2> QED
    BY <1>1, <1>18, <2>1 DEF Fail, TablesOK, tables
<1>19. ASSUME UNCHANGED <<entries, receipts, ledger, answered, call, calls>>,
              objects' \in [Contents -> Seq(Contents \cup {Foreign})]
       PROVE  TypeOK'
  BY <1>19, TypePartsNext DEF TablesOK, CallsOK, CallTyped, Registered
<1>20. ASSUME NEW c \in Contents, Overwrite(c) PROVE TypeOK'
  <2>1. objects' \in [Contents -> Seq(Contents \cup {Foreign})]
    BY <1>20 DEF Overwrite, TablesOK
  <2> QED
    BY <1>19, <1>20, <2>1 DEF Overwrite, tables
<1>21. CASE UNCHANGED vars
  BY <1>19, <1>21 DEF vars, TablesOK, tables
<1> QED
  BY <1>4, <1>5, <1>6, <1>7, <1>8, <1>9, <1>10, <1>11, <1>12, <1>13, <1>14, <1>15,
     <1>16, <1>17, <1>18, <1>20, <1>21 DEF Next, Step

\* Every reachable state is well typed: the domains of the tables, the bucket, the
\* ledger and the calls in progress, and every head a call holds is a row.
THEOREM TypeCorrect == Spec => []TypeOK
BY TypeInit, TypeStep, PTL DEF Spec
-----------------------------------------------------------------------------
(* Chains: what is registered is one gap-free, readable chain per subject.  *)

RowSound(c) == LineageSound(c) /\ ReceiptSound(c) /\ BytesSound(c)

\* A row records the reference of its content.
ReferencesKept == \A c \in Contents : Registered(c) => entries[c].supersedes = Supersedes[c]

\* The inductive invariant of the chains.
ChainInv == /\ TablesOK /\ CallsOK
            /\ ReferencesKept
            /\ CommittedIsReadable
            /\ OneChainPerSubject
            /\ CallsAreSound

\* What CallsAreSound says of one worker.
CallIsSound(w) ==
  LET c == call[w].content
      h == call[w].head
      pc == call[w].pc IN
  /\ pc \in PastHead =>
        SupersessionHolds(c, h) /\ (h # None => SubjectOf[h] = SubjectOf[c])
  /\ pc \in {"verify", "begin", "recheck", "insert"} =>
        call[w].version \in DOMAIN objects[c] /\ objects[c][call[w].version] = c
  /\ pc \in {"recheck", "insert"} /\ h # None => entries[h].at < call[w].storedAt
  /\ pc = "resolve" /\ ~Registered(c) =>
        /\ SupersessionHolds(c, h)
        /\ \E d \in Members(SubjectOf[c]) : entries[d].generation = NewGeneration(h)
  /\ pc \in {"confirm", "materialize", "record", "reply"} => Registered(c)

\* CallsAreSound, call by call, before ...
LEMMA SoundParts == CallsAreSound <=> \A w \in Workers : CallIsSound(w)
BY DEF CallsAreSound, CallIsSound

\* ... and after a step.
LEMMA SoundPartsNext == CallsAreSound' <=> \A w \in Workers : CallIsSound(w)'
BY DEF CallsAreSound, CallIsSound

\* Steps keep rows, and keep the versions of every key.
Keeps == /\ \A c \in Contents : Registered(c) => entries'[c] = entries[c] /\ receipts'[c] = receipts[c]
         /\ \A c \in Contents : \A i \in DOMAIN objects[c] :
               i \in DOMAIN objects'[c] /\ objects'[c][i] = objects[c][i]

\* A call that does not move stays sound.
LEMMA StaysSound ==
  ASSUME CallsOK, TablesOK, Keeps, NEW w \in Workers, CallIsSound(w), call'[w] = call[w]
  PROVE  CallIsSound(w)'
<1> PICK c, h : c = call[w].content /\ h = call[w].head
  OBVIOUS
<1>1. call[w].pc # "idle" => c \in Contents
  BY DEF CallsOK
<1>2. h # None => h \in Contents /\ Registered(h) /\ entries'[h] = entries[h]
  BY DEF CallsOK, CallTyped, Call, Keeps
<1>3. NewGeneration(h)' = NewGeneration(h)
  BY <1>2 DEF NewGeneration
<1>4. ASSUME NEW d \in Contents, Registered(d) PROVE Registered(d)' /\ entries'[d] = entries[d]
  BY <1>4 DEF Keeps, Registered
<1>5. call[w].pc # "idle" /\ Registered(c) => Registered(c)'
  BY <1>1, <1>4
<1>6. \A d \in Members(SubjectOf[c]) : d \in Members(SubjectOf[c])' /\ entries'[d] = entries[d]
  BY <1>4 DEF Members
<1>7. call'[w].content = c /\ call'[w].head = h /\ call'[w].pc = call[w].pc
      /\ call'[w].version = call[w].version /\ call'[w].storedAt = call[w].storedAt
  OBVIOUS
<1>8. call[w].pc \in PastHead => (SupersessionHolds(c, h) /\ (h # None => SubjectOf[h] = SubjectOf[c]))
  BY DEF CallIsSound
<1>9. call[w].pc \in {"verify", "begin", "recheck", "insert"} =>
         call[w].version \in DOMAIN objects'[c] /\ objects'[c][call[w].version] = c
  BY <1>1 DEF CallIsSound, Keeps
<1>10. call[w].pc \in {"recheck", "insert"} /\ h # None => entries'[h].at < call[w].storedAt
  BY <1>2 DEF CallIsSound
<1>11. call[w].pc = "resolve" /\ ~Registered(c)' =>
         /\ SupersessionHolds(c, h)
         /\ \E d \in Members(SubjectOf[c])' : entries'[d].generation = NewGeneration(h)'
  BY <1>3, <1>5, <1>6 DEF CallIsSound
<1>12. call[w].pc \in {"confirm", "materialize", "record", "reply"} => Registered(c)'
  BY <1>5 DEF CallIsSound
<1> QED
  BY <1>7, <1>8, <1>9, <1>10, <1>11, <1>12
     DEF CallIsSound, SupersessionHolds, NewGeneration, Members, Registered

\* So only the call that moves has to be looked at.
LEMMA SoundStep ==
  ASSUME CallsOK, TablesOK, Keeps, CallsAreSound, NEW w \in Workers, Moved(w), CallIsSound(w)'
  PROVE  CallsAreSound'
<1>1. ASSUME NEW u \in Workers PROVE CallIsSound(u)'
  <2>1. u # w => call'[u] = call[u]
    BY DEF Moved, CallsOK, CallTyped
  <2>2. CallIsSound(u)
    BY SoundParts
  <2> QED
    BY <2>1, <2>2, StaysSound
<1> QED
  BY <1>1, SoundPartsNext

\* Two heads a reference names are the same head.
LEMMA NamesOneHead ==
  ASSUME NEW c \in Contents, NEW g \in Contents \cup {None}, NEW h \in Contents \cup {None},
         SupersessionHolds(c, g), SupersessionHolds(c, h)
  PROVE  g = h
<1>1. \A x \in Contents : [uri |-> x, digest |-> x] \in References
  BY DEF References
<1>2. \A x \in Contents : [uri |-> x, digest |-> x] # None
  BY <1>1, RegistryAssumption
<1>3. \A x, y \in Contents : [uri |-> x, digest |-> x] = [uri |-> y, digest |-> y] => x = y
  OBVIOUS
<1> QED
  BY <1>2, <1>3 DEF SupersessionHolds

\* Where no table changes and the buckets only grow, only the moved call has to be sound.
LEMMA TablesKept ==
  ASSUME ChainInv, Keeps, UNCHANGED <<entries, receipts>>
  PROVE  ReferencesKept' /\ CommittedIsReadable' /\ OneChainPerSubject'
<1>1. \A c \in Contents : Registered(c) => LineageSound(c) /\ ReceiptSound(c) /\ BytesSound(c)
  BY DEF ChainInv, CommittedIsReadable
<1>2. ASSUME NEW c \in Contents, Registered(c) PROVE BytesSound(c)'
  BY <1>1, <1>2 DEF BytesSound, Keeps
<1>3. ASSUME NEW c \in Contents, Registered(c) PROVE LineageSound(c)' /\ ReceiptSound(c)'
  BY <1>1, <1>3 DEF LineageSound, ReceiptSound, Registered
<1>4. CommittedIsReadable'
  BY <1>2, <1>3 DEF CommittedIsReadable, Registered
<1> QED
  BY <1>4 DEF ChainInv, ReferencesKept, OneChainPerSubject, Registered, Members

\* A step that writes no row keeps the chains when the moved call stays sound.
LEMMA QuietStep ==
  ASSUME ChainInv, NEW w \in Workers, Moved(w), TypeOK', CallIsSound(w)',
         Keeps, UNCHANGED <<entries, receipts>>
  PROVE  ChainInv'
BY SoundStep, TablesKept, TypePartsNext DEF ChainInv

\* A step that leaves the tables and the bucket alone loses nothing.
LEMMA NothingLost ==
  ASSUME UNCHANGED <<entries, receipts, objects>>
  PROVE  Keeps
BY DEF Keeps

\* A call that ended relies on nothing.
LEMMA EndedIsSound ==
  ASSUME NEW w \in Workers, Ended(w)
  PROVE  CallIsSound(w)'
BY DEF Ended, CallIsSound, PastHead

\* What the insertion below head h writes about content c.
Wrote(w) ==
  LET c == call[w].content
      h == call[w].head IN
  /\ entries'[c] # None /\ receipts'[c] # None
  /\ entries'[c].generation = NewGeneration(h)
  /\ entries'[c].version = call[w].version
  /\ entries'[c].at = call[w].storedAt + 2
  /\ entries'[c].supersedes = Supersedes[c]
  /\ receipts'[c].storedAt = call[w].storedAt
  /\ receipts'[c].at = call[w].storedAt + 1
  /\ receipts'[c].version = call[w].version
  /\ receipts'[c].supersedes = h
  /\ \A d \in Contents : d # c => entries'[d] = entries[d] /\ receipts'[d] = receipts[d]

\* The insertion writes the row and the receipt of its content, and no other.
LEMMA InsertsWrites ==
  ASSUME TablesOK, CallsOK, NEW w \in Workers, ~At(w, "idle"), Inserts(w)
  PROVE  Wrote(w)
<1> DEFINE c == call[w].content
           h == call[w].head
           row == [generation |-> NewGeneration(h), version |-> call[w].version,
                   at |-> call[w].storedAt + 2, supersedes |-> Supersedes[c]]
           receipt == [storedAt |-> call[w].storedAt, at |-> call[w].storedAt + 1,
                       version |-> call[w].version, supersedes |-> h]
<1>1. /\ call[w] \in Call /\ c \in Contents /\ h \in Contents \cup {None}
      /\ h # None => entries[h] \in Entry
  BY DEF CallsOK, CallTyped, Call, At, TablesOK, Registered
<1>2. NewGeneration(h) \in Nat \ {0}
  BY <1>1 DEF NewGeneration, Entry
<1>3. call[w].version \in Nat /\ call[w].storedAt \in Nat /\ Supersedes[c] \in References \cup {None}
  BY <1>1, RegistryAssumption DEF Call
<1>4. row \in Entry /\ receipt \in Receipt
  BY <1>1, <1>2, <1>3 DEF Entry, Receipt
<1>5. row # None /\ receipt # None
  BY <1>4, RegistryAssumption
<1>6. /\ entries'[c] = row /\ receipts'[c] = receipt
      /\ \A d \in Contents : d # c => entries'[d] = entries[d] /\ receipts'[d] = receipts[d]
  BY <1>1 DEF Inserts, TablesOK
<1> QED
  BY <1>5, <1>6 DEF Wrote, Registered

\* The insertion keeps the chains.
LEMMA InsertsKeepsChains ==
  ASSUME ChainInv, NEW w \in Workers, At(w, "insert"), Inserts(w), TablesOK', CallsOK'
  PROVE  ChainInv'
<1>0. TablesOK /\ CallsOK /\ CallIsSound(w) /\ ~At(w, "idle")
  BY SoundParts DEF ChainInv, At
<1>w. Wrote(w)
  BY <1>0, InsertsWrites
<1> PICK c, h, g, t, v :
       /\ c = call[w].content /\ h = call[w].head /\ g = NewGeneration(h)
       /\ t = call[w].storedAt /\ v = call[w].version
  OBVIOUS
<1>1. /\ c \in Contents /\ h \in Contents \cup {None} /\ t \in Nat
      /\ h # None => h \in Contents /\ Registered(h) /\ entries[h] \in Entry
  BY <1>0 DEF CallsOK, CallTyped, Call, At, TablesOK, Registered
<1>2. ~Registered(c) /\ h # c
  <2>1. ~Registered(c)
    BY DEF Inserts, UniqueViolation
  <2> QED
    BY <1>1, <2>1, RegistryAssumption
<1>3. /\ SupersessionHolds(c, h)
      /\ h # None => SubjectOf[h] = SubjectOf[c] /\ entries[h].at < t
      /\ v \in DOMAIN objects[c] /\ objects[c][v] = c
  BY <1>0 DEF CallIsSound, At, PastHead
<1>4. /\ Registered(c)' /\ receipts'[c] # None
      /\ entries'[c].generation = g /\ entries'[c].version = v /\ entries'[c].at = t + 2
      /\ entries'[c].supersedes = Supersedes[c]
      /\ receipts'[c].storedAt = t /\ receipts'[c].at = t + 1
      /\ receipts'[c].version = v /\ receipts'[c].supersedes = h
      /\ \A d \in Contents : d # c => entries'[d] = entries[d] /\ receipts'[d] = receipts[d]
  BY <1>w DEF Wrote, Registered
<1>5. \A d \in Contents : d # c => (Registered(d)' <=> Registered(d))
  BY <1>4 DEF Registered
<1>6. \A d \in Contents : Registered(d) => d # c
  BY <1>2
<1>7. g = IF h = None THEN 1 ELSE entries[h].generation + 1
  BY DEF NewGeneration
<1>8. objects' = objects
  BY DEF Inserts
<1>9. \A x \in Contents : [uri |-> x, digest |-> x] # None
  BY RegistryAssumption DEF References
<1>10. ReferencesKept'
  BY <1>4, <1>5 DEF ReferencesKept, ChainInv
<1>11. ASSUME NEW d \in Contents, Registered(d)' PROVE RowSound(d)'
  <2>1. CASE d = c
    <3>1. LineageSound(c)'
      <4>1. CASE h = None
        <5>1. entries'[c].supersedes = None /\ entries'[c].generation = 1
          BY <1>3, <1>4, <1>7, <4>1 DEF SupersessionHolds
        <5> QED
          BY <1>4, <5>1 DEF LineageSound
      <4>2. CASE h # None
        <5>1. /\ entries'[c].supersedes = [uri |-> h, digest |-> h]
              /\ entries'[c].supersedes # None
              /\ entries'[c].supersedes.uri = h /\ entries'[c].supersedes.digest = h
          BY <1>1, <1>3, <1>4, <1>9, <4>2 DEF SupersessionHolds
        <5>2. entries'[h] = entries[h] /\ receipts'[h] = receipts[h] /\ Registered(h)'
          BY <1>1, <1>2, <1>4, <1>5, <4>2
        <5>3. receipts[h] # None
          BY <1>1, <4>2 DEF ChainInv, CommittedIsReadable, LineageSound
        <5>4. entries[h].generation \in Nat \ {0} /\ entries[h].at \in Nat
          BY <1>1, <4>2 DEF Entry
        <5>5. entries'[c].generation # 1 /\ entries'[h].generation + 1 = entries'[c].generation
          BY <1>4, <1>7, <4>2, <5>2, <5>4
        <5>6. entries'[h].at < entries'[c].at
          BY <1>1, <1>3, <1>4, <4>2, <5>2, <5>4
        <5> QED
          BY <1>3, <1>4, <4>2, <5>1, <5>2, <5>3, <5>5, <5>6 DEF LineageSound
      <4> QED
        BY <4>1, <4>2
    <3>2. ReceiptSound(c)'
      <4>1. h = IF entries'[c].supersedes = None THEN None ELSE entries'[c].supersedes.uri
        BY <1>1, <1>3, <1>4, <1>9 DEF SupersessionHolds
      <4> QED
        BY <1>1, <1>4, <4>1 DEF ReceiptSound
    <3>3. BytesSound(c)'
      BY <1>3, <1>4, <1>8 DEF BytesSound
    <3> QED
      BY <2>1, <3>1, <3>2, <3>3 DEF RowSound
  <2>2. CASE d # c
    <3>1. Registered(d) /\ entries'[d] = entries[d] /\ receipts'[d] = receipts[d]
      BY <1>4, <1>5, <1>11, <2>2
    <3>2. LineageSound(d) /\ ReceiptSound(d) /\ BytesSound(d)
      BY <3>1 DEF ChainInv, CommittedIsReadable
    <3>3. LineageSound(d)'
      <4>1. CASE entries[d].supersedes = None
        BY <3>1, <3>2, <4>1 DEF LineageSound
      <4>2. CASE entries[d].supersedes # None
        <5> PICK p : p = entries[d].supersedes.uri
          OBVIOUS
        <5>1. p \in Contents
          <6>1. entries[d] \in Entry
            BY <1>0, <3>1 DEF TablesOK, Registered
          <6> QED
            BY <4>2, <6>1 DEF Entry, References
        <5>2. Registered(p)
          BY <3>2, <4>2 DEF LineageSound
        <5>3. entries'[p] = entries[p] /\ receipts'[p] = receipts[p] /\ Registered(p)'
          BY <1>4, <1>5, <1>6, <5>1, <5>2
        <5> QED
          BY <3>1, <3>2, <4>2, <5>3 DEF LineageSound
      <4> QED
        BY <4>1, <4>2
    <3>4. ReceiptSound(d)' /\ BytesSound(d)'
      BY <1>8, <3>1, <3>2 DEF ReceiptSound, BytesSound
    <3> QED
      BY <3>3, <3>4 DEF RowSound
  <2> QED
    BY <2>1, <2>2
<1>12. CommittedIsReadable'
  BY <1>11 DEF CommittedIsReadable, RowSound
<1>13. \A d \in Contents : Registered(d) /\ SubjectOf[d] = SubjectOf[c] => entries[d].generation # g
  BY DEF Inserts, UniqueViolation, Members
<1>14. OneChainPerSubject'
  <2>1. ASSUME NEW x \in Contents, Registered(x)', NEW d \in Contents, Registered(d)',
               SubjectOf[d] = SubjectOf[x], entries'[d].generation = entries'[x].generation
        PROVE  d = x
    <3>1. CASE x # c /\ d # c
      BY <1>4, <1>5, <2>1, <3>1 DEF ChainInv, OneChainPerSubject, Members
    <3>2. CASE x = c /\ d # c
      BY <1>4, <1>5, <1>13, <2>1, <3>2
    <3>3. CASE x # c /\ d = c
      BY <1>4, <1>5, <1>13, <2>1, <3>3
    <3> QED
      BY <3>1, <3>2, <3>3
  <2>2. ASSUME NEW x \in Contents, Registered(x)', NEW k \in 1 .. entries'[x].generation
        PROVE  \E d \in Contents : Registered(d)' /\ SubjectOf[d] = SubjectOf[x]
                                   /\ entries'[d].generation = k
    <3>1. ASSUME NEW y \in Contents, Registered(y), SubjectOf[y] = SubjectOf[x],
                 k \in 1 .. entries[y].generation
          PROVE  \E d \in Contents : Registered(d)' /\ SubjectOf[d] = SubjectOf[x]
                                   /\ entries'[d].generation = k
      <4>1. PICK d \in Members(SubjectOf[y]) : entries[d].generation = k
        BY <3>1 DEF ChainInv, OneChainPerSubject
      <4>2. d \in Contents /\ Registered(d) /\ SubjectOf[d] = SubjectOf[x]
        BY <3>1, <4>1 DEF Members
      <4> QED
        BY <1>4, <1>5, <1>6, <4>1, <4>2
    <3>2. CASE x # c
      BY <1>4, <1>5, <2>2, <3>1, <3>2
    <3>3. CASE x = c /\ k = g
      BY <1>1, <1>4, <3>3
    <3>4. CASE x = c /\ k # g
      <4>1. h # None /\ k \in 1 .. entries[h].generation
        BY <1>1, <1>4, <1>7, <2>2, <3>4 DEF Entry
      <4> QED
        BY <1>1, <1>3, <3>1, <3>4, <4>1
    <3> QED
      BY <3>2, <3>3, <3>4
  <2> QED
    BY <2>1, <2>2 DEF OneChainPerSubject, Members
<1>15. CallIsSound(w)'
  <2>1. call'[w].pc = "confirm" /\ call'[w].content = c
    BY DEF Inserts, GoesOn
  <2>2. Registered(c)'
    BY <1>4
  <2> QED
    BY <2>1, <2>2 DEF CallIsSound, PastHead, Registered
<1>16. Keeps
  BY <1>4, <1>6, <1>8 DEF Keeps
<1>17. CallsAreSound'
  BY <1>0, <1>15, <1>16, SoundStep DEF ChainInv, Inserts, GoesOn
<1> QED
  BY <1>10, <1>12, <1>14, <1>17 DEF ChainInv

\* A registration that loses the insertion race finds its content taken, or its
\* place below the head it validated.
LEMMA LostRace ==
  ASSUME ChainInv, NEW w \in Workers, At(w, "insert"),
         UniqueViolation(call[w].content, call[w].head), ~Registered(call[w].content)
  PROVE  /\ SupersessionHolds(call[w].content, call[w].head)
         /\ \E d \in Members(SubjectOf[call[w].content]) :
               entries[d].generation = NewGeneration(call[w].head)
<1> PICK c, h : c = call[w].content /\ h = call[w].head
  OBVIOUS
<1>1. /\ c \in Contents /\ h \in Contents \cup {None}
      /\ SupersessionHolds(c, h) /\ (h # None => SubjectOf[h] = SubjectOf[c])
  BY SoundParts DEF ChainInv, CallsOK, CallTyped, Call, CallIsSound, At, PastHead
<1>2. ASSUME NEW d \in Contents, Registered(d), Supersedes[c] # None,
             entries[d].supersedes # None, entries[d].supersedes.uri = Supersedes[c].uri
      PROVE  d \in Members(SubjectOf[c]) /\ entries[d].generation = NewGeneration(h)
  <2>1. h # None /\ entries[d].supersedes.uri = h
    BY <1>1, <1>2 DEF SupersessionHolds
  <2>2. LineageSound(d)
    BY <1>2 DEF ChainInv, CommittedIsReadable
  <2>3. SubjectOf[h] = SubjectOf[d] /\ entries[h].generation + 1 = entries[d].generation
    BY <1>2, <2>1, <2>2 DEF LineageSound
  <2> QED
    BY <1>1, <1>2, <2>1, <2>3 DEF Members, NewGeneration
<1> QED
  BY <1>1, <1>2 DEF UniqueViolation

\* Every step keeps the inductive invariant.
LEMMA ChainStep == ChainInv /\ [Next]_vars => ChainInv'
<1> SUFFICES ASSUME ChainInv, [Next]_vars
             PROVE  ChainInv'
  OBVIOUS
<1>0. TablesOK /\ CallsOK /\ CallTyped /\ TypeOK /\ TypeOK'
  BY TypeParts, TypeStep DEF ChainInv, CallsOK
<1>1. ASSUME NEW w \in Workers, Ended(w), UNCHANGED <<entries, receipts, objects>> PROVE ChainInv'
  BY <1>0, <1>1, EndedIsSound, NothingLost, QuietStep DEF Ended
<1>2. ASSUME NEW w \in Workers, GoesOn(w, call'[w].pc), CallIsSound(w)',
             UNCHANGED <<entries, receipts, objects>> PROVE ChainInv'
  BY <1>0, <1>2, NothingLost, QuietStep DEF GoesOn
<1>3. ASSUME NEW w \in Workers PROVE CallIsSound(w)
  BY <1>3, SoundParts DEF ChainInv
<1>4. ASSUME NEW w \in Workers, Start(w) PROVE ChainInv'
  <2>1. Moved(w) /\ call'[w].pc = "lookup"
    BY <1>0, <1>4, StartEffect
  <2>2. CallIsSound(w)'
    BY <2>1 DEF CallIsSound, PastHead
  <2> QED
    BY <1>0, <1>4, <2>1, <2>2, NothingLost, QuietStep DEF Start, tables
<1>5. ASSUME NEW w \in Workers, ~At(w, "idle"), Registered(call[w].content),
             NEW x \in Resolutions, Read(w, x), UNCHANGED <<entries, receipts, objects>>
      PROVE  ChainInv'
  <2>1. CallIsSound(w)'
    BY <1>5 DEF CallIsSound, Read, GoesOn, PastHead, Registered
  <2> QED
    BY <1>2, <1>5, <2>1 DEF Read, GoesOn
<1>6. ASSUME NEW w \in Workers, Lookup(w) PROVE ChainInv'
  <2>1. CASE GoesOn(w, "head")
    <3>1. CallIsSound(w)'
      BY <2>1 DEF CallIsSound, GoesOn, PastHead
    <3> QED
      BY <1>2, <1>6, <2>1, <3>1 DEF Lookup, GoesOn, tables
  <2>2. CASE Registered(call[w].content) /\ \E x \in {"reused", "read", "reconciled"} : Read(w, x)
    BY <1>5, <1>6, <2>2 DEF Lookup, At, tables, Resolutions
  <2>3. CASE Ended(w)
    BY <1>1, <1>6, <2>3 DEF Lookup, tables
  <2> QED
    BY <1>0, <1>6, <2>1, <2>2, <2>3, LookupEffect
<1>7. ASSUME NEW w \in Workers, ReadHead(w) PROVE ChainInv'
  <2>1. ASSUME GoesOn(w, "get"), NEW h \in Contents \cup {None}, HeadRead(w, h)
        PROVE  CallIsSound(w)'
    BY <2>1 DEF CallIsSound, GoesOn, PastHead, HeadRead, IsHead, Members, SupersessionHolds
  <2>2. CASE GoesOn(w, "get") /\ CallIsSound(w)'
    BY <1>2, <1>7, <2>2 DEF ReadHead, GoesOn, tables
  <2>3. CASE Ended(w)
    BY <1>1, <1>7, <2>3 DEF ReadHead, tables
  <2> QED
    BY <1>0, <1>7, <2>1, <2>2, <2>3, ReadHeadEffect
<1>8. ASSUME NEW w \in Workers, ~At(w, "idle")
      PROVE  /\ call[w].content \in Contents
             /\ objects[call[w].content] \in Seq(Contents \cup {Foreign})
             /\ Len(objects[call[w].content]) \in Nat
  BY <1>0, <1>8 DEF CallsOK, TablesOK, At
<1>9. ASSUME NEW w \in Workers, GetCurrent(w) PROVE ChainInv'
  <2>0. ~At(w, "idle") /\ At(w, "get") /\ UNCHANGED <<entries, receipts, objects>>
    BY <1>9 DEF GetCurrent, At, tables
  <2>1. CASE GoesOn(w, "put") /\ KeepsHead(w)
    <3>1. CallIsSound(w)'
      BY <1>3, <2>0, <2>1 DEF CallIsSound, GoesOn, KeepsHead, PastHead, At, SupersessionHolds
    <3> QED
      BY <1>2, <2>0, <2>1, <3>1 DEF GoesOn
  <2>2. CASE /\ GoesOn(w, "begin") /\ KeepsHead(w)
             /\ objects[call[w].content] # <<>>
             /\ call'[w].version = Len(objects[call[w].content])
             /\ objects[call[w].content][call'[w].version] = call[w].content
    <3>1. call'[w].version \in DOMAIN objects[call[w].content]
      BY <1>8, <2>0, <2>2
    <3>2. CallIsSound(w)'
      BY <1>3, <2>0, <2>2, <3>1 DEF CallIsSound, GoesOn, KeepsHead, PastHead, At, SupersessionHolds
    <3> QED
      BY <1>2, <2>0, <2>2, <3>2 DEF GoesOn
  <2>3. CASE Ended(w)
    BY <1>1, <2>0, <2>3
  <2> QED
    BY <1>0, <1>8, <1>9, <2>0, <2>1, <2>2, <2>3, GetCurrentEffect
<1>10. ASSUME NEW w \in Workers, Put(w) PROVE ChainInv'
  <2>0. ~At(w, "idle") /\ At(w, "put") /\ UNCHANGED <<entries, receipts>>
    BY <1>10 DEF Put, At, tables
  <2> PICK c, n : c = call[w].content /\ n = Len(objects[c]) + 1
    OBVIOUS
  <2>1. /\ c \in Contents /\ objects[c] \in Seq(Contents \cup {Foreign})
        /\ objects \in [Contents -> Seq(Contents \cup {Foreign})]
    BY <1>0, <1>8, <2>0 DEF TablesOK
  <2>2. objects' = [objects EXCEPT ![c] = Append(objects[c], c)]
    BY <1>10 DEF Put
  <2>3. n \in DOMAIN objects'[c] /\ objects'[c][n] = c
    BY <2>1, <2>2
  <2>4. Keeps
    <3>1. ASSUME NEW d \in Contents, NEW i \in DOMAIN objects[d]
          PROVE  i \in DOMAIN objects'[d] /\ objects'[d][i] = objects[d][i]
      BY <2>1, <2>2
    <3> QED
      BY <2>0, <3>1 DEF Keeps
  <2>5. GoesOn(w, "verify") /\ KeepsHead(w) /\ call'[w].version = n
    BY <1>0, <1>8, <1>10, <2>0, PutEffect
  <2>6. CallIsSound(w)'
    BY <1>3, <2>0, <2>3, <2>5 DEF CallIsSound, GoesOn, KeepsHead, PastHead, At, SupersessionHolds
  <2> QED
    BY <1>0, <2>0, <2>4, <2>5, <2>6, QuietStep DEF GoesOn
<1>11. ASSUME NEW w \in Workers, Verify(w) PROVE ChainInv'
  <2>0. At(w, "verify") /\ UNCHANGED <<entries, receipts, objects>>
    BY <1>11 DEF Verify, tables
  <2>1. CASE GoesOn(w, "begin") /\ KeepsHead(w) /\ KeepsVersion(w)
    <3>1. CallIsSound(w)'
      BY <1>3, <2>0, <2>1
         DEF CallIsSound, GoesOn, KeepsHead, KeepsVersion, PastHead, At, SupersessionHolds
    <3> QED
      BY <1>2, <2>0, <2>1, <3>1 DEF GoesOn
  <2>2. CASE Ended(w)
    BY <1>1, <2>0, <2>2
  <2> QED
    BY <1>0, <1>11, <2>1, <2>2, VerifyEffect
<1>12. ASSUME NEW w \in Workers, BeginInsert(w) PROVE ChainInv'
  <2>0. At(w, "begin") /\ ~At(w, "idle") /\ UNCHANGED <<entries, receipts, objects>>
    BY <1>12 DEF BeginInsert, At, tables
  <2>1. call[w].head # None => entries[call[w].head].at \in Nat
    BY <1>0 DEF CallsOK, CallTyped, Call, TablesOK, Registered, Entry
  <2>2. /\ \/ GoesOn(w, "resolve") /\ Registered(call[w].content)
           \/ GoesOn(w, "recheck") /\ ~Registered(call[w].content)
        /\ KeepsHead(w) /\ KeepsVersion(w)
        /\ call[w].head # None => entries[call[w].head].at < call'[w].storedAt
    BY <1>0, <1>12, <2>1, BeginInsertEffect
  <2>3. CASE GoesOn(w, "resolve") /\ Registered(call[w].content)
    <3>1. CallIsSound(w)'
      BY <2>0, <2>3 DEF CallIsSound, GoesOn, PastHead, Registered
    <3> QED
      BY <1>2, <2>0, <2>3, <3>1 DEF GoesOn
  <2>4. CASE GoesOn(w, "recheck")
    <3>1. CallIsSound(w)'
      BY <1>3, <2>0, <2>2, <2>4
         DEF CallIsSound, GoesOn, KeepsHead, KeepsVersion, PastHead, At, SupersessionHolds
    <3> QED
      BY <1>2, <2>0, <2>4, <3>1 DEF GoesOn
  <2> QED
    BY <2>2, <2>3, <2>4
<1>13. ASSUME NEW w \in Workers, RecheckHead(w) PROVE ChainInv'
  <2>0. At(w, "recheck") /\ ~At(w, "idle") /\ UNCHANGED <<entries, receipts, objects>>
    BY <1>13 DEF RecheckHead, At, tables
  <2>1. ASSUME GoesOn(w, "insert"), KeepsVersion(w), KeepsInstant(w),
               NEW h \in Contents \cup {None}, HeadRead(w, h)
        PROVE  CallIsSound(w)'
    <3>1. h = call[w].head
      <4>1. SupersessionHolds(call[w].content, call[w].head)
        BY <1>3, <2>0 DEF CallIsSound, At, PastHead
      <4>2. call[w].head \in Contents \cup {None}
        BY <1>0 DEF CallTyped, Call
      <4> QED
        BY <1>8, <2>0, <2>1, <4>1, <4>2, NamesOneHead DEF HeadRead
    <3> QED
      BY <1>3, <2>0, <2>1, <3>1
         DEF CallIsSound, GoesOn, KeepsVersion, KeepsInstant, HeadRead, PastHead, At,
             SupersessionHolds
  <2>2. CASE GoesOn(w, "insert") /\ CallIsSound(w)'
    BY <1>2, <2>0, <2>2 DEF GoesOn
  <2>3. CASE Ended(w)
    BY <1>1, <2>0, <2>3
  <2> QED
    BY <1>0, <1>13, <2>1, <2>2, <2>3, RecheckHeadEffect
<1>14. ASSUME NEW w \in Workers, Insert(w) PROVE ChainInv'
  <2>0. At(w, "insert") /\ ~At(w, "idle")
    BY <1>14 DEF Insert, At
  <2>1. CASE Inserts(w)
    BY <1>0, <2>0, <2>1, InsertsKeepsChains, TypePartsNext
  <2>2. CASE /\ UniqueViolation(call[w].content, call[w].head)
             /\ GoesOn(w, "resolve") /\ KeepsHead(w)
             /\ UNCHANGED <<entries, receipts, objects, ledger, answered, calls>>
    <3> PICK c, h : c = call[w].content /\ h = call[w].head
      OBVIOUS
    <3>0. /\ call'[w].pc = "resolve" /\ call'[w].content = c /\ call'[w].head = h
          /\ entries' = entries
      BY <2>2 DEF GoesOn, KeepsHead
    <3>2. ~Registered(c) => /\ SupersessionHolds(c, h)
                            /\ \E d \in Members(SubjectOf[c]) :
                                  entries[d].generation = NewGeneration(h)
      BY <2>0, <2>2, LostRace
    <3>1. CallIsSound(w)'
      BY <3>0, <3>2
         DEF CallIsSound, PastHead, Registered, Members, NewGeneration, SupersessionHolds
    <3> QED
      BY <1>2, <2>2, <3>1 DEF GoesOn
  <2> QED
    BY <1>0, <1>14, <2>1, <2>2, InsertEffect
<1>15. ASSUME NEW w \in Workers, Resolve(w) PROVE ChainInv'
  <2>0. At(w, "resolve") /\ ~At(w, "idle") /\ UNCHANGED <<entries, receipts, objects>>
    BY <1>15 DEF Resolve, At, tables
  <2>1. CASE Registered(call[w].content) /\ Read(w, "reused")
    BY <1>5, <2>0, <2>1 DEF Resolutions
  <2>2. CASE Ended(w)
    BY <1>1, <2>0, <2>2
  <2> QED
    BY <1>0, <1>15, <2>1, <2>2, ResolveEffect
<1>16. ASSUME NEW w \in Workers, Confirm(w) PROVE ChainInv'
  <2>0. At(w, "confirm") /\ ~At(w, "idle") /\ UNCHANGED <<entries, receipts, objects>>
    BY <1>16 DEF Confirm, At, tables
  <2>1. CASE Registered(call[w].content) /\ Read(w, "created")
    BY <1>5, <2>0, <2>1 DEF Resolutions
  <2>2. CASE Ended(w)
    BY <1>1, <2>0, <2>2
  <2> QED
    BY <1>0, <1>16, <2>1, <2>2, ConfirmEffect
<1>17. ASSUME NEW w \in Workers, call[w].pc \in {"materialize", "record"},
              GoesOn(w, call'[w].pc), call'[w].pc \in {"record", "reply"},
              UNCHANGED <<entries, receipts, objects>>
       PROVE  ChainInv'
  <2>1. Registered(call[w].content)
    BY <1>3, <1>17 DEF CallIsSound
  <2>2. CallIsSound(w)'
    BY <1>17, <2>1 DEF CallIsSound, GoesOn, PastHead, Registered
  <2> QED
    BY <1>2, <1>17, <2>2
<1>18. ASSUME NEW w \in Workers, Materialize(w) PROVE ChainInv'
  <2>0. At(w, "materialize") /\ UNCHANGED <<entries, receipts, objects>>
    BY <1>18 DEF Materialize, tables
  <2>1. CASE GoesOn(w, IF call[w].resolution = "created" THEN "reply" ELSE "record")
    BY <1>17, <2>0, <2>1 DEF GoesOn, At
  <2>2. CASE Ended(w)
    BY <1>1, <2>0, <2>2
  <2> QED
    BY <1>0, <1>18, <2>1, <2>2, MaterializeEffect
<1>19. ASSUME NEW w \in Workers, Record(w) PROVE ChainInv'
  <2>0. At(w, "record") /\ UNCHANGED <<entries, receipts, objects>>
    BY <1>19 DEF Record, tables
  <2>1. GoesOn(w, "reply")
    BY <1>0, <1>19, GoEffect DEF Record, Steps
  <2> QED
    BY <1>17, <2>0, <2>1 DEF GoesOn, At
<1>20. ASSUME NEW w \in Workers, Reply(w) PROVE ChainInv'
  BY <1>0, <1>1, <1>20, ReplyEffect DEF Reply, tables
<1>21. ASSUME NEW w \in Workers, Fail(w) PROVE ChainInv'
  BY <1>0, <1>1, <1>21, FailEffect DEF Fail, tables
<1>22. ASSUME UNCHANGED <<entries, receipts, call>>, Keeps PROVE ChainInv'
  <2>1. \A w \in Workers : CallIsSound(w)'
    BY <1>0, <1>3, <1>22, StaysSound
  <2> QED
    BY <1>0, <1>22, <2>1, SoundPartsNext, TablesKept, TypePartsNext DEF ChainInv
<1>23. ASSUME NEW c \in Contents, Overwrite(c) PROVE ChainInv'
  <2>1. objects \in [Contents -> Seq(Contents \cup {Foreign})]
    BY <1>0 DEF TablesOK
  <2>2. ASSUME NEW d \in Contents, NEW i \in DOMAIN objects[d]
        PROVE  i \in DOMAIN objects'[d] /\ objects'[d][i] = objects[d][i]
    BY <1>23, <2>1 DEF Overwrite
  <2>3. Keeps
    BY <1>23, <2>2 DEF Keeps, Overwrite, tables
  <2> QED
    BY <1>22, <1>23, <2>3 DEF Overwrite, tables
<1>24. CASE UNCHANGED vars
  BY <1>22, <1>24, NothingLost DEF vars, tables
<1> QED
  BY <1>4, <1>6, <1>7, <1>9, <1>10, <1>11, <1>12, <1>13, <1>14, <1>15, <1>16, <1>18,
     <1>19, <1>20, <1>21, <1>23, <1>24 DEF Next, Step

\* The empty registry satisfies the inductive invariant.
LEMMA ChainInit == Init => ChainInv
<1> SUFFICES ASSUME Init PROVE ChainInv
  OBVIOUS
<1>1. TablesOK /\ CallsOK
  BY TypeInit, TypeParts
<1>2. \A c \in Contents : ~Registered(c)
  BY DEF Init, Registered
<1>3. \A w \in Workers : CallIsSound(w)
  BY DEF Init, Idle, CallIsSound, PastHead
<1> QED
  BY <1>1, <1>2, <1>3, SoundParts
     DEF ChainInv, ReferencesKept, CommittedIsReadable, OneChainPerSubject

\* Registrations racing for a place in a chain never fork it and never leave a hole.
THEOREM ChainsCorrect == Spec => []OneChainPerSubject
BY ChainInit, ChainStep, PTL DEF Spec, ChainInv

\* Readers accept every committed row, whatever the clocks of its writers said and
\* whatever is written under its key later.
THEOREM ReadableCorrect == Spec => []CommittedIsReadable
BY ChainInit, ChainStep, PTL DEF Spec, ChainInv

\* What a call in progress relies on holds whenever it is about to use it.
THEOREM CallsCorrect == Spec => []CallsAreSound
BY ChainInit, ChainStep, PTL DEF Spec, ChainInv
-----------------------------------------------------------------------------
(* The ledger of events, and the answers.                                  *)

\* Worker w is about to give, or has made its own by a commit, an answer r that the ledger holds.
Owes(w, r) ==
  \/ call[w].pc = "reply" /\ call[w].resolution = r
  \/ call[w].pc = "confirm" /\ r = "created"
  \/ call[w].pc = "materialize" /\ call[w].resolution = "created" /\ r = "created"

Pending(r, c) == {w \in Workers : Owes(w, r) /\ call[w].content = c}

\* Each event is behind one answer at most, given or pending.
EventsCover ==
  \A r \in Resolutions, c \in Contents :
     /\ IsFiniteSet(Pending(r, c))
     /\ answered[r][c] + Cardinality(Pending(r, c)) <= ledger[LedgerAction(r)][c]

PersistedOnce ==
  \A c \in Contents : ledger["persisted"][c] = IF Registered(c) THEN 1 ELSE 0

\* What was created was recorded with the row.
RecordsOthers == \A w \in Workers : call[w].pc = "record" => call[w].resolution # "created"

RecordInv == ChainInv /\ EventsCover /\ PersistedOnce /\ RecordsOthers

\* A ledger action stands for one resolution.
LEMMA ActionsDiffer ==
  /\ \A r \in Resolutions : LedgerAction(r) \in LedgerActions
  /\ \A r \in Resolutions : LedgerAction(r) = "persisted" <=> r = "created"
  /\ \A r, s \in Resolutions : LedgerAction(r) = LedgerAction(s) => r = s
BY DEF Resolutions, LedgerAction, LedgerActions

\* A step of w that records nothing and answers nothing leaves w owing no more than before.
LEMMA NothingRecorded ==
  ASSUME RecordInv, ChainInv', NEW w \in Workers, Moved(w),
         UNCHANGED <<entries, ledger, answered>>,
         \A r \in Resolutions : Owes(w, r)' => Owes(w, r) /\ call'[w].content = call[w].content,
         call'[w].pc = "record" => call'[w].resolution # "created"
  PROVE  RecordInv'
<1>1. \A v \in Workers \ {w} : call'[v] = call[v]
  BY DEF Moved, RecordInv, ChainInv, CallsOK, CallTyped
<1>2. ASSUME NEW r \in Resolutions, NEW c \in Contents
      PROVE  /\ IsFiniteSet(Pending(r, c)')
             /\ answered'[r][c] + Cardinality(Pending(r, c)') <= ledger'[LedgerAction(r)][c]
  <2>1. Pending(r, c)' \subseteq Pending(r, c)
    <3> SUFFICES ASSUME NEW v \in Workers, Owes(v, r)', call'[v].content = c
                 PROVE  Owes(v, r) /\ call[v].content = c
      BY DEF Pending
    <3>1. CASE v = w
      BY <3>1
    <3>2. CASE v # w
      BY <1>1, <3>2 DEF Owes
    <3> QED BY <3>1, <3>2
  <2>2. /\ IsFiniteSet(Pending(r, c)) /\ Cardinality(Pending(r, c)) \in Nat
        /\ answered[r][c] + Cardinality(Pending(r, c)) <= ledger[LedgerAction(r)][c]
    BY FS_CardinalityType DEF RecordInv, EventsCover
  <2>3. /\ IsFiniteSet(Pending(r, c)') /\ Cardinality(Pending(r, c)') \in Nat
        /\ Cardinality(Pending(r, c)') <= Cardinality(Pending(r, c))
    BY <2>1, <2>2, FS_Subset, FS_CardinalityType
  <2>4. answered[r][c] \in Nat /\ ledger[LedgerAction(r)][c] \in Nat
    BY ActionsDiffer DEF RecordInv, ChainInv, TablesOK
  <2> QED BY <2>2, <2>3, <2>4
<1>3. EventsCover'
  BY <1>2 DEF EventsCover
<1>4. PersistedOnce'
  BY DEF RecordInv, PersistedOnce, Registered
<1>5. RecordsOthers'
  BY <1>1 DEF RecordInv, RecordsOthers
<1> QED BY <1>3, <1>4, <1>5 DEF RecordInv

\* An event is written for the answer r about content c, and w comes to owe that answer.
LEMMA EventRecorded ==
  ASSUME RecordInv, ChainInv', NEW w \in Workers, Moved(w), UNCHANGED answered,
         NEW r \in Resolutions, NEW c \in Contents,
         ledger' = [ledger EXCEPT ![LedgerAction(r)][c] = @ + 1],
         \A s \in Resolutions : ~Owes(w, s),
         \A s \in Resolutions : Owes(w, s)' => s = r,
         call'[w].content = c, call'[w].pc # "record",
         PersistedOnce'
  PROVE  RecordInv'
<1>1. \A v \in Workers \ {w} : call'[v] = call[v]
  BY DEF Moved, RecordInv, ChainInv, CallsOK, CallTyped
<1>2. ASSUME NEW s \in Resolutions, NEW d \in Contents
      PROVE  /\ IsFiniteSet(Pending(s, d)')
             /\ answered'[s][d] + Cardinality(Pending(s, d)') <= ledger'[LedgerAction(s)][d]
  <2>1. /\ IsFiniteSet(Pending(s, d)) /\ Cardinality(Pending(s, d)) \in Nat
        /\ answered[s][d] + Cardinality(Pending(s, d)) <= ledger[LedgerAction(s)][d]
        /\ answered[s][d] \in Nat /\ ledger[LedgerAction(s)][d] \in Nat
    BY FS_CardinalityType, ActionsDiffer DEF RecordInv, EventsCover, ChainInv, TablesOK
  <2>2. ledger'[LedgerAction(s)][d] =
           IF s = r /\ d = c THEN ledger[LedgerAction(s)][d] + 1 ELSE ledger[LedgerAction(s)][d]
    <3>1. /\ ledger \in [LedgerActions -> [Contents -> Nat]]
          /\ LedgerAction(r) \in LedgerActions /\ LedgerAction(s) \in LedgerActions
          /\ LedgerAction(s) = LedgerAction(r) <=> s = r
      BY ActionsDiffer DEF RecordInv, ChainInv, TablesOK
    <3> QED BY <3>1, AddOne
  <2>3. CASE s = r /\ d = c
    <3>1. Pending(s, d)' \subseteq Pending(s, d) \cup {w}
      BY <1>1 DEF Pending, Owes
    <3>2. /\ IsFiniteSet(Pending(s, d) \cup {w})
          /\ Cardinality(Pending(s, d) \cup {w}) <= Cardinality(Pending(s, d)) + 1
      <4> PICK P : P = Pending(s, d)
        OBVIOUS
      <4>1. IsFiniteSet(P) /\ Cardinality(P) \in Nat
        BY <2>1
      <4>2. /\ IsFiniteSet(P \cup {w})
            /\ Cardinality(P \cup {w}) = IF w \in P THEN Cardinality(P) ELSE Cardinality(P) + 1
        BY <4>1, FS_AddElement
      <4>3. Cardinality(P \cup {w}) <= Cardinality(P) + 1
        BY <4>1, <4>2
      <4> QED BY <4>2, <4>3
    <3>3. /\ IsFiniteSet(Pending(s, d)') /\ Cardinality(Pending(s, d)') \in Nat
          /\ Cardinality(Pending(s, d) \cup {w}) \in Nat
          /\ Cardinality(Pending(s, d)') <= Cardinality(Pending(s, d) \cup {w})
      BY <3>1, <3>2, FS_Subset, FS_CardinalityType
    <3> QED BY <2>1, <2>2, <2>3, <3>2, <3>3
  <2>4. CASE ~(s = r /\ d = c)
    <3>1. Pending(s, d)' \subseteq Pending(s, d)
      BY <1>1, <2>4 DEF Pending, Owes
    <3>2. /\ IsFiniteSet(Pending(s, d)') /\ Cardinality(Pending(s, d)') \in Nat
          /\ Cardinality(Pending(s, d)') <= Cardinality(Pending(s, d))
      BY <2>1, <3>1, FS_Subset, FS_CardinalityType
    <3> QED BY <2>1, <2>2, <2>4, <3>2
  <2> QED BY <2>3, <2>4
<1>3. EventsCover'
  BY <1>2 DEF EventsCover
<1>4. RecordsOthers'
  BY <1>1 DEF RecordInv, RecordsOthers
<1> QED BY <1>3, <1>4 DEF RecordInv

\* The answer that w owes is given.
LEMMA AnswerGiven ==
  ASSUME RecordInv, ChainInv', NEW w \in Workers, Ended(w), UNCHANGED <<entries, ledger>>,
         NEW r \in Resolutions, NEW c \in Contents,
         Owes(w, r), call[w].content = c,
         answered' = [answered EXCEPT ![r][c] = @ + 1]
  PROVE  RecordInv'
<1>1. \A v \in Workers \ {w} : call'[v] = call[v]
  BY DEF Ended, Moved, RecordInv, ChainInv, CallsOK, CallTyped
<1>2. ASSUME NEW s \in Resolutions, NEW d \in Contents
      PROVE  /\ IsFiniteSet(Pending(s, d)')
             /\ answered'[s][d] + Cardinality(Pending(s, d)') <= ledger'[LedgerAction(s)][d]
  <2>1. /\ IsFiniteSet(Pending(s, d)) /\ Cardinality(Pending(s, d)) \in Nat
        /\ answered[s][d] + Cardinality(Pending(s, d)) <= ledger[LedgerAction(s)][d]
        /\ answered[s][d] \in Nat /\ ledger[LedgerAction(s)][d] \in Nat
    BY FS_CardinalityType, ActionsDiffer DEF RecordInv, EventsCover, ChainInv, TablesOK
  <2>2. answered'[s][d] = IF s = r /\ d = c THEN answered[s][d] + 1 ELSE answered[s][d]
    <3>1. answered \in [Resolutions -> [Contents -> Nat]]
      BY DEF RecordInv, ChainInv, TablesOK
    <3> QED BY <3>1, AddOne
  <2>3. Pending(s, d)' \subseteq Pending(s, d) \ {w}
    BY <1>1 DEF Pending, Owes, Ended
  <2>4. CASE s = r /\ d = c
    <3> PICK P : P = Pending(s, d)
      OBVIOUS
    <3>1. w \in P /\ IsFiniteSet(P) /\ Cardinality(P) \in Nat
      BY <2>1, <2>4 DEF Pending
    <3>2. IsFiniteSet(P \ {w}) /\ Cardinality(P \ {w}) = Cardinality(P) - 1
      BY <3>1, FS_RemoveElement
    <3>3. /\ IsFiniteSet(Pending(s, d)') /\ Cardinality(Pending(s, d)') \in Nat
          /\ Cardinality(Pending(s, d)') <= Cardinality(P) - 1
      BY <2>3, <3>2, FS_Subset, FS_CardinalityType
    <3> QED BY <2>1, <2>2, <2>4, <3>1, <3>3
  <2>5. CASE ~(s = r /\ d = c)
    <3>1. Pending(s, d)' \subseteq Pending(s, d)
      BY <2>3
    <3>2. /\ IsFiniteSet(Pending(s, d)') /\ Cardinality(Pending(s, d)') \in Nat
          /\ Cardinality(Pending(s, d)') <= Cardinality(Pending(s, d))
      BY <2>1, <3>1, FS_Subset, FS_CardinalityType
    <3> QED BY <2>1, <2>2, <2>5, <3>2
  <2> QED BY <2>4, <2>5
<1>3. EventsCover'
  BY <1>2 DEF EventsCover
<1>4. PersistedOnce'
  BY DEF RecordInv, PersistedOnce, Registered
<1>5. RecordsOthers'
  BY <1>1 DEF RecordInv, RecordsOthers, Ended
<1> QED BY <1>3, <1>4, <1>5 DEF RecordInv

\* Every step keeps the ledger ahead of the answers.
LEMMA RecordStep == RecordInv /\ [Next]_vars => RecordInv'
<1> SUFFICES ASSUME RecordInv, [Next]_vars
             PROVE  RecordInv'
  OBVIOUS
<1>0. ChainInv /\ ChainInv' /\ TablesOK /\ CallsOK /\ CallTyped
  BY ChainStep DEF RecordInv, ChainInv, CallsOK
<1>1. ASSUME NEW w \in Workers, Moved(w), UNCHANGED <<entries, ledger, answered>>,
             call'[w].pc \notin {"confirm", "materialize", "record", "reply"}
      PROVE  RecordInv'
  BY <1>0, <1>1, NothingRecorded DEF Owes
<1>2. ASSUME NEW w \in Workers, Ended(w), UNCHANGED <<entries, ledger, answered>>
      PROVE  RecordInv'
  BY <1>1, <1>2 DEF Ended
<1>3. ASSUME NEW w \in Workers, NEW x \in {"reused", "read", "reconciled"}, Read(w, x),
             UNCHANGED <<entries, ledger, answered>>
      PROVE  RecordInv'
  BY <1>0, <1>3, NothingRecorded DEF Owes, Read, GoesOn
<1>4. ASSUME NEW w \in Workers, ~At(w, "idle")
      PROVE  /\ call[w].content \in Contents /\ call[w].resolution \in Resolutions
             /\ Len(objects[call[w].content]) \in Nat
  BY <1>0, <1>4 DEF CallsOK, CallTyped, Call, TablesOK, At
<1>5. ASSUME NEW w \in Workers, Start(w) PROVE RecordInv'
  BY <1>0, <1>1, <1>5, StartEffect DEF Start, tables
<1>6. ASSUME NEW w \in Workers, Lookup(w) PROVE RecordInv'
  <2>1. UNCHANGED <<entries, ledger, answered>>
    BY <1>6 DEF Lookup, tables
  <2>2. CASE GoesOn(w, "head")
    BY <1>1, <2>1, <2>2 DEF GoesOn
  <2> QED BY <1>0, <1>2, <1>3, <1>6, <2>1, <2>2, LookupEffect
<1>7. ASSUME NEW w \in Workers, ReadHead(w) PROVE RecordInv'
  <2>1. UNCHANGED <<entries, ledger, answered>>
    BY <1>7 DEF ReadHead, tables
  <2>2. CASE GoesOn(w, "get")
    BY <1>1, <2>1, <2>2 DEF GoesOn
  <2> QED BY <1>0, <1>2, <1>7, <2>1, <2>2, ReadHeadEffect
<1>8. ASSUME NEW w \in Workers, GetCurrent(w) PROVE RecordInv'
  <2>1. UNCHANGED <<entries, ledger, answered>> /\ ~At(w, "idle")
    BY <1>8 DEF GetCurrent, tables, At
  <2>2. CASE GoesOn(w, "put") \/ GoesOn(w, "begin")
    BY <1>1, <2>1, <2>2 DEF GoesOn
  <2> QED BY <1>0, <1>2, <1>4, <1>8, <2>1, <2>2, GetCurrentEffect
<1>9. ASSUME NEW w \in Workers, Put(w) PROVE RecordInv'
  <2>1. UNCHANGED <<entries, ledger, answered>> /\ ~At(w, "idle")
    BY <1>9 DEF Put, tables, At
  <2>2. GoesOn(w, "verify")
    BY <1>0, <1>4, <1>9, <2>1, PutEffect
  <2> QED BY <1>1, <2>1, <2>2 DEF GoesOn
<1>10. ASSUME NEW w \in Workers, Verify(w) PROVE RecordInv'
  <2>1. UNCHANGED <<entries, ledger, answered>>
    BY <1>10 DEF Verify, tables
  <2>2. CASE GoesOn(w, "begin")
    BY <1>1, <2>1, <2>2 DEF GoesOn
  <2> QED BY <1>0, <1>2, <1>10, <2>1, <2>2, VerifyEffect
<1>11. ASSUME NEW w \in Workers, BeginInsert(w) PROVE RecordInv'
  <2>1. UNCHANGED <<entries, ledger, answered>>
    BY <1>11 DEF BeginInsert, tables
  <2>2. call[w].head # None => entries[call[w].head].at \in Nat
    BY <1>0 DEF CallsOK, CallTyped, Call, TablesOK, Registered, Entry
  <2>3. GoesOn(w, "resolve") \/ GoesOn(w, "recheck")
    BY <1>0, <1>11, <2>2, BeginInsertEffect
  <2> QED BY <1>1, <2>1, <2>3 DEF GoesOn
<1>12. ASSUME NEW w \in Workers, RecheckHead(w) PROVE RecordInv'
  <2>1. UNCHANGED <<entries, ledger, answered>>
    BY <1>12 DEF RecheckHead, tables
  <2>2. CASE GoesOn(w, "insert")
    BY <1>1, <2>1, <2>2 DEF GoesOn
  <2> QED BY <1>0, <1>2, <1>12, <2>1, <2>2, RecheckHeadEffect
<1>13. ASSUME NEW w \in Workers, Insert(w) PROVE RecordInv'
  <2>1. At(w, "insert") /\ ~At(w, "idle")
    BY <1>13 DEF Insert, At
  <2>2. CASE Inserts(w)
    <3> PICK c \in Contents : c = call[w].content
      BY <1>4, <2>1
    <3>1. ~Registered(c) /\ Registered(c)' /\ \A d \in Contents \ {c} : Registered(d)' <=> Registered(d)
      <4>1. Wrote(w)
        BY <1>0, <2>1, <2>2, InsertsWrites
      <4> QED BY <2>2, <4>1 DEF Inserts, UniqueViolation, Wrote, Registered
    <3>2. ledger' = [ledger EXCEPT !["persisted"][c] = @ + 1]
      BY <2>2 DEF Inserts
    <3>3. ledger \in [LedgerActions -> [Contents -> Nat]] /\ "persisted" \in LedgerActions
      BY <1>0 DEF TablesOK, LedgerActions
    <3>4. \A d \in Contents :
             ledger'["persisted"][d] = IF d = c THEN ledger["persisted"][d] + 1 ELSE ledger["persisted"][d]
      BY <3>2, <3>3, AddOne
    <3>5. PersistedOnce'
      BY <3>1, <3>3, <3>4 DEF RecordInv, PersistedOnce
    <3>6. /\ GoesOn(w, "confirm") /\ Moved(w) /\ UNCHANGED answered
          /\ \A s \in Resolutions : ~Owes(w, s)
          /\ \A s \in Resolutions : Owes(w, s)' => s = "created"
          /\ call'[w].content = c /\ call'[w].pc # "record"
      BY <2>1, <2>2 DEF Inserts, GoesOn, Owes, At
    <3>7. "created" \in Resolutions /\ LedgerAction("created") = "persisted"
      BY DEF Resolutions, LedgerAction
    <3> QED BY <1>0, <3>2, <3>5, <3>6, <3>7, EventRecorded
  <2>3. CASE GoesOn(w, "resolve") /\ UNCHANGED <<entries, receipts, objects, ledger, answered, calls>>
    BY <1>1, <2>3 DEF GoesOn
  <2> QED BY <1>0, <1>13, <2>2, <2>3, InsertEffect
<1>14. ASSUME NEW w \in Workers, Resolve(w) PROVE RecordInv'
  <2>1. UNCHANGED <<entries, ledger, answered>>
    BY <1>14 DEF Resolve, tables
  <2> QED BY <1>0, <1>2, <1>3, <1>14, <2>1, ResolveEffect
<1>15. ASSUME NEW w \in Workers, Confirm(w) PROVE RecordInv'
  <2>1. UNCHANGED <<entries, ledger, answered>> /\ call[w].pc = "confirm"
    BY <1>15 DEF Confirm, tables, At
  <2>2. CASE Read(w, "created")
    BY <1>0, <2>1, <2>2, NothingRecorded DEF Owes, Read, GoesOn
  <2> QED BY <1>0, <1>2, <1>15, <2>1, <2>2, ConfirmEffect
<1>16. ASSUME NEW w \in Workers, Materialize(w) PROVE RecordInv'
  <2>1. UNCHANGED <<entries, ledger, answered>> /\ call[w].pc = "materialize"
    BY <1>16 DEF Materialize, tables, At
  <2>2. CASE /\ GoesOn(w, IF call[w].resolution = "created" THEN "reply" ELSE "record")
             /\ KeepsResolution(w)
    BY <1>0, <2>1, <2>2, NothingRecorded DEF Owes, GoesOn, KeepsResolution
  <2> QED BY <1>0, <1>2, <1>16, <2>1, <2>2, MaterializeEffect
<1>17. ASSUME NEW w \in Workers, Record(w) PROVE RecordInv'
  <2> PICK c, r : c = call[w].content /\ r = call[w].resolution
    OBVIOUS
  <2>1. c \in Contents /\ r \in Resolutions /\ call[w].pc = "record" /\ r # "created"
    BY <1>4, <1>17 DEF Record, At, RecordInv, RecordsOthers
  <2>2. GoesOn(w, "reply") /\ KeepsResolution(w)
    BY <1>0, <1>17, GoEffect DEF Record, Steps
  <2>3. ledger' = [ledger EXCEPT ![LedgerAction(r)][c] = @ + 1] /\ UNCHANGED <<entries, answered>>
    BY <1>17 DEF Record, tables
  <2>4. PersistedOnce'
    <3>1. /\ ledger \in [LedgerActions -> [Contents -> Nat]] /\ "persisted" \in LedgerActions
          /\ LedgerAction(r) \in LedgerActions /\ LedgerAction(r) # "persisted"
      BY <1>0, <2>1, ActionsDiffer DEF TablesOK, LedgerActions
    <3>2. \A d \in Contents : ledger'["persisted"][d] = ledger["persisted"][d]
      BY <2>1, <2>3, <3>1, AddOne
    <3> QED BY <2>3, <3>2 DEF RecordInv, PersistedOnce, Registered
  <2>5. /\ Moved(w) /\ call'[w].content = c /\ call'[w].pc # "record"
        /\ \A s \in Resolutions : ~Owes(w, s)
        /\ \A s \in Resolutions : Owes(w, s)' => s = r
    BY <2>1, <2>2 DEF GoesOn, KeepsResolution, Owes
  <2> QED BY <1>0, <2>1, <2>3, <2>4, <2>5, EventRecorded
<1>18. ASSUME NEW w \in Workers, Reply(w) PROVE RecordInv'
  <2> PICK c, r : c = call[w].content /\ r = call[w].resolution
    OBVIOUS
  <2>1. c \in Contents /\ r \in Resolutions /\ Owes(w, r)
    BY <1>4, <1>18 DEF Reply, At, Owes
  <2>2. answered' = [answered EXCEPT ![r][c] = @ + 1] /\ UNCHANGED <<entries, ledger>>
    BY <1>18 DEF Reply, tables
  <2> QED BY <1>0, <1>18, <2>1, <2>2, AnswerGiven, ReplyEffect
<1>19. ASSUME NEW w \in Workers, Fail(w) PROVE RecordInv'
  BY <1>0, <1>2, <1>19, FailEffect DEF Fail, tables
<1>20. CASE UNCHANGED <<entries, ledger, answered, call>>
  <2>1. \A r \in Resolutions, c \in Contents : Pending(r, c)' = Pending(r, c)
    BY <1>20 DEF Pending, Owes
  <2> QED BY <1>0, <1>20, <2>1 DEF RecordInv, EventsCover, PersistedOnce, RecordsOthers, Registered
<1>21. CASE UNCHANGED vars \/ \E c \in Contents : Overwrite(c)
  BY <1>20, <1>21 DEF Overwrite, vars, tables
<1> QED
  BY <1>5, <1>6, <1>7, <1>8, <1>9, <1>10, <1>11, <1>12, <1>13, <1>14, <1>15, <1>16, <1>17,
     <1>18, <1>19, <1>21 DEF Next, Step

\* At first nothing is recorded, and nobody owes an answer.
LEMMA RecordInit == Init => RecordInv
<1> SUFFICES ASSUME Init PROVE RecordInv
  OBVIOUS
<1>1. \A r \in Resolutions, c \in Contents : Pending(r, c) = {}
  BY DEF Init, Idle, Pending, Owes
<1>2. EventsCover
  <2> SUFFICES ASSUME NEW r \in Resolutions, NEW c \in Contents
               PROVE  /\ IsFiniteSet(Pending(r, c))
                      /\ answered[r][c] + Cardinality(Pending(r, c)) <= ledger[LedgerAction(r)][c]
    BY DEF EventsCover
  <2>1. LedgerAction(r) \in LedgerActions
    BY ActionsDiffer
  <2>2. answered[r][c] = 0 /\ ledger[LedgerAction(r)][c] = 0
    BY <2>1 DEF Init
  <2>3. IsFiniteSet(Pending(r, c)) /\ Cardinality(Pending(r, c)) = 0
    BY <1>1, FS_EmptySet
  <2> QED BY <2>2, <2>3
<1>3. PersistedOnce /\ RecordsOthers
  BY DEF Init, Idle, PersistedOnce, RecordsOthers, Registered, LedgerActions
<1> QED BY <1>2, <1>3, ChainInit DEF RecordInv

\* Events may be without an answer, answers are never without their event, and nothing is
\* persisted twice (_append_ledger_event and the flush of a registration).
THEOREM RecordedCorrect == Spec => []AnswersAreRecorded
<1>1. RecordInv => AnswersAreRecorded
  <2> SUFFICES ASSUME RecordInv, NEW r \in Resolutions, NEW c \in Contents
               PROVE  answered[r][c] <= ledger[LedgerAction(r)][c]
    BY DEF AnswersAreRecorded, RecordInv, PersistedOnce
  <2>1. /\ Cardinality(Pending(r, c)) \in Nat
        /\ answered[r][c] + Cardinality(Pending(r, c)) <= ledger[LedgerAction(r)][c]
    BY FS_CardinalityType DEF RecordInv, EventsCover
  <2>2. answered[r][c] \in Nat /\ ledger[LedgerAction(r)][c] \in Nat
    BY ActionsDiffer DEF RecordInv, ChainInv, TablesOK
  <2> QED BY <2>1, <2>2
<1> QED BY <1>1, RecordInit, RecordStep, PTL DEF Spec
-----------------------------------------------------------------------------
(* Refusals.                                                               *)

\* A call in progress has no outcome yet.
NoOutcomeYet == \A w \in Workers : call[w].pc # "idle" => call[w].outcome = "pending"

\* A subject has one head.
LEMMA OneHead ==
  ASSUME TablesOK, OneChainPerSubject, NEW s, NEW g \in Contents \cup {None},
         NEW h \in Contents \cup {None}, IsHead(g, s), IsHead(h, s)
  PROVE  g = h
<1>1. CASE g = None \/ h = None
  BY <1>1, RegistryAssumption DEF IsHead
<1>2. CASE g # None /\ h # None
  <2>1. /\ g \in Contents /\ h \in Contents /\ Registered(g) /\ Registered(h)
        /\ SubjectOf[g] = s /\ SubjectOf[h] = s
        /\ entries[g].generation <= entries[h].generation
        /\ entries[h].generation <= entries[g].generation
    BY <1>2 DEF IsHead, Members
  <2>2. entries[g].generation \in Nat /\ entries[h].generation \in Nat
    BY <2>1 DEF TablesOK, Registered, Entry
  <2>3. entries[g].generation = entries[h].generation
    BY <2>1, <2>2
  <2> QED BY <2>1, <2>3 DEF OneChainPerSubject, Members
<1> QED BY <1>1, <1>2

\* The reference of c does not name the head of its subject.
NamesNoHead(c) ==
  \A h \in Contents \cup {None} : IsHead(h, SubjectOf[c]) => ~SupersessionHolds(c, h)

\* A step of w gives it no outcome while it goes on, and a conflict only for a reason.
RefusesForAReason(w) ==
  /\ \A v \in Workers \ {w} : call'[v] = call[v]
  /\ call'[w].pc # "idle" => call'[w].outcome = "pending"
  /\ call'[w].outcome = "conflict" =>
        Registered(call[w].content) \/ NamesNoHead(call[w].content)

\* A call that goes on is given no outcome.
LEMMA GoesOnWithout ==
  ASSUME CallTyped, NEW w \in Workers, NEW r, Becomes(w, r), r.outcome = "pending"
  PROVE  RefusesForAReason(w)
BY DEF CallTyped, Becomes, RefusesForAReason

\* A call that ends has the outcome it ended with.
LEMMA EndsWith ==
  ASSUME CallTyped, NEW w \in Workers, NEW o, End(w, o),
         o = "conflict" => Registered(call[w].content) \/ NamesNoHead(call[w].content)
  PROVE  RefusesForAReason(w)
<1>1. /\ [Idle EXCEPT !.outcome = o].pc = "idle" /\ [Idle EXCEPT !.outcome = o].outcome = o
  BY DEF Idle
<1>2. call'[w] = [Idle EXCEPT !.outcome = o] /\ \A v \in Workers \ {w} : call'[v] = call[v]
  BY DEF CallTyped, End, Becomes
<1> QED BY <1>1, <1>2 DEF RefusesForAReason

\* A row is answered from, or found broken.
LEMMA SnapshotReasons ==
  ASSUME CallTyped, NoOutcomeYet, NEW w \in Workers, ~At(w, "idle"), NEW x, Snapshot(w, x)
  PROVE  RefusesForAReason(w)
<1>1. call[w] \in Call /\ call[w].outcome = "pending"
  BY DEF CallTyped, NoOutcomeYet, At
<1> DEFINE r == [call[w] EXCEPT !.pc = "materialize", !.resolution = x]
<1>2. r.outcome = "pending"
  BY <1>1 DEF Call
<1>3. Becomes(w, r) \/ End(w, "integrity")
  BY DEF Snapshot
<1> QED BY <1>2, <1>3, GoesOnWithout, EndsWith

\* A row of the same digest is reused, or is the reason of the refusal.
LEMMA ReuseReasons ==
  ASSUME CallTyped, NoOutcomeYet, NEW w \in Workers, ~At(w, "idle"),
         Registered(call[w].content), Reuse(w)
  PROVE  RefusesForAReason(w)
BY SnapshotReasons, EndsWith DEF Reuse

\* A call goes on to another step.
LEMMA GoReasons ==
  ASSUME CallTyped, NoOutcomeYet, NEW w \in Workers, ~At(w, "idle"), NEW p, Go(w, p)
  PROVE  RefusesForAReason(w)
<1>1. call[w] \in Call /\ call[w].outcome = "pending"
  BY DEF CallTyped, NoOutcomeYet, At
<1>2. [call[w] EXCEPT !.pc = p].outcome = "pending"
  BY <1>1 DEF Call
<1> QED BY <1>2, GoesOnWithout DEF Go

\* A head that is not named is the reason of a refusal: the subject has no other.
LEMMA OtherHeadNamed ==
  ASSUME ChainInv, NEW c \in Contents, NEW h \in Contents \cup {None},
         IsHead(h, SubjectOf[c]), ~SupersessionHolds(c, h)
  PROVE  NamesNoHead(c)
BY OneHead DEF NamesNoHead, ChainInv

\* A place taken below the head that was named is the reason of a refusal.
LEMMA PlaceTaken ==
  ASSUME ChainInv, NEW c \in Contents, NEW h \in Contents \cup {None},
         h # None => Registered(h), SupersessionHolds(c, h),
         NEW d \in Members(SubjectOf[c]), entries[d].generation = NewGeneration(h)
  PROVE  NamesNoHead(c)
<1> SUFFICES ASSUME NEW g \in Contents \cup {None}, IsHead(g, SubjectOf[c]),
                    SupersessionHolds(c, g)
             PROVE  FALSE
  BY DEF NamesNoHead
<1>1. g = h
  BY NamesOneHead
<1>2. CASE h = None
  BY <1>1, <1>2 DEF IsHead
<1>3. CASE h # None
  <2>1. entries[d].generation = entries[h].generation + 1
    BY <1>3 DEF NewGeneration
  <2>2. entries[h].generation \in Nat
    BY <1>3 DEF ChainInv, TablesOK, Registered, Entry
  <2>3. entries[d].generation <= entries[h].generation
    BY <1>1, <1>3 DEF IsHead
  <2> QED BY <2>1, <2>2, <2>3
<1> QED BY <1>2, <1>3

\* Each step of a call refuses for a reason.
LEMMA StepReasons ==
  ASSUME ChainInv, NoOutcomeYet, NEW w \in Workers, Step(w)
  PROVE  RefusesForAReason(w)
<1>0. CallTyped /\ CallsOK /\ TablesOK
  BY DEF ChainInv, CallsOK
<1>1. ASSUME ~At(w, "idle")
      PROVE  /\ call[w] \in Call /\ call[w].content \in Contents /\ call[w].outcome = "pending"
  BY <1>0, <1>1 DEF CallsOK, CallTyped, NoOutcomeYet, At
<1>2. CASE Start(w)
  <2>1. PICK op \in Operations, c \in Contents :
           Becomes(w, [Idle EXCEPT !.pc = "lookup", !.op = op, !.content = c])
    BY <1>2 DEF Start
  <2>2. [Idle EXCEPT !.pc = "lookup", !.op = op, !.content = c].outcome = "pending"
    BY DEF Idle
  <2> QED BY <1>0, <2>1, <2>2, GoesOnWithout
<1>3. CASE Lookup(w)
  <2>1. ~At(w, "idle")
    BY <1>3 DEF Lookup, At
  <2>2. CASE Registered(call[w].content) /\ Reuse(w)
    BY <1>0, <2>1, <2>2, ReuseReasons
  <2>3. CASE Snapshot(w, "read") \/ Snapshot(w, "reconciled")
    BY <1>0, <2>1, <2>3, SnapshotReasons
  <2>4. CASE Go(w, "head")
    BY <1>0, <2>1, <2>4, GoReasons
  <2>5. CASE End(w, "not_found")
    BY <1>0, <2>5, EndsWith
  <2> QED BY <1>3, <2>2, <2>3, <2>4, <2>5 DEF Lookup
<1>4. CASE ReadHead(w)
  <2>1. ~At(w, "idle")
    BY <1>4 DEF ReadHead, At
  <2>2. PICK h \in Contents \cup {None} :
           /\ IsHead(h, SubjectOf[call[w].content])
           /\ \/ Becomes(w, [call[w] EXCEPT !.pc = "get", !.head = h])
              \/ ~SupersessionHolds(call[w].content, h) /\ End(w, "conflict")
    BY <1>4 DEF ReadHead
  <2>3. [call[w] EXCEPT !.pc = "get", !.head = h].outcome = "pending"
    BY <1>1, <2>1 DEF Call
  <2>4. CASE Becomes(w, [call[w] EXCEPT !.pc = "get", !.head = h])
    BY <1>0, <2>3, <2>4, GoesOnWithout
  <2>5. CASE ~SupersessionHolds(call[w].content, h) /\ End(w, "conflict")
    BY <1>0, <1>1, <2>1, <2>2, <2>5, OtherHeadNamed, EndsWith
  <2> QED BY <2>2, <2>4, <2>5
<1>5. CASE GetCurrent(w)
  <2>1. ~At(w, "idle")
    BY <1>5 DEF GetCurrent, At
  <2>2. PICK n : \/ Go(w, "put") \/ End(w, "integrity")
                 \/ Becomes(w, [call[w] EXCEPT !.pc = "begin", !.version = n])
    BY <1>5 DEF GetCurrent
  <2>3. [call[w] EXCEPT !.pc = "begin", !.version = n].outcome = "pending"
    BY <1>1, <2>1 DEF Call
  <2> QED BY <1>0, <2>1, <2>2, <2>3, GoReasons, EndsWith, GoesOnWithout
<1>6. CASE Put(w)
  <2>1. ~At(w, "idle")
    BY <1>6 DEF Put, At
  <2>2. PICK n : Becomes(w, [call[w] EXCEPT !.pc = "verify", !.version = n])
    BY <1>6 DEF Put
  <2>3. [call[w] EXCEPT !.pc = "verify", !.version = n].outcome = "pending"
    BY <1>1, <2>1 DEF Call
  <2> QED BY <1>0, <2>2, <2>3, GoesOnWithout
<1>7. CASE Verify(w)
  BY <1>0, <1>7, GoReasons, EndsWith DEF Verify, At
<1>8. CASE BeginInsert(w)
  <2>1. ~At(w, "idle")
    BY <1>8 DEF BeginInsert, At
  <2>2. PICK p, n : Becomes(w, [call[w] EXCEPT !.pc = p, !.storedAt = n])
    BY <1>8 DEF BeginInsert
  <2>3. [call[w] EXCEPT !.pc = p, !.storedAt = n].outcome = "pending"
    BY <1>1, <2>1 DEF Call
  <2> QED BY <1>0, <2>2, <2>3, GoesOnWithout
<1>9. CASE RecheckHead(w)
  <2>1. ~At(w, "idle")
    BY <1>9 DEF RecheckHead, At
  <2>2. PICK h \in Contents \cup {None} :
           /\ IsHead(h, SubjectOf[call[w].content])
           /\ \/ End(w, "unavailable")
              \/ Becomes(w, [call[w] EXCEPT !.pc = "insert", !.head = h])
              \/ ~SupersessionHolds(call[w].content, h) /\ End(w, "conflict")
    BY <1>9 DEF RecheckHead
  <2>3. [call[w] EXCEPT !.pc = "insert", !.head = h].outcome = "pending"
    BY <1>1, <2>1 DEF Call
  <2>4. CASE End(w, "unavailable")
    BY <1>0, <2>4, EndsWith
  <2>5. CASE Becomes(w, [call[w] EXCEPT !.pc = "insert", !.head = h])
    BY <1>0, <2>3, <2>5, GoesOnWithout
  <2>6. CASE ~SupersessionHolds(call[w].content, h) /\ End(w, "conflict")
    BY <1>0, <1>1, <2>1, <2>2, <2>6, OtherHeadNamed, EndsWith
  <2> QED BY <2>2, <2>4, <2>5, <2>6
<1>10. CASE Insert(w)
  <2>1. ~At(w, "idle") /\ (Go(w, "resolve") \/ Go(w, "confirm"))
    BY <1>10 DEF Insert, At
  <2> QED BY <1>0, <2>1, GoReasons
<1>11. CASE Resolve(w)
  <2> PICK c, h : c = call[w].content /\ h = call[w].head
    OBVIOUS
  <2>1. ~At(w, "idle") /\ call[w].pc = "resolve"
    BY <1>11 DEF Resolve, At
  <2>2. CASE Registered(c) /\ Reuse(w)
    BY <1>0, <2>1, <2>2, ReuseReasons
  <2>3. CASE ~Registered(c) /\ End(w, "conflict")
    <3>1. /\ SupersessionHolds(c, h) /\ h \in Contents \cup {None} /\ (h # None => Registered(h))
          /\ \E d \in Members(SubjectOf[c]) : entries[d].generation = NewGeneration(h)
      BY <1>0, <2>1, <2>3, SoundParts DEF ChainInv, CallIsSound, CallsOK, CallTyped, Call
    <3>2. NamesNoHead(c)
      BY <1>1, <2>1, <3>1, PlaceTaken
    <3> QED BY <1>0, <2>3, <3>2, EndsWith
  <2> QED BY <1>11, <2>2, <2>3 DEF Resolve
<1>12. CASE Confirm(w)
  <2>1. ~At(w, "idle") /\ (Snapshot(w, "created") \/ End(w, "unavailable"))
    BY <1>12 DEF Confirm, At
  <2> QED BY <1>0, <2>1, SnapshotReasons, EndsWith
<1>13. CASE Materialize(w)
  <2>1. ~At(w, "idle") /\ (Go(w, "reply") \/ Go(w, "record") \/ End(w, "integrity"))
    BY <1>13 DEF Materialize, At
  <2> QED BY <1>0, <2>1, GoReasons, EndsWith
<1>14. CASE Record(w)
  BY <1>0, <1>14, GoReasons DEF Record, At
<1>15. CASE Reply(w)
  <2>1. call[w].resolution # "conflict" /\ End(w, call[w].resolution)
    BY <1>0, <1>15 DEF Reply, CallTyped, Call, Resolutions
  <2> QED BY <1>0, <2>1, EndsWith
<1>16. CASE Fail(w)
  BY <1>0, <1>16, EndsWith DEF Fail
<1> QED
  BY <1>2, <1>3, <1>4, <1>5, <1>6, <1>7, <1>8, <1>9, <1>10, <1>11, <1>12, <1>13, <1>14, <1>15,
     <1>16 DEF Step

\* A call in progress has no outcome yet, after every step.
LEMMA OutcomeStep == ChainInv /\ NoOutcomeYet /\ [Next]_vars => NoOutcomeYet'
<1> SUFFICES ASSUME ChainInv, NoOutcomeYet, [Next]_vars PROVE NoOutcomeYet'
  OBVIOUS
<1>1. ASSUME NEW w \in Workers, Step(w) PROVE NoOutcomeYet'
  BY <1>1, StepReasons DEF NoOutcomeYet, RefusesForAReason
<1>2. CASE UNCHANGED call
  BY <1>2 DEF NoOutcomeYet
<1> QED BY <1>1, <1>2 DEF Next, Overwrite, vars

\* A refused registration could not have been accepted then: its digest was taken, or it does not
\* name the head (register, after an IntegrityError as before it).
THEOREM ConflictCorrect == Spec => ConflictIsReal
<1>1. Init => ChainInv /\ NoOutcomeYet
  BY ChainInit DEF Init, Idle, NoOutcomeYet
<1>2. ChainInv /\ NoOutcomeYet /\ [Next]_vars => ChainInv' /\ NoOutcomeYet'
  BY ChainStep, OutcomeStep
<1>3. ASSUME ChainInv, NoOutcomeYet, [Next]_vars
      PROVE  [\A w \in Workers :
                ~At(w, "idle") /\ call'[w].outcome = "conflict" =>
                   LET c == call[w].content IN
                   \/ Registered(c)
                   \/ \A h \in Contents \cup {None} :
                         IsHead(h, SubjectOf[c]) => ~SupersessionHolds(c, h)]_vars
  <2>1. ASSUME NEW v \in Workers, Step(v), NEW w \in Workers, ~At(w, "idle"),
               call'[w].outcome = "conflict"
        PROVE  Registered(call[w].content) \/ NamesNoHead(call[w].content)
    <3>1. call[w].outcome = "pending"
      BY <2>1, <1>3 DEF NoOutcomeYet, At
    <3>2. RefusesForAReason(v)
      BY <1>3, <2>1, StepReasons
    <3> QED BY <2>1, <3>1, <3>2 DEF RefusesForAReason
  <2>2. ASSUME NEW c \in Contents, Overwrite(c), NEW w \in Workers, ~At(w, "idle"),
               call'[w].outcome = "conflict"
        PROVE  FALSE
    BY <1>3, <2>2 DEF Overwrite, NoOutcomeYet, At
  <2> QED BY <1>3, <2>1, <2>2 DEF Next, NamesNoHead
<1> QED BY <1>1, <1>2, <1>3, PTL DEF Spec, ConflictIsReal
-----------------------------------------------------------------------------
(* Refinement: the registry implements one growing chain per subject.      *)

Position == [c \in Contents |-> IF Registered(c) THEN entries[c].generation ELSE 0]
Told == {c \in Contents : \E r \in Resolutions : answered[r][c] # 0}

\* The rows of a subject are the members of its chain, and a registered content has a position.
LEMMA ChainMembers ==
  ASSUME TablesOK
  PROVE  /\ \A s : Chain!Members(s) = Members(s)
         /\ \A c \in Contents : Registered(c) => Position[c] = entries[c].generation
                                                 /\ entries[c].generation \in Nat \ {0}
         /\ \A c \in Contents : ~Registered(c) => Position[c] = 0
<1>1. \A c \in Contents : Registered(c) => entries[c].generation \in Nat \ {0}
  BY DEF TablesOK, Registered, Entry
<1>2. \A c \in Contents : /\ Registered(c) => Position[c] = entries[c].generation
                          /\ ~Registered(c) => Position[c] = 0
  BY DEF Position
<1>3. \A s : Chain!Members(s) = {c \in Contents : SubjectOf[c] = s /\ Position[c] # 0}
  BY DEF Chain!Members, Position
<1>4. \A s : Chain!Members(s) = Members(s)
  BY <1>1, <1>2, <1>3 DEF Members
<1> QED BY <1>1, <1>2, <1>4

\* A step that leaves rows and answers alone is no step of the chains.
LEMMA ChainsKept ==
  ASSUME UNCHANGED <<entries, answered>>
  PROVE  UNCHANGED Chain!chainVars
BY DEF Chain!chainVars, Registered

\* An insertion gives its content the next position of its subject's chain, and no other content.
LEMMA InsertsPosition ==
  ASSUME TablesOK, CallsOK, NEW w \in Workers, ~At(w, "idle"), Inserts(w), UNCHANGED answered
  PROVE  /\ Position' = [Position EXCEPT ![call[w].content] = NewGeneration(call[w].head)]
         /\ Told' = Told
<1> PICK c, g : c = call[w].content /\ g = NewGeneration(call[w].head)
  OBVIOUS
<1>1. c \in Contents
  BY DEF CallsOK, At
<1>2. /\ entries'[c] # None /\ entries'[c].generation = g
      /\ \A d \in Contents : d # c => entries'[d] = entries[d]
  BY InsertsWrites DEF Wrote
<1>3. \A d \in Contents : Position'[d] = IF d = c THEN g ELSE Position[d]
  BY <1>1, <1>2 DEF Position, Registered
<1>4. Position' = [Position EXCEPT ![c] = g]
  BY <1>3 DEF Position
<1> QED BY <1>4 DEF Told

\* A committed registration begins its subject's chain or extends its end.
LEMMA InsertsChain ==
  ASSUME ChainInv, NEW w \in Workers, At(w, "insert"), Inserts(w), UNCHANGED answered
  PROVE  \E c \in Contents : Chain!Begin(c) \/ Chain!Extend(c)
<1>0. TablesOK /\ CallsOK /\ CallIsSound(w) /\ OneChainPerSubject /\ ~At(w, "idle")
  BY SoundParts DEF ChainInv, At
<1>1. /\ Position' = [Position EXCEPT ![call[w].content] = NewGeneration(call[w].head)]
      /\ Told' = Told
  BY <1>0, InsertsPosition
<1> PICK c, h, s : c = call[w].content /\ h = call[w].head /\ s = SubjectOf[c]
  OBVIOUS
<1>2. c \in Contents /\ h \in Contents \cup {None} /\ (h # None => Registered(h))
  BY <1>0 DEF CallsOK, CallTyped, Call, At
<1>3. SupersessionHolds(c, h) /\ (h # None => SubjectOf[h] = s)
  BY <1>0 DEF CallIsSound, At, PastHead
<1>4. ~Registered(c) /\ \A d \in Members(s) : entries[d].generation # NewGeneration(h)
  BY DEF Inserts, UniqueViolation
<1>5. \A d \in Members(s) : d \in Contents /\ Registered(d) /\ SubjectOf[d] = s
  BY DEF Members
<1>6. \A d \in Members(s) : \A n \in 1 .. entries[d].generation :
         \E e \in Members(s) : entries[e].generation = n
  BY <1>0, <1>5 DEF OneChainPerSubject
<1>7. CASE h = None
  <2>1. NewGeneration(h) = 1 /\ Supersedes[c] = None
    BY <1>3, <1>7 DEF NewGeneration, SupersessionHolds
  <2>2. \A d \in Members(s) : 1 \in 1 .. entries[d].generation
    BY <1>0, <1>5, ChainMembers
  <2>3. Members(s) = {}
    BY <1>4, <1>6, <2>1, <2>2
  <2>4. Chain!Members(s) = {}
    BY <1>0, <2>3, ChainMembers
  <2>5. Position' = [Position EXCEPT ![c] = 1]
    BY <1>1, <2>1
  <2>6. Chain!Begin(c)
    BY <1>1, <2>1, <2>4, <2>5 DEF Chain!Begin, Position, Told
  <2> QED BY <1>2, <2>6
<1>8. CASE h # None
  <2>1. /\ h \in Members(s) /\ entries[h].generation \in Nat \ {0}
        /\ NewGeneration(h) = entries[h].generation + 1
    BY <1>0, <1>2, <1>3, <1>8, ChainMembers DEF Members, NewGeneration
  <2>2. ASSUME NEW d \in Members(s) PROVE entries[d].generation <= entries[h].generation
    <3>1. entries[d].generation \in Nat \ {0}
      BY <1>0, <1>5, ChainMembers
    <3>2. entries[d].generation > entries[h].generation =>
             NewGeneration(h) \in 1 .. entries[d].generation
      BY <2>1, <3>1
    <3> QED BY <1>4, <1>6, <2>1, <3>1, <3>2
  <2>3. \A d \in Members(s) : Position[d] = entries[d].generation
    BY <1>0, <1>5, ChainMembers
  <2>4. Chain!IsEnd(h, s)
    <3>1. h \in Chain!Members(s) /\ \A d \in Chain!Members(s) : Position[d] <= Position[h]
      BY <1>0, <2>1, <2>2, <2>3, ChainMembers
    <3> QED BY <3>1 DEF Chain!IsEnd, Position
  <2>5. Supersedes[c] = [uri |-> h, digest |-> h]
    BY <1>3, <1>8 DEF SupersessionHolds
  <2>6. Position' = [Position EXCEPT ![c] = Position[h] + 1] /\ Position[c] = 0
    BY <1>0, <1>1, <1>2, <1>4, <2>1, <2>3, ChainMembers
  <2>7. Chain!Extend(c)
    BY <1>1, <1>2, <1>8, <2>4, <2>5, <2>6 DEF Chain!Extend, Position, Told
  <2> QED BY <1>2, <2>7
<1> QED BY <1>7, <1>8

\* An answer acknowledges a content that is in its chain.
LEMMA ReplyAcknowledges ==
  ASSUME ChainInv, NEW w \in Workers, Reply(w)
  PROVE  \E c \in Contents : Chain!Acknowledge(c)
<1> PICK c, r : c = call[w].content /\ r = call[w].resolution
  OBVIOUS
<1>0. TablesOK /\ CallsOK /\ CallIsSound(w)
  BY SoundParts DEF ChainInv
<1>1. c \in Contents /\ r \in Resolutions
  BY <1>0 DEF CallsOK, CallTyped, Call, Reply, At
<1>2. Registered(c)
  BY <1>0 DEF CallIsSound, Reply, At
<1>3. Position[c] # 0 /\ Position' = Position
  <2>1. Position[c] # 0
    BY <1>0, <1>1, <1>2, ChainMembers
  <2> QED BY <2>1 DEF Reply, tables, Position, Registered
<1>4. /\ answered \in [Resolutions -> [Contents -> Nat]]
      /\ answered' = [answered EXCEPT ![r][c] = @ + 1]
  BY <1>0 DEF TablesOK, Reply
<1>5. \A q \in Resolutions, d \in Contents :
         answered'[q][d] = IF q = r /\ d = c THEN answered[r][c] + 1 ELSE answered[q][d]
  BY <1>1, <1>4, AddOne
<1>6. answered'[r][c] # 0
  BY <1>1, <1>4, <1>5
<1>7. Told' = Told \cup {c}
  BY <1>1, <1>5, <1>6 DEF Told
<1>8. Chain!Acknowledge(c)
  BY <1>1, <1>3, <1>7 DEF Chain!Acknowledge, Position, Told
<1> QED BY <1>1, <1>8

\* Every step of the registry is a step of the chains, or none.
LEMMA ChainsStep == ChainInv /\ [Next]_vars => [Chain!Next]_Chain!chainVars
<1> SUFFICES ASSUME ChainInv, [Next]_vars
             PROVE  [Chain!Next]_Chain!chainVars
  OBVIOUS
<1>0. CallTyped
  BY DEF ChainInv, CallsOK
<1>1. ASSUME NEW w \in Workers, Insert(w) PROVE [Chain!Next]_Chain!chainVars
  <2>1. At(w, "insert") /\ ~At(w, "idle") /\ UNCHANGED answered
    BY <1>1 DEF Insert, At
  <2>2. CASE Inserts(w)
    <3>1. Chain!Next
      BY <2>1, <2>2, InsertsChain DEF Chain!Next
    <3> QED BY <3>1
  <2>3. CASE UNCHANGED entries
    BY <2>1, <2>3, ChainsKept
  <2>4. Inserts(w) \/ UNCHANGED entries
    BY <1>0, <1>1, InsertEffect DEF tables
  <2> QED BY <2>2, <2>3, <2>4
<1>2. ASSUME NEW w \in Workers, Reply(w) PROVE [Chain!Next]_Chain!chainVars
  <2>1. Chain!Next
    BY <1>2, ReplyAcknowledges DEF Chain!Next
  <2> QED BY <2>1
<1>3. ASSUME NEW w \in Workers,
             \/ Start(w) \/ Lookup(w) \/ ReadHead(w) \/ GetCurrent(w) \/ Put(w) \/ Verify(w)
             \/ BeginInsert(w) \/ RecheckHead(w) \/ Resolve(w) \/ Confirm(w)
             \/ Materialize(w) \/ Record(w) \/ Fail(w)
      PROVE  UNCHANGED <<entries, answered>>
  BY <1>3 DEF Start, Lookup, ReadHead, GetCurrent, Put, Verify, BeginInsert, RecheckHead,
              Resolve, Confirm, Materialize, Record, Fail, tables
<1>4. ASSUME (\E c \in Contents : Overwrite(c)) \/ UNCHANGED vars
      PROVE  UNCHANGED <<entries, answered>>
  BY <1>4 DEF Overwrite, vars, tables
<1> QED BY <1>1, <1>2, <1>3, <1>4, ChainsKept DEF Next, Step

\* The tables implement the promise of CustodyChain: what callers were told is in a chain that
\* only grows at its end.
THEOREM ImplementsCorrect == Spec => ImplementsCustodyChain
<1>1. Init => Chain!Init
  BY DEF Init, Chain!Init, Registered
<1>2. ChainInv /\ [Next]_vars => [Chain!Next]_Chain!chainVars
  BY ChainsStep
<1> QED
  BY <1>1, <1>2, ChainInit, ChainStep, PTL DEF Spec, ImplementsCustodyChain, Chain!Spec
=============================================================================
