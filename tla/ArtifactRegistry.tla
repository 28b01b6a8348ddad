-------------------------- MODULE ArtifactRegistry --------------------------
(***************************************************************************)
(* The Delivery ART artifact registry: DeliveryArtifactRegistry of         *)
(* control_fabric_core/artifact_registry.py, with the object store client  *)
(* of artifact_storage.py and the two registry tables of db/models.py.     *)
(*                                                                         *)
(* A worker is one API process.  Its route handlers call the registry      *)
(* synchronously on the event loop, so a worker serves one registry call   *)
(* at a time; several workers share the database and the bucket.  A call   *)
(* is a chain of separate database sessions and storage requests, and each *)
(* action below is one of them.  The database runs at READ COMMITTED: each *)
(* statement sees what is committed when it runs, and the unique           *)
(* constraints decide between transactions at their flush.                 *)
(*                                                                         *)
(* A content stands for the canonical bytes of one artifact body and for   *)
(* their SHA-256 digest at once; the registry URI and the object key are   *)
(* functions of the digest, so a content is also its own primary key.      *)
(***************************************************************************)
EXTENDS Naturals, Sequences

CONSTANTS
    Workers,     \* the API processes
    Contents,    \* the artifact bodies callers register
    Subjects,    \* <<delivery_id, artifact_type, artifact_id>>
    SubjectOf,   \* the subject a body declares
    Supersedes,  \* its custody.supersedes reference, or None
    Operations,  \* the registry routes callers use
    Times,       \* the readings the process clocks may return, in any order
    None,
    Foreign,     \* bytes that are no artifact of this registry
    MaxCalls,    \* bound: calls started
    MaxVersions  \* bound: versions of a key an outside writer still adds to

References == [uri : Contents, digest : Contents]
Entry == [generation : Nat \ {0}, version : Nat, at : Nat,
          supersedes : References \cup {None}]
Receipt == [storedAt : Nat, at : Nat, version : Nat, supersedes : Contents \cup {None}]

ASSUME RegistryAssumption ==
    /\ SubjectOf \in [Contents -> Subjects]
    /\ Supersedes \in [Contents -> References \cup {None}]
    /\ None \notin Contents /\ None \notin References
    /\ None \notin Entry /\ None \notin Receipt
    /\ Foreign \notin Contents
    /\ Operations \subseteq {"register", "read", "reconcile"}
    /\ Times \subseteq Nat
    /\ MaxCalls \in Nat /\ MaxVersions \in Nat

VARIABLES
    entries,   \* table delivery_artifact_registry_entries
    receipts,  \* table delivery_artifact_custody_receipts
    objects,   \* the versions of each content-addressed key, oldest first
    ledger,    \* number of committed ledger events of an action about a content
    answered,  \* number of answers a caller received, by resolution and content
    call,      \* the call each worker is serving
    calls      \* calls started so far

tables == <<entries, receipts>>
vars == <<entries, receipts, objects, ledger, answered, call, calls>>

Resolutions == {"created", "reused", "read", "reconciled"}
\* The ledger action artifact.registry.<name> a resolution is recorded under.
LedgerAction(resolution) == IF resolution = "created" THEN "persisted" ELSE resolution
LedgerActions == {"persisted", "reused", "read", "reconciled"}
Refusals == {"conflict", "not_found", "integrity", "unavailable"}

Steps == {"idle", "lookup", "head", "get", "put", "verify", "begin", "recheck",
          "insert", "resolve", "confirm", "materialize", "record", "reply"}
Call == [pc : Steps,
         op : {"register", "read", "reconcile"},
         content : Contents \cup {None},
         head : Contents \cup {None},    \* the subject head last read
         version : Nat,                  \* the object version bound so far
         storedAt : Nat,                 \* timeline.storage
         resolution : Resolutions,
         outcome : Resolutions \cup Refusals \cup {"pending"}]

Idle == [pc |-> "idle", op |-> "read", content |-> None, head |-> None, version |-> 0,
         storedAt |-> 0, resolution |-> "read", outcome |-> "pending"]

Init ==
    /\ entries = [c \in Contents |-> None]
    /\ receipts = [c \in Contents |-> None]
    /\ objects = [c \in Contents |-> <<>>]
    /\ ledger = [a \in LedgerActions |-> [c \in Contents |-> 0]]
    /\ answered = [r \in Resolutions |-> [c \in Contents |-> 0]]
    /\ call = [w \in Workers |-> Idle]
    /\ calls = 0
-----------------------------------------------------------------------------
(* What the tables say.                                                    *)

Registered(c) == entries[c] # None

Members(s) == {c \in Contents : Registered(c) /\ SubjectOf[c] = s}

\* The row "ORDER BY generation DESC LIMIT 1" returns for a subject.
IsHead(h, s) ==
    IF h = None
      THEN Members(s) = {}
      ELSE h \in Members(s) /\ \A d \in Members(s) : entries[d].generation <= entries[h].generation

\* _validate_supersession: a first generation names nothing, a later one names
\* the URI and the digest of the head.
SupersessionHolds(c, h) ==
    Supersedes[c] = IF h = None THEN None ELSE [uri |-> h, digest |-> h]

\* The lineage checks of _snapshot on the row of c and its predecessor's.
LineageSound(c) ==
    LET row == entries[c] IN
    /\ receipts[c] # None
    /\ (row.generation = 1) <=> (row.supersedes = None)
    /\ row.supersedes # None =>
          LET p == row.supersedes.uri IN
          /\ Registered(p) /\ receipts[p] # None
          /\ p = row.supersedes.digest
          /\ SubjectOf[p] = SubjectOf[c]
          /\ entries[p].generation + 1 = row.generation
          /\ entries[p].at < row.at

\* The checks of _validate_receipt: the receipt names the predecessor's receipt
\* and the bound object version, and the three instants are strictly ordered.
ReceiptSound(c) ==
    /\ receipts[c].supersedes =
          IF entries[c].supersedes = None THEN None ELSE entries[c].supersedes.uri
    /\ receipts[c].version = entries[c].version
    /\ receipts[c].storedAt < receipts[c].at
    /\ receipts[c].at < entries[c].at

\* The bound version still returns the bytes of c.
BytesSound(c) ==
    entries[c].version \in DOMAIN objects[c] /\ objects[c][entries[c].version] = c

\* The generation of an entry below head h.
NewGeneration(h) == IF h = None THEN 1 ELSE entries[h].generation + 1

\* Mutant of UniqueViolation: no constraint on (subject, generation).
NoGenerationConstraint(c, h) ==
    \/ Registered(c)
    \/ \E d \in Contents : /\ Registered(d)
                           /\ Supersedes[c] # None
                           /\ entries[d].supersedes = Supersedes[c]

\* Mutant of UniqueViolation: the generation is unique in the table, not per subject.
GlobalGenerationConstraint(c, h) ==
    \/ Registered(c)
    \/ \E d \in Contents : Registered(d) /\ entries[d].generation = NewGeneration(h)

\* The constraints an insertion below head h would break: the primary key and the
\* digest, the (subject, generation) pair, and the superseded URI.
UniqueViolation(c, h) ==
    \/ Registered(c)
    \/ \E d \in Members(SubjectOf[c]) : entries[d].generation = NewGeneration(h)
    \/ \E d \in Contents : /\ Registered(d)
                           /\ Supersedes[c] # None
                           /\ entries[d].supersedes # None
                           /\ entries[d].supersedes.uri = Supersedes[c].uri
-----------------------------------------------------------------------------
(* The steps of a call.                                                    *)

At(w, pc) == call[w].pc = pc
Becomes(w, r) == call' = [call EXCEPT ![w] = r]
Go(w, pc) == Becomes(w, [call[w] EXCEPT !.pc = pc])
\* The call leaves the worker with this outcome.
End(w, outcome) == Becomes(w, [Idle EXCEPT !.outcome = outcome])

\* The row was found: _snapshot validates its lineage and the call goes on to
\* materialize it.
Snapshot(w, resolution) ==
    IF LineageSound(call[w].content)
      THEN Becomes(w, [call[w] EXCEPT !.pc = "materialize", !.resolution = resolution])
      ELSE End(w, "integrity")

\* A registration whose digest is already there: the stored row is validated, then
\* _assert_same_registration, and the stored record becomes the answer.
Reuse(w) ==
    LET c == call[w].content IN
    IF LineageSound(c) /\ entries[c].supersedes # Supersedes[c]
      THEN End(w, "conflict")
      ELSE Snapshot(w, "reused")

\* A caller's request reaches an idle worker; the body is parsed and its digest
\* checked before anything else.
Start(w) ==
    /\ At(w, "idle")
    /\ calls < MaxCalls
    /\ \E op \in Operations, c \in Contents :
          Becomes(w, [Idle EXCEPT !.pc = "lookup", !.op = op, !.content = c])
    /\ calls' = calls + 1
    /\ UNCHANGED <<tables, objects, ledger, answered>>

\* The first session of a call reads the row of the digest.
Lookup(w) ==
    LET c == call[w].content IN
    /\ At(w, "lookup")
    /\ \/ Registered(c) /\ call[w].op = "register" /\ Reuse(w)
       \/ Registered(c) /\ call[w].op = "read" /\ Snapshot(w, "read")
       \/ Registered(c) /\ call[w].op = "reconcile" /\ Snapshot(w, "reconciled")
       \/ ~Registered(c) /\ call[w].op = "register" /\ Go(w, "head")
       \/ ~Registered(c) /\ call[w].op # "register" /\ End(w, "not_found")
    /\ UNCHANGED <<tables, objects, ledger, answered, calls>>

\* Mutant of ReadHead: the reference is not validated before the storage requests.
ReadHeadUnvalidated(w) ==
    /\ At(w, "head")
    /\ \E h \in Contents \cup {None} :
          /\ IsHead(h, SubjectOf[call[w].content])
          /\ Becomes(w, [call[w] EXCEPT !.pc = "get", !.head = h])
    /\ UNCHANGED <<tables, objects, ledger, answered, calls>>

\* A second session reads the subject's head and the reference is validated.
ReadHead(w) ==
    LET c == call[w].content IN
    /\ At(w, "head")
    /\ \E h \in Contents \cup {None} :
          /\ IsHead(h, SubjectOf[c])
          /\ \/ SupersessionHolds(c, h) /\ Becomes(w, [call[w] EXCEPT !.pc = "get", !.head = h])
             \/ ~SupersessionHolds(c, h) /\ End(w, "conflict")
    /\ UNCHANGED <<tables, objects, ledger, answered, calls>>

\* ensure_content: an unversioned GET.  404 leads to a PUT; a current version with
\* other bytes is refused; otherwise the current version is bound.
GetCurrent(w) ==
    LET c == call[w].content
        versions == objects[c] IN
    /\ At(w, "get")
    /\ \/ versions = <<>> /\ Go(w, "put")
       \/ /\ versions # <<>> /\ versions[Len(versions)] = c
          /\ Becomes(w, [call[w] EXCEPT !.pc = "begin", !.version = Len(versions)])
       \/ /\ versions # <<>> /\ versions[Len(versions)] # c
          /\ End(w, "integrity")
    /\ UNCHANGED <<tables, objects, ledger, answered, calls>>

\* ensure_content: the PUT adds a version and returns its id.
Put(w) ==
    LET c == call[w].content IN
    /\ At(w, "put")
    /\ objects' = [objects EXCEPT ![c] = Append(@, c)]
    /\ Becomes(w, [call[w] EXCEPT !.pc = "verify", !.version = Len(objects[c]) + 1])
    /\ UNCHANGED <<tables, ledger, answered, calls>>

\* ensure_content: the exact version is read back and compared.
Verify(w) ==
    LET c == call[w].content IN
    /\ At(w, "verify")
    /\ IF objects[c][call[w].version] = c THEN Go(w, "begin") ELSE End(w, "integrity")
    /\ UNCHANGED <<tables, objects, ledger, answered, calls>>

\* Mutant of StorageInstant: the clock is trusted.
ClockOnly(now, h) == now

\* _persistence_timeline: the storage instant follows the persisted_at of the head
\* read before the storage requests, whatever the clock says.
StorageInstant(now, h) ==
    IF h # None /\ entries[h].at + 1 > now THEN entries[h].at + 1 ELSE now

\* The timeline is fixed and the registering transaction asks for the digest again.
BeginInsert(w) ==
    LET c == call[w].content IN
    /\ At(w, "begin")
    /\ \E now \in Times :
          Becomes(w, [call[w] EXCEPT !.pc = IF Registered(c) THEN "resolve" ELSE "recheck",
                               !.storedAt = StorageInstant(now, call[w].head)])
    /\ UNCHANGED <<tables, objects, ledger, answered, calls>>

\* Mutant of RecheckHead: the reference is not validated again under the new head.
RecheckHeadUnvalidated(w) ==
    /\ At(w, "recheck")
    /\ \E h \in Contents \cup {None} :
          /\ IsHead(h, SubjectOf[call[w].content])
          /\ Becomes(w, [call[w] EXCEPT !.pc = "insert", !.head = h])
    /\ UNCHANGED <<tables, objects, ledger, answered, calls>>

\* Its second statement reads the head again and validates the reference again.
RecheckHead(w) ==
    LET c == call[w].content IN
    /\ At(w, "recheck")
    /\ \E h \in Contents \cup {None} :
          /\ IsHead(h, SubjectOf[c])
          /\ \/ /\ SupersessionHolds(c, h)
                /\ IF h # None /\ receipts[h] = None
                     THEN End(w, "unavailable")
                     ELSE Becomes(w, [call[w] EXCEPT !.pc = "insert", !.head = h])
             \/ ~SupersessionHolds(c, h) /\ End(w, "conflict")
    /\ UNCHANGED <<tables, objects, ledger, answered, calls>>

\* Flush and commit: the row, its custody receipt and the "persisted" ledger event
\* become visible together, or a unique constraint refuses all three.  Rows never
\* change, so the generation read from the head here is the one the statement read.
Insert(w) ==
    LET c == call[w].content
        h == call[w].head
        storedAt == call[w].storedAt IN
    /\ At(w, "insert")
    /\ \/ /\ UniqueViolation(c, h)
          /\ Go(w, "resolve")
          /\ UNCHANGED <<tables, ledger>>
       \/ /\ ~UniqueViolation(c, h)
          /\ entries' = [entries EXCEPT ![c] =
                [generation |-> NewGeneration(h), version |-> call[w].version,
                 at |-> storedAt + 2, supersedes |-> Supersedes[c]]]
          /\ receipts' = [receipts EXCEPT ![c] =
                [storedAt |-> storedAt, at |-> storedAt + 1,
                 version |-> call[w].version, supersedes |-> h]]
          /\ ledger' = [ledger EXCEPT !["persisted"][c] = @ + 1]
          /\ Go(w, "confirm")
    /\ UNCHANGED <<objects, answered, calls>>

\* After an IntegrityError, or when the digest had appeared: another registration
\* of the same digest is reused, any other winner is a conflict.
Resolve(w) ==
    LET c == call[w].content IN
    /\ At(w, "resolve")
    /\ \/ Registered(c) /\ Reuse(w)
       \/ ~Registered(c) /\ End(w, "conflict")
    /\ UNCHANGED <<tables, objects, ledger, answered, calls>>

\* The committed row is read back in a new session.
Confirm(w) ==
    /\ At(w, "confirm")
    /\ IF Registered(call[w].content) THEN Snapshot(w, "created") ELSE End(w, "unavailable")
    /\ UNCHANGED <<tables, objects, ledger, answered, calls>>

\* Mutant of Materialize: the answer leaves before its ledger event is written.
AnswerUnrecorded(w) ==
    LET c == call[w].content IN
    /\ At(w, "materialize")
    /\ IF BytesSound(c) /\ ReceiptSound(c) THEN Go(w, "reply") ELSE End(w, "integrity")
    /\ UNCHANGED <<tables, objects, ledger, answered, calls>>

\* _materialize: the bound version is fetched and the receipt validated.
Materialize(w) ==
    LET c == call[w].content IN
    /\ At(w, "materialize")
    /\ IF BytesSound(c) /\ ReceiptSound(c)
         THEN Go(w, IF call[w].resolution = "created" THEN "reply" ELSE "record")
         ELSE End(w, "integrity")
    /\ UNCHANGED <<tables, objects, ledger, answered, calls>>

\* _append_ledger_event, a transaction of its own.
Record(w) ==
    /\ At(w, "record")
    /\ ledger' = [ledger EXCEPT ![LedgerAction(call[w].resolution)][call[w].content] = @ + 1]
    /\ Go(w, "reply")
    /\ UNCHANGED <<tables, objects, answered, calls>>

\* The answer reaches the caller.
Reply(w) ==
    /\ At(w, "reply")
    /\ answered' = [answered EXCEPT ![call[w].resolution][call[w].content] = @ + 1]
    /\ End(w, call[w].resolution)
    /\ UNCHANGED <<tables, objects, ledger, calls>>

\* The process dies, the caller's connection is lost, or a database or storage
\* request fails: the call ends without a usable answer, committed work stays.
Fail(w) ==
    /\ ~At(w, "idle")
    /\ End(w, "unavailable")
    /\ UNCHANGED <<tables, objects, ledger, answered, calls>>

\* A holder of bucket credentials writes other bytes under a key of the registry;
\* the bucket is versioned and grants no delete, so older versions stay.
Overwrite(c) ==
    /\ Len(objects[c]) < MaxVersions
    /\ objects' = [objects EXCEPT ![c] = Append(@, Foreign)]
    /\ UNCHANGED <<tables, ledger, answered, call, calls>>

Step(w) ==
    \/ Start(w) \/ Lookup(w) \/ ReadHead(w) \/ GetCurrent(w) \/ Put(w) \/ Verify(w)
    \/ BeginInsert(w) \/ RecheckHead(w) \/ Insert(w) \/ Resolve(w) \/ Confirm(w)
    \/ Materialize(w) \/ Record(w) \/ Reply(w) \/ Fail(w)

Next == (\E w \in Workers : Step(w)) \/ (\E c \in Contents : Overwrite(c))

Spec == Init /\ [][Next]_vars
-----------------------------------------------------------------------------
(* Properties.                                                             *)

\* Every variable stays in its domain.
TypeOK ==
    /\ entries \in [Contents -> Entry \cup {None}]
    /\ receipts \in [Contents -> Receipt \cup {None}]
    /\ objects \in [Contents -> Seq(Contents \cup {Foreign})]
    /\ ledger \in [LedgerActions -> [Contents -> Nat]]
    /\ answered \in [Resolutions -> [Contents -> Nat]]
    /\ call \in [Workers -> Call]
    /\ \A w \in Workers : call[w].pc # "idle" => call[w].content \in Contents
    /\ \A w \in Workers : call[w].head # None => Registered(call[w].head)
    /\ calls \in Nat

\* The calls that have validated their reference against a head.
PastHead == {"get", "put", "verify", "begin", "recheck", "insert"}

\* What a call in progress relies on: the reference it validated still names the
\* head it holds, in the subject of its content; the version it bound still holds
\* the bytes; its storage instant follows that head's.  A call that lost the
\* insertion race finds its content or its place taken, and a call that answers
\* finds its row.
CallsAreSound ==
    \A w \in Workers :
        LET c == call[w].content
            h == call[w].head
            pc == call[w].pc IN
        /\ pc \in PastHead =>
              SupersessionHolds(c, h) /\ (h # None => SubjectOf[h] = SubjectOf[c])
        /\ pc \in {"verify", "begin", "recheck", "insert"} =>
              call[w].version \in DOMAIN objects[c] /\ objects[c][call[w].version] = c
        /\ pc \in {"recheck", "insert"} /\ h # None => entries[h].at < call[w].storedAt
        /\ pc = "resolve" /\ ~Registered(c) =>
              /\ SupersessionHolds(c, h)
              /\ \E d \in Members(SubjectOf[c]) : entries[d].generation = NewGeneration(h)
        /\ pc \in {"confirm", "materialize", "record", "reply"} => Registered(c)

\* The generations of a subject are 1, 2, ..., n with exactly one content each:
\* registrations racing for the same place never fork a chain or leave a hole in
\* it, although the head is read two sessions before the row is written.
OneChainPerSubject ==
    \A c \in Contents : Registered(c) =>
        /\ \A d \in Members(SubjectOf[c]) :
              entries[d].generation = entries[c].generation => d = c
        /\ \A g \in 1 .. entries[c].generation :
              \E d \in Members(SubjectOf[c]) : entries[d].generation = g

\* Whatever was committed, a later read accepts: the lineage, receipt, chronology
\* and byte checks a reader makes never refuse a row the registration wrote, even
\* when clocks disagree or step back between generations and the key is
\* overwritten afterwards.
CommittedIsReadable ==
    \A c \in Contents : Registered(c) => LineageSound(c) /\ ReceiptSound(c) /\ BytesSound(c)

\* No answer reaches a caller before the ledger event that records it, and a content has one
\* "persisted" event from its registration on: crashes may leave events without an answer, never
\* answers without an event, and no retry persists again what was persisted.
AnswersAreRecorded ==
    /\ \A r \in Resolutions, c \in Contents :
          answered[r][c] <= ledger[LedgerAction(r)][c]
    /\ \A c \in Contents :
          ledger["persisted"][c] = IF Registered(c) THEN 1 ELSE 0

\* A refused registration could not have been accepted at that instant: the digest
\* is taken or the reference does not name the current head.  In particular a lost
\* insertion race is never reported as a conflict while the place is still free.
ConflictIsReal ==
    [][\A w \in Workers :
         ~At(w, "idle") /\ call'[w].outcome = "conflict" =>
            LET c == call[w].content IN
            \/ Registered(c)
            \/ \A h \in Contents \cup {None} :
                  IsHead(h, SubjectOf[c]) => ~SupersessionHolds(c, h)]_vars

\* "retries with the same digest reuse the existing object and receipt"
\* (docs/operations/operator-surface.md): a registration is never refused as a
\* conflict once its own digest is registered.
RetryIsReused ==
    [][\A w \in Workers :
         ~At(w, "idle") /\ call'[w].outcome = "conflict" => ~Registered(call[w].content)]_vars

\* The registry implements one growing chain per subject, and acknowledges only
\* what is in a chain.
Chain == INSTANCE CustodyChain WITH
    generation <- [c \in Contents |-> IF Registered(c) THEN entries[c].generation ELSE 0],
    acknowledged <- {c \in Contents : \E r \in Resolutions : answered[r][c] # 0}

ImplementsCustodyChain == Chain!Spec
=============================================================================
