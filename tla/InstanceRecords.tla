-------------------------- MODULE InstanceRecords --------------------------
(***************************************************************************)
(* Internal operational records: InstanceRecordStore of instance_records.py *)
(* and the intake and inventory services of instance_repository_intake.py  *)
(* and instance_repository_inventory.py on the three instance tables of    *)
(* db/models.py, on PostgreSQL.                                            *)
(*                                                                         *)
(* A worker is a thread serving one route call (run_in_threadpool), in any *)
(* API process.  accept and resolve run in one database transaction under  *)
(* a transaction advisory lock on the operation key; its statements see    *)
(* what is committed when they run, row locks and uncommitted insertions   *)
(* block other transactions, and nothing is visible before the commit.     *)
(* A read of the source authority is a chain of separate reads.            *)
(*                                                                         *)
(* A value stands for a record value and its digest.  One installation and *)
(* one authorized writer are modelled, and the policy helper of the        *)
(* governance repository is what Allows, Eligible, Legacy and              *)
(* LegacyProviders say.                                                    *)
(***************************************************************************)
EXTENDS Naturals, Sequences

CONSTANTS
    Workers, Requests, Keys, Records, Values, Providers, Suggestions,
    KeyOf,       \* a request's idempotency key
    RecordOf,    \* the record it targets
    ExpectedOf,  \* the record state it was reviewed against, or None
    ValueOf,     \* the record value its plan produces
    ProviderOf,  \* the immutable provider binding of a value, or None
    SuggestionOf,\* the AI decision a request accepts, or None
    Policies,    \* revisions of the governance checkout
    Allows,      \* the requests the policy allows at a revision
    Eligible,    \* the values the policy grants source authority at a revision
    Legacy,      \* the records the Git register claims at a revision
    LegacyProviders, \* the provider bindings it claims
    Operations,  \* the routes callers use
    None,
    MaxCalls,    \* bound: calls started
    MaxChanges   \* bound: moves of the governance checkout

State == [version : Nat \ {0}, value : Values]
Revision == [value : Values, key : Keys, policy : Policies, previous : State \cup {None}]
Operation == [request : Requests, version : Nat \ {0}]

ASSUME RecordsAssumption ==
    /\ KeyOf \in [Requests -> Keys] /\ RecordOf \in [Requests -> Records]
    /\ ExpectedOf \in [Requests -> State \cup {None}] /\ ValueOf \in [Requests -> Values]
    /\ ProviderOf \in [Values -> Providers \cup {None}]
    /\ SuggestionOf \in [Requests -> Suggestions \cup {None}]
    /\ Allows \in [Policies -> SUBSET Requests] /\ Eligible \in [Policies -> SUBSET Values]
    /\ Legacy \in [Policies -> SUBSET Records]
    /\ LegacyProviders \in [Policies -> SUBSET Providers]
    /\ Operations \subseteq {"accept", "resolve", "authority"}
    /\ None \notin State /\ None \notin Operation
    /\ None \notin Requests /\ None \notin Records /\ None \notin Policies
    /\ None \notin Providers /\ None \notin Suggestions
    /\ MaxCalls \in Nat /\ MaxChanges \in Nat

VARIABLES
    rows,       \* table instance_operational_records
    revisions,  \* table instance_operational_revisions, by record and version
    operations, \* table instance_operational_operations
    policy,     \* the revision the governance checkout is at
    answers,    \* the acceptances callers were told: [request, version]
    call,       \* the call each worker is serving
    calls,      \* calls started so far
    changes     \* moves of the checkout so far

tables == <<rows, revisions, operations>>
vars == <<rows, revisions, operations, policy, answers, call, calls, changes>>

Outcomes == {"pending", "accepted", "absent", "conflict", "unavailable", "granted", "legacy"}
\* The steps of an open decision: the transaction holds its advisory lock.
Deciding == {"operation", "plan", "lock", "validate", "write", "recover", "commit"}
Reading == {"context", "row", "second", "third", "compare"}
Call == [pc : {"idle", "begin", "reply"} \cup Deciding \cup Reading,
         op : {"accept", "resolve", "authority"},
         request : Requests \cup {None},
         record : Records \cup {None},
         policy : Policies \cup {None},  \* the revision planned or read under
         seen : State \cup {None},       \* the row read
         version : Nat,                  \* the revision to answer with
         holds : BOOLEAN,                \* auxiliary: the answer held at the second policy read
         outcome : Outcomes]

Idle == [pc |-> "idle", op |-> "resolve", request |-> None, record |-> None, policy |-> None,
         seen |-> None, version |-> 0, holds |-> FALSE, outcome |-> "pending"]

Init ==
    /\ rows = [r \in Records |-> None]
    /\ revisions = [r \in Records |-> <<>>]
    /\ operations = [k \in Keys |-> None]
    /\ policy \in Policies
    /\ answers = {}
    /\ call = [w \in Workers |-> Idle]
    /\ calls = 0
    /\ changes = 0
-----------------------------------------------------------------------------
(* Locks and constraints.                                                  *)

At(w, pc) == call[w].pc = pc
Becomes(w, r) == call' = [call EXCEPT ![w] = r]
Go(w, pc) == Becomes(w, [call[w] EXCEPT !.pc = pc])
\* An exception leaves the transaction: it is rolled back and its locks go.
End(w, outcome) == Becomes(w, [Idle EXCEPT !.outcome = outcome])

Key(w) == KeyOf[call[w].request]

\* Mutant: the decision is not serialized.
HoldsNoKey(w, k) == FALSE

\* pg_try_advisory_xact_lock, held to the end of the transaction.
HoldsKey(w, k) == call[w].pc \in Deciding /\ Key(w) = k

\* FOR UPDATE on an existing row; a rolled back savepoint releases it.
HoldsRow(w, r) ==
    call[w].pc \in {"validate", "write", "commit"} /\ call[w].record = r /\ call[w].seen # None

Shares(a, b) == a # None /\ a = b

\* Mutant: two writes from one AI decision wait for each other.
WaitsForWriter(w, u) ==
    /\ u # w /\ call[u].pc \in {"write", "commit"}
    /\ Shares(SuggestionOf[call[u].request], SuggestionOf[call[w].request])

\* An uncommitted write of u under one of the unique keys w is about to use.
MustWaitFor(w, u) ==
    /\ u # w /\ At(u, "commit")
    /\ \/ call[u].record = call[w].record
       \/ Shares(ProviderOf[ValueOf[call[u].request]], ProviderOf[ValueOf[call[w].request]])
       \/ Shares(SuggestionOf[call[u].request], SuggestionOf[call[w].request])

\* A committed row has one of them: the record, its provider binding, the operation
\* key or the AI decision.
Taken(w) ==
    LET q == call[w].request IN
    \/ call[w].seen = None /\ rows[call[w].record] # None
    \/ \E r \in Records \ {call[w].record} :
          rows[r] # None /\ Shares(ProviderOf[rows[r].value], ProviderOf[ValueOf[q]])
    \/ operations[KeyOf[q]] # None
    \/ \E k \in Keys :
          operations[k] # None /\ Shares(SuggestionOf[operations[k].request], SuggestionOf[q])
-----------------------------------------------------------------------------
(* accept and resolve.                                                     *)

\* A call arrives; its route and payload are validated before the transaction.
Start(w) ==
    /\ At(w, "idle")
    /\ calls < MaxCalls
    /\ \/ \E op \in Operations \cap {"accept", "resolve"}, q \in Requests :
             Becomes(w, [Idle EXCEPT !.pc = "begin", !.op = op, !.request = q,
                                     !.record = RecordOf[q]])
       \/ /\ "authority" \in Operations
          /\ \E r \in Records :
                Becomes(w, [Idle EXCEPT !.pc = "context", !.op = "authority", !.record = r])
    /\ calls' = calls + 1
    /\ UNCHANGED <<tables, policy, answers, changes>>

\* _within_operation: a lock another transaction holds is not waited for.
Begin(w) ==
    /\ At(w, "begin")
    /\ \/ (\E u \in Workers : HoldsKey(u, Key(w))) /\ End(w, "unavailable")
       \/ (\A u \in Workers : ~HoldsKey(u, Key(w))) /\ Go(w, "operation")
    /\ UNCHANGED <<tables, policy, answers, calls, changes>>

\* A retained operation is the answer when the input is the original one.
Replay(w) ==
    IF operations[Key(w)].request = call[w].request
      THEN Becomes(w, [call[w] EXCEPT !.pc = "reply", !.outcome = "accepted",
                                      !.version = operations[Key(w)].version])
      ELSE End(w, "conflict")

ReadOperation(w) ==
    /\ At(w, "operation")
    /\ \/ operations[Key(w)] # None /\ Replay(w)
       \/ operations[Key(w)] = None /\ call[w].op = "resolve" /\ End(w, "absent")
       \/ operations[Key(w)] = None /\ call[w].op = "accept" /\ Go(w, "plan")
    /\ UNCHANGED <<tables, policy, answers, calls, changes>>

\* The native policy plans the decision at the revision the checkout is at.
Plan(w) ==
    /\ At(w, "plan")
    /\ \/ /\ call[w].request \in Allows[policy]
          /\ Becomes(w, [call[w] EXCEPT !.pc = "lock", !.policy = policy])
       \/ call[w].request \notin Allows[policy] /\ End(w, "conflict")
    /\ UNCHANGED <<tables, policy, answers, calls, changes>>

\* Mutant: the reviewed state is not compared.
LockRowUnreviewed(w) ==
    LET r == call[w].record IN
    /\ At(w, "lock")
    /\ \A u \in Workers : ~HoldsRow(u, r)
    /\ Becomes(w, [call[w] EXCEPT !.pc = "validate", !.seen = rows[r]])
    /\ UNCHANGED <<tables, policy, answers, calls, changes>>

\* commit: the row is read FOR UPDATE, waiting for its holder, and compared with
\* the state the operator reviewed.
LockRow(w) ==
    LET r == call[w].record IN
    /\ At(w, "lock")
    /\ \A u \in Workers : ~HoldsRow(u, r)
    /\ \/ ExpectedOf[call[w].request] # rows[r] /\ End(w, "conflict")
       \/ /\ ExpectedOf[call[w].request] = rows[r]
          /\ Becomes(w, [call[w] EXCEPT !.pc = "validate", !.seen = rows[r]])
    /\ UNCHANGED <<tables, policy, answers, calls, changes>>

\* Mutant: the provider binding is not compared with the row's.
ValidatePolicyOnly(w) ==
    /\ At(w, "validate")
    /\ IF call[w].request \in Allows[policy] /\ policy = call[w].policy
         THEN Go(w, "write")
         ELSE End(w, "conflict")
    /\ UNCHANGED <<tables, policy, answers, calls, changes>>

\* The policy is evaluated again and must give the very same plan, whose evidence
\* names its revision; then the provider binding must be the row's.
Validate(w) ==
    LET q == call[w].request
        seen == call[w].seen IN
    /\ At(w, "validate")
    /\ IF /\ q \in Allows[policy]
          /\ policy = call[w].policy
          /\ seen # None => ProviderOf[seen.value] = ProviderOf[ValueOf[q]]
         THEN Go(w, "write")
         ELSE End(w, "conflict")
    /\ UNCHANGED <<tables, policy, answers, calls, changes>>

\* The UPDATE, whose condition is the state the row was read in, and the flush.
\* They wait for uncommitted writes under the same keys; a committed one is an
\* IntegrityError, which rolls the savepoint back.
Write(w) ==
    LET c == call[w] IN
    /\ At(w, "write")
    /\ \A u \in Workers : ~MustWaitFor(w, u)
    /\ IF c.seen # None /\ rows[c.record] # c.seen THEN End(w, "conflict")
       ELSE IF Taken(w) THEN Go(w, "recover")
       ELSE Go(w, "commit")
    /\ UNCHANGED <<tables, policy, answers, calls, changes>>

\* Only an exact durable replay resolves that race as success.
Recover(w) ==
    /\ At(w, "recover")
    /\ IF operations[Key(w)] # None THEN Replay(w) ELSE End(w, "conflict")
    /\ UNCHANGED <<tables, policy, answers, calls, changes>>

\* Mutant: the version is not advanced.
SameVersion(row) == IF row = None THEN 1 ELSE row.version

NewVersion(row) == IF row = None THEN 1 ELSE row.version + 1

\* The enclosing transaction commits: current row, revision and operation together.
Commit(w) ==
    LET q == call[w].request
        r == call[w].record
        version == NewVersion(call[w].seen) IN
    /\ At(w, "commit")
    /\ rows' = [rows EXCEPT ![r] = [version |-> version, value |-> ValueOf[q]]]
    /\ revisions' = [revisions EXCEPT ![r] = Append(@,
          [value |-> ValueOf[q], key |-> KeyOf[q], policy |-> call[w].policy,
           previous |-> call[w].seen])]
    /\ operations' = [operations EXCEPT ![KeyOf[q]] = [request |-> q, version |-> version]]
    /\ Becomes(w, [call[w] EXCEPT !.pc = "reply", !.outcome = "accepted", !.version = version])
    /\ UNCHANGED <<policy, answers, calls, changes>>
-----------------------------------------------------------------------------
(* source_authority.                                                       *)

\* prepare: the policy context first.
ReadContext(w) ==
    /\ At(w, "context")
    /\ Becomes(w, [call[w] EXCEPT !.pc = "row", !.policy = policy])
    /\ UNCHANGED <<tables, policy, answers, calls, changes>>

\* prepare: then the row, whose authority must not overlap the Git register's.
ReadRow(w) ==
    LET r == call[w].record
        inRegister == r \in Legacy[call[w].policy] IN
    /\ At(w, "row")
    /\ \/ inRegister /\ rows[r] = None
          /\ Becomes(w, [call[w] EXCEPT !.pc = "reply", !.outcome = "legacy"])
       \/ inRegister /\ rows[r] # None /\ End(w, "conflict")
       \/ ~inRegister /\ rows[r] = None /\ End(w, "conflict")
       \/ ~inRegister /\ rows[r] # None
          /\ Becomes(w, [call[w] EXCEPT !.pc = "second", !.seen = rows[r]])
    /\ UNCHANGED <<tables, policy, answers, calls, changes>>

\* The policy is read again, must be the same revision, and grants the value.
ReadAgain(w) ==
    LET c == call[w] IN
    /\ At(w, "second")
    /\ IF /\ policy = c.policy
          /\ ProviderOf[c.seen.value] \notin LegacyProviders[policy]
          /\ c.seen.value \in Eligible[policy]
         THEN Becomes(w, [c EXCEPT !.pc = "third", !.holds = (rows[c.record] = c.seen)])
         ELSE End(w, "conflict")
    /\ UNCHANGED <<tables, policy, answers, calls, changes>>

\* prepare a second time: the context ...
ReadContextAgain(w) ==
    /\ At(w, "third")
    /\ IF policy = call[w].policy THEN Go(w, "compare") ELSE End(w, "conflict")
    /\ UNCHANGED <<tables, policy, answers, calls, changes>>

\* Mutant: only the policy is compared.
ComparePolicyOnly(w) ==
    /\ At(w, "compare")
    /\ Becomes(w, [call[w] EXCEPT !.pc = "reply", !.outcome = "granted"])
    /\ UNCHANGED <<tables, policy, answers, calls, changes>>

\* ... and the row; a state other than the first one is refused.
CompareRow(w) ==
    /\ At(w, "compare")
    /\ IF rows[call[w].record] = call[w].seen
         THEN Becomes(w, [call[w] EXCEPT !.pc = "reply", !.outcome = "granted"])
         ELSE End(w, "conflict")
    /\ UNCHANGED <<tables, policy, answers, calls, changes>>
-----------------------------------------------------------------------------
(* Answers, failures and the governance checkout.                          *)

Reply(w) ==
    /\ At(w, "reply")
    /\ answers' = IF call[w].outcome = "accepted"
                    THEN answers \cup {[request |-> call[w].request, version |-> call[w].version]}
                    ELSE answers
    /\ End(w, call[w].outcome)
    /\ UNCHANGED <<tables, policy, calls, changes>>

\* The process dies, the connection is lost, or the policy source or the database
\* is unavailable: an open transaction is rolled back, a committed one stays.
Fail(w) ==
    /\ ~At(w, "idle")
    /\ End(w, "unavailable")
    /\ UNCHANGED <<tables, policy, answers, calls, changes>>

\* The checkout moves to another revision, possibly back to an earlier one.
ChangePolicy ==
    /\ changes < MaxChanges
    /\ policy' \in Policies \ {policy}
    /\ changes' = changes + 1
    /\ UNCHANGED <<tables, answers, call, calls>>

Serve(w) ==
    \/ Begin(w) \/ ReadOperation(w) \/ Plan(w) \/ LockRow(w) \/ Validate(w) \/ Write(w)
    \/ Recover(w) \/ Commit(w) \/ ReadContext(w) \/ ReadRow(w) \/ ReadAgain(w)
    \/ ReadContextAgain(w) \/ CompareRow(w) \/ Reply(w)

Next == (\E w \in Workers : Start(w) \/ Serve(w) \/ Fail(w)) \/ ChangePolicy

Spec == Init /\ [][Next]_vars

\* A thread runs on, and a statement that no transaction blocks returns.
FairSpec == Spec /\ \A w \in Workers : WF_vars(Serve(w))
-----------------------------------------------------------------------------
(* Properties.                                                             *)

StateAt(r, n) == IF n = 0 THEN None ELSE [version |-> n, value |-> revisions[r][n].value]

\* Current record, history and operations always bind one another: the record is
\* its last revision, each revision names the state before it, which is the one its
\* operation's request was reviewed against under a policy that allows it, and
\* every operation is the only one with its revision.  So the integrity checks of
\* read, list, history and replay never refuse what commit wrote.
HistoryIsBound ==
    /\ \A r \in Records :
          /\ rows[r] = StateAt(r, Len(revisions[r]))
          /\ \A n \in DOMAIN revisions[r] :
                LET revision == revisions[r][n]
                    operation == operations[revision.key] IN
                /\ operation # None
                /\ operation.version = n
                /\ RecordOf[operation.request] = r
                /\ ValueOf[operation.request] = revision.value
                /\ ExpectedOf[operation.request] = revision.previous
                /\ operation.request \in Allows[revision.policy]
                /\ revision.previous = StateAt(r, n - 1)
    /\ \A k \in Keys : operations[k] # None =>
          /\ operations[k].version \in DOMAIN revisions[RecordOf[operations[k].request]]
          /\ revisions[RecordOf[operations[k].request]][operations[k].version].key = k

\* The provider binding of a record is never substituted or removed, by any
\* sequence of accepted requests.
ProviderNeverMoves ==
    [][\A r \in Records : rows[r] # None =>
          rows'[r] # None /\ ProviderOf[rows'[r].value] = ProviderOf[rows[r].value]]_vars

\* A negative answer of the operation lock's holder is final for the calls under
\* way: none of the same key is deciding, so none that has started to decide
\* commits after it.
NegativeIsFinal ==
    [][\A w, u \in Workers :
          /\ w # u /\ call[w].pc \in Deciding
          /\ call'[w].pc = "idle" /\ call'[w].outcome \in {"absent", "conflict"}
          => ~(call[u].pc \in Deciding /\ Key(u) = Key(w))]_vars

\* Source authority is granted for a record and a policy revision that held at one
\* moment of the read, although neither is locked and the checkout may have moved
\* to another revision and back.
AuthorityIsSimultaneous ==
    \A w \in Workers : call[w].outcome = "granted" /\ call[w].pc = "reply" => call[w].holds

\* No decision waits forever: every call ends.
EveryCallEnds == \A w \in Workers : ~At(w, "idle") ~> At(w, "idle")

\* The three tables are an operation log: a request extends its record's log from
\* the state it was reviewed against, once per key, and answers tell what is in it.
Log == INSTANCE OperationLog WITH
    log <- [r \in Records |->
              [n \in DOMAIN revisions[r] |-> operations[revisions[r][n].key].request]],
    told <- {a.request : a \in answers}

ImplementsOperationLog == Log!Spec
=============================================================================
