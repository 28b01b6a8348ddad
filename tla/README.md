# Workspace Governance Control Fabric: TLA+ models and proofs

This directory holds TLA+ models of the parts of the control fabric (WGCF) whose
correctness depends on interleavings, crashes, retries and clocks, or on long
sequences of decisions that are each judged alone; the TLC configurations that check
them on small instances; and TLAPS proofs of the most important properties for every
instance.

## The system

WGCF is a Python runtime: a FastAPI service (`apps/api`), a CLI (`apps/cli`), a
Temporal activity worker (`apps/worker`), and a core package
(`packages/control_fabric_core`) on PostgreSQL and an S3 object store. It keeps
custody of Delivery ART artifacts, issues readiness receipts, keeps
installation-private repository records, plans and executes validations, and runs
bounded owner activities. Paths below are relative to
`packages/control_fabric_core/src/control_fabric_core` unless they start with `apps/`
or `docs/`.

| Component | State it keeps | Operations | Interacts with | What is hard | Correct means | Modelled by |
|---|---|---|---|---|---|---|
| **Artifact registry** (`artifact_registry.py`, `artifact_storage.py`) | tables of entries and custody receipts, the versioned bucket, ledger events | register, read, reconcile | API routes, object store, readiness | several processes, a call is many sessions and requests, crashes between them, clocks | one gap-free chain per subject; what is committed stays readable; refusals are real; answers are recorded | `ArtifactRegistry` |
| **Internal operational records** (`instance_*.py`) | current records, revisions, operations | accept, readback, source authority, list, history | governance checkout, operator workflow, readiness | advisory and row locks, unique keys, lost answers, a policy that moves during a decision, unlocked reads | a key decides once; a record changes only from the reviewed state; authority held at one moment | `InstanceRecords` |
| **Orchestration activity worker** (`apps/worker`, `worker.py`) | staging and committed result directories, owner processes | run activity, heartbeat, cancel, time out, retry | Temporal, controlled proof, validation | a timed-out attempt that still runs, cancellation during commit, crash between stage and commit | one result per key, none of an unfenced process, an attempt ends | `OwnerActivity` |
| **Controlled proof** (`controlled_proof.py`) | binding, observation, result and receipt files | bind, record, observe, seal, replay | worker, authorization context | crashes between files, expiry, retry with another outcome | one receipt per activity that agrees with what is under it | `ControlledProof` |
| **Local lifecycle** (`lifecycle.py`) | ledger file, exports, receipts | plan, back up, compact, delete, append | every local writer of the ledger | unlocked rewrite against appends, crash and failure between export and rewrite | no event lost, none false | `LocalFiles` |
| **Delivery ART readiness** (`delivery_art_readiness.py`, `delivery_art_contracts.py`) | readiness receipts by generation and decision key | validate a packet, evaluate four levels, read | registry, contracts | several declared orders over one packet; a review finalized in a second packet; racing generations | an accepted packet can be carried out in its orders; the levels build on one another; one chain of receipts | `ArchitecturePlan`, `DeliveryReadiness`, `ReadinessChain` |
| **Readiness ledgers** (repository, custody, lifecycle, transition, intake, inventory, publication, prototype readiness) | receipts by request id or chain, escalations, ledger events | issue, read | contracts, policies, authority checkouts | two issues of one id, a source that moves between evaluation and insertion | an identity is decided once, every caller is told that decision, refusals have a reason | `RequestLedger`, `ReadinessChain` |
| **Readiness policies** (`*_policy.py`, the `_evaluate` methods of the readiness services) | none | evaluate | ledgers, authority checkouts, Prototype Studio, OOS | each request is judged alone and carried out later by somebody else | no sequence of judged changes breaks the state that is governed; what a decision tells is enough to act on it | `PrototypeLifecycle`, `WorkspaceInventory`, `RepositoryActions`, `TransitionReadiness` |
| **Validation** (`validation_planning.py`, `validation_execution.py`, `operator_surfaces.py`, `catalog_manifest.py`) | receipts, plans | plan, execute, reuse | worker, CLI | stale receipts, waivers, aggregation of outcomes | a success is earned by every check it stands for | `ValidationRun` |
| **Continuity and history** (`workspace_continuity_projection.py`, `governance_history.py`, `art_readiness.py`) | none | project, list, evaluate | tables of the others, the broker's board | pages over several tables in two orders; a board that changes after it was read | a projection shows what is retained, a page skips nothing | `WorkspaceInventory`, `GovernanceHistory`, `ArtReadiness` |
| **Graph** (`graph_*.py`) | graph tables | import, query | snapshots | — | — | — |
| **API, CLI, bootstrap, development platform** | — | routing, authentication, parsing | all | process and thread structure | — | as workers |

## Modules

| Module | Models | Kind |
|---|---|---|
| `NoValue` | what Python has `None` for | constant |
| `CustodyChain` | what the registry promises: one chain per subject that only grows | abstract specification |
| `ArtifactRegistry` | the registry, its object store client and tables | detailed specification, properties |
| `MCArtifactRegistry` | contents and subjects for TLC | instance |
| `ArtifactRegistryProofs` | theorems about `ArtifactRegistry` | proofs |
| `OperationLog` | what the operational records promise: one log of decided operations | abstract specification |
| `InstanceRecords` | intake, inventory and source authority on the record store | detailed specification, properties |
| `MCInstanceRecords` | requests, values and policies for TLC | instance |
| `InstanceRecordsProofs` | theorems about `InstanceRecords` | proofs |
| `WriteOnce` | what shared once-only evidence promises: one value per key, told to every caller | abstract specification |
| `OwnerActivity` | attempts of a validation readiness activity, their owner processes, staging and commit | detailed specification, properties |
| `MCOwnerActivity` | attempts and their requests for TLC | instance |
| `OwnerActivityProofs` | theorems about `OwnerActivity` | proofs |
| `ControlledProof` | the controlled path of the activity on top of `WriteOnce` | composed specification, properties |
| `MCControlledProof` | attempts, activities, requests and runs for TLC | instance |
| `ControlledProofProofs` | theorems about `ControlledProof` | proofs |
| `DecisionChain` | what a readiness ledger promises: a chain of distinct decisions per subject | abstract specification |
| `ReadinessChain` | the three readiness ledgers that keep a chain | detailed specification, properties |
| `RequestLedger` | the ten readiness ledgers that are keyed by a request | detailed specification, properties |
| `MCReadinessChain`, `MCReadiness` | both kinds of ledger for TLC | instances |
| `ReadinessLedgerProofs` | theorems about the two kinds of ledger | proofs |
| `ArchitecturePlan` | the semantic checks of an Architecture Packet, and its execution | algorithm and specification, properties |
| `DeliveryReadiness` | the four evaluations of a Landing Unit, over `ArchitecturePlan` | specification, properties |
| `DeliveryReadinessProofs` | theorems about `ArchitecturePlan` and `DeliveryReadiness`, and lemmas about finite graphs | proofs |
| `PrototypeLifecycle` | Landing, Promotion and Closure policies, with the prototype they judge | specification, properties |
| `TransitionReadiness` | the readiness of lifecycle transitions, with the service that moves them | specification, property |
| `RepositoryActions` | custody and lifecycle decisions, with the repository they are about | specification, property |
| `ArtReadiness` | the ART readiness evaluation, with the board it is about | specification, property |
| `MCArchitecturePlan`, `MCPrototype`, `MCTransitionReadiness`, `MCRepositoryActions`, `MCArtReadiness`, `MCDelivery` | these six for TLC; the last composes them | instances |
| `PolicyProofs` | theorems about `RepositoryActions`, `TransitionReadiness`, `WorkspaceInventory`, `ArtReadiness` and `PrototypeLifecycle` | proofs |
| `LocalFiles` | the ledger, its exports and receipts, written without a lock | detailed specification, properties |
| `ValidationRun` | one validation, from the catalog to its receipt | specification, property |
| `WorkspaceInventory` | intake, inventory and publication policies, with the workspace they judge | specification, properties |
| `GovernanceHistory` | the list of the governance history and its cursors | specification, properties |
| `MCWorkspaceInventory`, `MCGovernanceHistory`, `MCLocal` | these four for TLC; the last composes them | instances |
| `LocalProofs` | theorems about `LocalFiles`, `ValidationRun` and `GovernanceHistory` | proofs |

`OwnerActivity` is shown to implement `WriteOnce`; `ControlledProof` uses `WriteOnce` as
its model of owner execution. The two meet in that promise, so the evidence files are
checked without the processes beneath them: `ImplementsWriteOnce` says that the promise
is kept below, and `ReceiptsAreWrittenOnce` that the receipts keep the same promise one
level up. `RequestLedger` implements `WriteOnce` as well, `ReadinessChain` implements
`DecisionChain`. `DeliveryReadiness` extends `ArchitecturePlan`: the packet whose
execution is checked there is the one whose reviews are judged here.

`MCDelivery`, `MCLocal` and `MCReadiness` put components that share
no state into one instance: a behaviour is one of a single component, while the others
are in a state in which they have ended. This is a sum, not a product, of the parts; it
hides no interleaving, because the parts have none.

What is carried out on a decision belongs to other systems (the orchestration service,
Prototype Studio, Workspace Governance, the broker of the board, the provider of a
repository). The modules of the policies model it, as their tests, contracts and
interfaces describe it, and `PROJECT.json` marks it external. The properties are about
both together: what the other system may do upon what WGCF answered.

Definitions marked "Mutant" in a module are plausible bugs of one definition; no
specification uses them. Each replaces its definition to see that a property can fail.

### ArtifactRegistry

*State.* `entries` and `receipts` are the two tables, `objects` the versions of each
content-addressed key, `ledger` the number of committed ledger events, `answered` what
callers were told, `call[w]` the call process `w` is serving. A content stands for the
canonical bytes and their digest; the registry URI, the object key and the primary key
are functions of the digest.

*Actors.* A worker is an API process. The registry handlers are `async def` and call
the registry synchronously, so one process serves one registry call at a time and
concurrency is across processes.

*Actions.* One per database session or storage request of a call, in order:
`Start`, `Lookup`, `ReadHead`, `GetCurrent`/`Put`/`Verify` (`ensure_content`),
`BeginInsert`, `RecheckHead` and `Insert` (the statements of `_insert_registry_state`),
`Resolve` (after an `IntegrityError` or a digest that appeared), `Confirm`,
`Materialize`, `Record` (the ledger event of a read or reuse), `Reply`. `Fail` is a crash
or a lost dependency at any point; `Overwrite` is an outside writer of the bucket, which
is versioned and grants no delete. Rows are immutable, so reading several of them in one
session is one step.

*Runs.* `RegistryChains.cfg` has two processes, six contents (two rival first
generations, two rival successors, one mixed reference, one of another subject) and four
calls. That is enough for any two registrations to race at every pair of steps after two
others built the chain. `RegistryCustody.cfg` adds two clock readings in any order,
reads, reconciliations and two outside overwrites to a chain of two generations.
`RegistryRetry.cfg` shows the documentation's retry promise fail for one content and two
processes. Calls, object versions and clock readings are bounded by `MaxCalls`,
`MaxVersions` and `Times`; the registry stops when the calls are used up, so deadlock
checking is off.

*Properties.* `OneChainPerSubject` (no fork, no hole), `CallsAreSound` (what a call has
validated still holds when it uses it), `CommittedIsReadable`
(chronology, lineage and bytes of every row pass every later read), `AnswersAreRecorded`,
`ConflictIsReal`, and `ImplementsCustodyChain` (refinement).

*Finding.* `docs/operations/operator-surface.md:1215` says that retries with the same
digest reuse the existing object and receipt. A retry that overlaps its first call can
read the head after that call committed: `_validate_supersession` then refuses it with a
409, because the head is the artifact itself (`RetryIsReused`, run `registry_retry`).
A later retry is reused.

### InstanceRecords

*State.* `rows`, `revisions` and `operations` are the three tables, `policy` the revision
of the governance checkout, `answers` what callers were told of accepted requests,
`call[w]` the call thread `w` is serving. A value stands for a record value and its
digest, a request for the accepted operator input and everything planned from it.

*Actors.* A worker is a thread of any API process (`run_in_threadpool`).

*Actions.* `accept` and `resolve`: `Begin` takes the advisory transaction lock on the
operation key or gives up, `ReadOperation` replays a retained operation, `Plan`
evaluates the policy, `LockRow` waits for and reads the row and compares it with the
reviewed state, `Validate` evaluates the policy again, `Write` is the flush with its
unique constraints, `Recover` the read after an `IntegrityError`, `Commit` makes
everything visible. `source_authority`: `ReadContext`, `ReadRow`, `ReadAgain`,
`ReadContextAgain`, `CompareRow`, all unlocked. `ChangePolicy` moves the checkout to any
revision, also back. `Fail` rolls an open transaction back. The flush of the three
insertions is one step: they are made in one order by every transaction. The native
policy helper belongs to the governance repository and is given by the constants
`Allows`, `Eligible`, `Legacy` and `LegacyProviders`. The payload checks of the routes
are preconditions of `Start`.

*Runs.* `RecordsDecisions.cfg`: two threads, four calls, seven requests that share a
key with altered input, a reviewed state, a provider repository or an AI decision, move
a provider binding, or restore an earlier value; the policy moves once.
`RecordsAuthority.cfg`: authority reads against acceptances, with a checkout that may
move away and back, and liveness. Two threads suffice for every race of two calls; four
calls allow register, update, restore and a retry.

*Properties.* `HistoryIsBound` (the integrity checks of reads never refuse what was
committed; revisions are consecutive and start from the reviewed state, and each has
one operation), `ProviderNeverMoves`, `NegativeIsFinal` (a negative answer of the
lock's holder), `AuthorityIsSimultaneous`, `ImplementsOperationLog` (refinement) and
`EveryCallEnds`.

*Fairness.* `FairSpec` assumes weak fairness of each thread's own next step: the
scheduler runs every thread, and a statement that no transaction blocks returns (policy
evaluations have a timeout of 30 seconds). Nothing is assumed of callers, of failures or
of the checkout.

*Limits.* A first call that has not reached the advisory lock is not ordered with a
readback of the same key: it may still commit after the readback answered "absent".
`NegativeIsFinal` therefore speaks of calls that hold the lock.

### OwnerActivity

*State.* `attempt[a]` is the activity coroutine of one delivered attempt, `owner[a]` the
process group it started and what its leader answered, `staging[a]` its evidence
directory (place, writes, and the cached result of the idempotency key), `committed` the
attempt whose directory was renamed to `committed/`. A result names the attempt that
produced it, so results of two attempts always differ.

*Actors.* Attempts of any worker processes, the owner processes they start (a session of
their own, which outlives a worker that dies), Temporal's cancellation, the deadline and
the death of a worker.

*Actions.* `Begin` is `load_committed_validation_readiness_result` and the fresh staging
directory. `Spawn`, `SpawnEnds`, `Finish`, `Interrupt`, `CancelDuringFence`,
`FenceConfirmed` and `FenceUnconfirmed` are `_run_owner_execution` and
`_stop_owner_process`: a step ends at an `await`, and a cancellation is delivered only
there. `Commit` is `commit_validation_readiness_staging_result` in one holding of the
key's lock, `Report` and `RemovalFails` the removal of the directory that came second and
the answer, `Crash` the death of the worker. `WriteEvidence`, `RecordResult`,
`LeaderExits` and `DescendantsExit` are the owner process. `CancelDuringFence` keeps the
cause in mind because the code does: only the branch for a wait that raised treats a
cancellation that arrives during the stop as one, whatever the stop says.

*Runs.* `ActivityEvidence.cfg`: two deliveries of one request, or one of them and an attempt
of another request under the same key (`PairInit`), with two writes per process group:
enough for a process that writes after its sibling committed and for every crash in
between. `ActivityCancellation.cfg` shows the documented promise of a cancellation fail.

*Properties.* `CommittedIsSettled` (authority only for complete evidence that no process
can write), `EvidenceIsFinal` (never replaced, never written again), `AnswersAreCommitted`
(every success returns the committed result of its own request), `EveryAttemptEnds`, and
`ImplementsWriteOnce` (refinement).

*Fairness.* `ActivityFairness` assumes weak fairness of `Progress(a)`: the event loop and
its timers. A spawn ends or succeeds, a wait ends by its deadline, a stop is bounded by
its confirmation timeout, and code without an `await` returns. Nothing is assumed of the
owner process, which may never end, or of Temporal.

*Finding.* `docs/operations/operator-surface.md:769` says that the activity does not
acknowledge cancellation before the complete process group is gone. When the wait for
the owner process itself raises and a cancellation arrives while the group is being
stopped, `CancelledError` replaces the error of an unconfirmed stop
(`apps/worker` `activities.py:482`), and the attempt is acknowledged as cancelled with
the group alive (`CancellationIsFenced`, run `activity_cancellation`). Every other path
waits for a confirmed stop or reports a retryable failure. Committed evidence is not
affected: the theorems below hold on this path too.

*Limits.* One idempotency key: keys share no lock and no file. Process ids are not
reused while a group is being stopped. The files of the owner run are one counter of
writes, bounded by `MaxWrites`. The activity ends with its attempts, so deadlock
checking is off.

### ControlledProof

*State.* `run` and `request` are the two binding files, `results`, `observations` and
`receipts` the three evidence files of each activity, `evidence` and `answered` the
owner result (the variables of `WriteOnce`), `context` and `expired` the mounted owner
context and its clock, `told` the receipts attempts returned, `attempt[a]` the coroutine.

*Actions.* `Admit`, `Deny` and `AdmitInterrupted` authorize and bind; `OwnerStarts`,
`OwnerCommits`, `OwnerReturns`, `OwnerCancelled` and `OwnerFails` run the owner;
`Check` authorizes again before anything is recorded; `Stamp` replays a receipt that is
there, resumes an observation or takes the clock; `Record`, `Observe` and `Seal` write
the activity result, the observation and the receipt, `Refuse` is a mismatch with what
is there, `Reply` returns. `Interrupted` is a crash or a cancellation between any two of
them, `Expire` the clock, `Remount` a change of the mounted context, in either direction.

*Runs.* `ProofReceipts.cfg`, in each of the three scenarios: a first attempt, one of
another activity with the same request, and one whose request belongs to another
workflow run. Every crash between two files and every expiry meets an attempt that finds
the rest.

*Properties.* `ReceiptIsBacked` (a receipt agrees with the observation and result under
it), `PassIsEarned` (what a receipt calls passed did happen, in time and with a ready
result), `AttemptsAreBound`, and `ReceiptsAreWrittenOnce` (an activity has one receipt,
never changed, and every attempt returns what the file says).

*Limits.* One scenario execution of one context with one idempotency key. The clock is
one bit: before or after the expiry. Files are written atomically
(`_write_immutable_json`); a torn file is not modelled.

### ReadinessChain and RequestLedger

*State.* The receipts of one ledger (`rows`, `records`), what each process serves
(`call`, `serving`), what callers were told, and the source that is judged: a checkout
of Workspace Governance, a prototype's repository, or the registered artifacts.

*Actions.* One per session or read of a call. `ReadinessChain`: the evaluation
(`ReadRecord`, `ReadRule`), `Lookup` of the decision key, `ReadPrior`, `Insert` with the
unique constraints of the table, `ReadAgain` after an `IntegrityError`, `Answer`.
`RequestLedger`: `Begin`, `Look`, `TakeSnapshot` (the three prototype services),
`Evaluated`, `Store`, `Recover`, `Reply`, `Fetch`. `Move` and `Shift` change the source
between any two of them. The ten services have one protocol and differ in what
identifies a decision, whose it is, what it is based on and when it can be read: the
table `Service` says how.

*Run.* `Readiness.cfg`: two processes (of two releases in the chained ledgers) and three
calls, over three requests for two subjects and a source that moves once; and over one
evaluation, its id with other content or another caller, and another evaluation of the
same request. The other five services are like one of the five explored
(`MCReadiness.tla`); the theorems are about all ten. Calls and moves are bounded; with all used up the system stops.

*Properties.* `ReceiptsAreOrdered` (one chain in time whatever the clocks say),
`CallsAreJust` (a conflict names a real one, a failure has a reason, an answer is about
what was asked), `ImplementsDecisionChain`, `ImplementsWriteOnce`.

*What is as the code has it and no property forbids.* A decision that the source returns
to (A, B, A) is reused, so the head of a chain need not be the latest evaluation. The
loser of a race between two callers of one publication identity is answered 503 where
the same call made later is answered 409. Landing and Maturity digest to the second:
two evaluations of one instant collide and one is answered 503. The closure service
reads the revision again when it answers. After an upgrade of the policy contract
earlier custody decisions can no longer be read.

### ArchitecturePlan and DeliveryReadiness

*State.* `plan` is a packet; `started`, `landed`, `closed`, `reached` how far it was
carried out. `review` is a work start with its two Review Packets, `decided` the outcome
of each level.

*Actions.* Each rule of `_architecture_semantic_errors` is an operator, `Accepted` their
conjunction. `Start`, `Close`, `Reach` and `Land` are external: they say what the orders
of a packet mean. The four `Decide...` actions are `_evaluate`, in any order.

*Run (in `Delivery.cfg`).* All packets of three items in two or three units with every
schedule, gate, handoff, activation chain and conformance case between them, and reviews
whose evidence is added, dropped or replaced between merge and finalization.

*Properties.* `NeverStuck`: work, landing and gates are each acyclic and could still wait
on one another; the combined topology check rules it out. `OrderIsKept`: activation
chains, case ownership and handoffs hold along every execution. `ReadinessIsCumulative`:
what made a review merge-ready is in the packet it is finalized as.

*Assumptions.* `PlanAssumption`: a packet has finitely many items and units, and a unit
has an item (`workItemIds` has `minItems` 1 in the schema). `ReviewSpec` is the behaviour
of the reviews alone, as `Spec` is that of an execution; the instance runs both.

*Limits.* Contract version 3 only. The closing of parents is not combined with the
schedule, a gate within one unit is ignored and a chain whose source is ready and whose
authority lands no source orders nothing; all three as in the code.

### PrototypeLifecycle

*State.* `studio` is what Prototype Studio has committed, revision by revision, `call` an
evaluation under way or a ready answer, `applied` the steps that were carried out.

*Actions.* `EvaluateLanding`, `EvaluatePromotion`, `SnapshotSource` and `EvaluateClosure`
are the services with their policies and authorities; `Prepare`, `Submit`, `Apply`,
`Edit` and `Drop` the operator and Studio. A request is prepared at one revision and may
be judged and applied at later ones; Studio is also edited by hand between any two steps.

*Run (in `Delivery.cfg`).* One prototype, from each stage of its life on, two further
revisions, and every request with at most one part wrong.

*Properties.* `StepsAreReviewed` (every step is made on the record its requester
reviewed, and in order), `ClosureIsReadable` (when the Closure authority can read the
history Studio holds). The second is stated exactly, and has an exception: when a
prototype that was reopened is promoted again, no Closure event follows the one of its
reopening, and the authority (`prototype_closure_authority.py:247-256`) refuses to read
the prototype from then on. That rests on the assumption that a promotion writes no
Closure event, which is Studio's to keep, so it is reported here and not as a finding.

### TransitionReadiness

*State.* `transition` is the truth of the orchestration service (OOS): a state and the
owner it waits for. `projection` is what it published, `flaws` what is wrong with that,
`answer` the last evaluation.

*Actions.* `Evaluate` is `_evaluate` with `_state_evaluation`. `Advance` and `Republish`
are OOS: a transition moves only when it was found ready or when the owner it waits for
was told to act. A projection may be bound to a wrong route, stale, out of order, carry a
credential, or lack the owner context of its state; `Tick` lets it expire.

*Run (in `Delivery.cfg`).* Every state, two owners, two entries of history, two instants.

*Property.* `WorkIsRouted`: the work goes to the owner who is waited for, or to OOS when
the projection is at fault; ready and terminal are said of proper projections only.

*Remarks.* A stale projection of a returned transition is answered blocked, with the
escalation of the correction rather than of the staleness. An answer is valid for 15
minutes whatever the validity of the projection.

### RepositoryActions

*State.* `repository` is the provider's truth and the workspace's record, `decisions` what
was allowed and not carried out, `done` what was carried out last.

*Actions.* `JudgeCustody` and `JudgeLifecycle` are the `_evaluate` methods of the two
services. `CarryOut` is the workflow owner, which fulfils the obligations and gates that
a decision names and no others; the answer of a creation may be lost. `Drift` is the
provider's users.

*Run (in `Delivery.cfg`).* Three requests of every kind with two owners, every
disposition of an impact and flawed references, and one change by others: enough for a
decision to be overtaken by another one and by the provider.

*Property.* `ObligationsSuffice`: what is changed is still what was judged, after the
confirmations of `repository-custody.yaml:248-256`, and a repository is created once.

*Remarks.* A deferral is answered before the findings are looked at. That the provider is
unavailable is refused by the schema already. Nothing here looks whether the receipt that
a restoration names as reversed exists. The lifecycle actions are switched off in the
normal runtime.

### ArtReadiness

*State.* `board` is the broker's board, `receipt` an answer that was not blocked,
`reviewed` what the property remembers of the Features whose last leaf was closed.

*Actions.* `EvaluateItem` compiles the context of an item as the broker does and answers it;
`CloseItem` carries a completion or stale-open closing out, `Rewrite`, `Restate` and `Move`
are edits, which also come between answer and closing.

*Run (in `Delivery.cfg`).* Two Features, two leaves and a Milestone, one edit.

*Property.* `ParentIsReadyToClose`: a Feature whose last open leaf was let close can
itself be closed.

*Limits of the property, as in the code.* It speaks of evaluations in the leaf's own
context of a board that did not change: in another item's context the parent and the
siblings may be missing, an unknown id falls back to the context's own item, and two
leaves judged together each see the other open. Copies of an item within a context are
taken to agree. An item without a status makes the evaluation raise.

### LocalFiles

*State.* `ledger` and `exports` are files as sets of lines in order of appending,
`receipts` the receipt files; `raced` and `cut` name the lines of the two known losses.

*Actions.* Every file operation of `run_operator_validation_check`, of an evaluation that
only appends, and of `apply_retention_plan`, by any processes without a lock, each of
which may fail or die between any two. A rewrite truncates and then writes.

*Run (in `Local.cfg`).* Two processes, three calls, every plan, two instants.

*Properties.* `LinesAreKept`: a line is lost only if it was appended behind a compaction
that had read before, or if the compaction failed with the file truncated. The property
names the two windows, because the code has them. `EventsAreBacked`: no event says what
did not happen.

### ValidationRun

*State.* `validation` is what was asked, `plan`, `attempts`, `results` and `receipt` what
came of it, `now` the clock. Validators, checks and results are numbered in the order of
the validators' names, in which the code takes them.

*Actions.* `BuildPlan` (tiers, scopes, waivers, reuse of receipts), then check by check
`Skip`, `Refuse` or `Attempt` and `Finish`, then `Record`. Commands end in every way.

*Run (in `Local.cfg`).* About three hundred validations: every target at every tier,
pairs of retained receipts with waivers, every policy with one part changed, and
catalogs with one defective entry.

*Property.* `SuccessIsEarned`: a success vouches for every validator the tier asks for
of the target, run, validly waived or covered by a fresh receipt, and no command is run
that its policy forbids.

*Remarks, as in the code.* The planner passes over a newer failed receipt and may reuse
an older success. A receipt whose scopes hold a wildcard covers other deliveries.
Required validators with a broken template, or that do not fit the target, drop out. A
waiver without expiry never expires. Freshness is judged when planning, not when
executing. One approval flag covers all entries of a catalog. The operator surfaces pass
neither receipts nor waivers.

### WorkspaceInventory

*State.* `register`, `inventory` and `history` are the files of Workspace Governance,
`evidence` the manifests of product owners, `verdicts` the publication decisions kept in
this system's ledger, `kept` requests prepared at an earlier `revision`.

*Actions.* `Enter`, `Promote` and `Change` are merges of what the intake, promotion and
lifecycle policies let through, at the revision that was judged; `Judge` is the
publication readiness service; `CommitManifest` a product owner; `Keep` and `Expire` callers and
time.

*Run (in `Local.cfg`).* Two keys of one physical repository, a repository and a product
that predate intake, and every request that takes part in their lives.

*Properties.* `RepositoriesAreDistinct` (one key per physical repository),
`AuthorityIsReadable` (no sequence of judged changes leaves files that the services
refuse), `ActionableIsCurrent` (a publication shown as actionable still fits).

*Limits.* A digest stands for its document. Intake compares idempotency keys with the
last mutations only, and a publication's expected version with the request's own previous
receipt only; both as in the code. The tables of publication actions are Workspace
Governance's, taken from `tests/test_product_publication_readiness.py:153-166`.

### GovernanceHistory

*State.* `table` is the rows of the sources, `reader` a console that follows the cursors.

*Actions.* `List` is one page, `CommitRow` a new row between two pages.

*Runs.* In `Local.cfg`, rows with and without fractions of a second, four at one instant,
with a scan limit of 3 and pages of at most 2 for the code's 500 and 100; and a second that
takes two pages before one in which the list and the table differ. `History.cfg` has no two
rows in one second and one filter.

*Properties.* `PagesAreComplete`: a reader is shown every row that was there, once, but
for rows beside the end of a page and those of a truncated source that a filtered or
crowded page overtook. These exceptions are gaps of the code: instants sort by their
text, in which a whole second follows its fractions, so within a second the list is not
chronological and the rest of a second may be skipped; and when the seconds that a page
begins and ends in hold more rows of a source than the scan limit leaves beside the page, it
can go past rows there was no room for. When more rows than the scan limit share the
cursor's instant, `has_more` comes without a cursor.

*Finding.* `docs/operations/operator-surface.md:852` calls the cursors keyset cursors. A
source's statement starts at the cursor's instant, so of a busy source it returns one
unread row fewer than the limit, while a filtered page examines as many records as the
limit: it can end beyond rows that were never read, which no later page shows
(`CursorsSkipNothing`, run `history_pages`).

## What is proved

Each theorem holds for every value of the constants; what it assumes of them is a named
`ASSUME` of the module that declares them, and TLC evaluates these on every run. Of the 40
properties of the passing runs 38 are theorems; the other two are liveness.

### Registry

`ArtifactRegistryProofs`, from `RegistryAssumption` (clocks are read in numbers, a content
has a subject, and the like):

* `TypeCorrect`: `Spec => []TypeOK`;
* `ChainsCorrect`: `Spec => []OneChainPerSubject`;
* `ReadableCorrect`: `Spec => []CommittedIsReadable`;
* `CallsCorrect`: `Spec => []CallsAreSound`;
* `RecordedCorrect`: `Spec => []AnswersAreRecorded`;
* `ConflictCorrect`: `Spec => []ConflictIsReal`;
* `ImplementsCorrect`: `Spec => ImplementsCustodyChain`.

`OneChainPerSubject` is not inductive: an insertion relies on the reference having been
validated under a head that is still the subject's head, and readability relies on the
instants fixed sessions before the row is written. The inductive invariant `ChainInv`
adds what the rows say of their predecessors (`ReferencesKept`) and what each call in
progress relies on (`CallsAreSound`). The argument: rows and object versions are only
added; a head that a call validated is named by its reference, so the head it reads
again is the same row (`NamesOneHead`); the unique constraint on the generation leaves
the insertion only when that head is still the end; and `StorageInstant` puts the new
instants after the head's. Each action has an effect lemma that says what it does to the
call of its worker, and only that lemma is used afterwards.

`RecordInv` adds to it what the ledger events cover: every answer that was given and every
one that a worker still owes has its event (`EventsCover`), a content has one `persisted`
event once it is registered and none before (`PersistedOnce`), and only the call that
created the row records that event (`RecordsOthers`). For the refinement a registration is
an append at the end of its subject's chain, `Reply` acknowledges, and all else stutters.

### Internal operational records

`InstanceRecordsProofs`, from `RecordsAssumption`:

* `RecordsInvariant`: `Spec => []RecordsInv`, the invariant the others rest on;
* `HistoryCorrect`: `Spec => []HistoryIsBound`;
* `BindingsCorrect`: `Spec => []BindingsAreUnique`;
* `AuthorityCorrect`: `Spec => []AuthorityIsSimultaneous`;
* `ProviderCorrect`: `Spec => ProviderNeverMoves`;
* `NegativeCorrect`: `Spec => NegativeIsFinal`;
* `ImplementsCorrect`: `Spec => ImplementsOperationLog`.

`HistoryIsBound` is not inductive: a commit writes a revision from what its call read
before. `RecordsInv` adds what a call knows at each stage of a decision (`DecisionKnows`)
and of a read (`ReadingKnows`), and that two calls which hold the lock of one operation or
one record are never at such a stage together (`Apart`): so what a call read under its
locks is still so when it commits. The unique constraints give the two clauses of
`BindingsAreUnique`. A reading call that keeps its policy revision has seen it before and
after its record, which fixes the moment of `AuthorityIsSimultaneous`. In the refinement
a record's log is the sequence of its accepted requests, read off the revisions.

### Activities and controlled proofs

`OwnerActivityProofs`, from `ActivityAssumption` only:

* `TypeCorrect`: `ActivitySpec => []TypeOK`;
* `SettledCorrect`: `ActivitySpec => []CommittedIsSettled`;
* `AnswersCorrect`: `ActivitySpec => []AnswersAreCommitted`;
* `FinalCorrect`: `ActivitySpec => EvidenceIsFinal`;
* `ImplementsCorrect`: `ActivitySpec => ImplementsWriteOnce`.

`CommittedIsSettled` is not inductive: the commit itself looks at neither the processes
nor the file. `Inductive` adds what brought the attempt there: only a completed leader
whose group was seen gone reaches the commit (`CommitIsSettled`), a completed leader has
recorded its result (`CompletedIsRecorded`), an attempt that has not committed has no
authority (`NotYetCommitted`), and an attempt that reports found a committed result of
its own request (`ReportIsBound`). Finality then follows: an attempt that can still move
its directory is not the committed one, and a group that can still write belongs to
another attempt. For the refinement, all answers are the committed result, so answering
is `Tell`, the first commit is `Write`, and every other step stutters.

`ControlledProofProofs`, from `ControlledAssumption` only (every attempt has an activity
and a request of a run, and `None` is none of them):

* `TypeCorrect`: `Spec => []TypeOK`;
* `BackedCorrect`: `Spec => []ReceiptIsBacked`;
* `BoundCorrect`: `Spec => []AttemptsAreBound`;
* `EarnedCorrect`: `Spec => []PassIsEarned`;
* `ReceiptsCorrect`: `Spec => ReceiptsAreWrittenOnce`.

`ReceiptIsBacked` is not inductive: `Seal` and `Observe` write what the attempt asks for
and look at no file. `FilesInv` adds what the files of the activity hold at each phase of
an attempt (`FilesFollow`) and that the lock has one holder (`LockIsExclusive`), so that
nobody else moves the files under it. `AttemptsAreFounded` carries a pass back to where
it was decided: an answer is the committed result, which is never replaced, a purpose is
one of the scenario, and a draft is earned before it is recorded (`Earned`) and in time
under the lock (`InTime`); observations keep that for the attempts that resume them, and
receipts have it from their observation. The refinement takes sealing as `Write` and
answering as `Tell`.

### Readiness ledgers

`ReadinessLedgerProofs`. About the chains, from `ReadinessAssumption` (clocks are read in
numbers, a request binds finitely many artifacts, `None` is no decision):

* `ChainTypeCorrect`: `Spec => []ChainTypeOK`;
* `ChainOrderedCorrect`: `Spec => []ReceiptsAreOrdered`;
* `ChainImplementsCorrect`: `Spec => ImplementsDecisionChain`.

That the receipts are ordered in time is not inductive: an insertion follows the receipt
its call read as the last one, maybe long before. `ChainInv` adds that a chain has no
gaps (`ChainsAreFull`) and that decisions are distinct, so the constraint on the
generation lets the insertion through only while that receipt is still the last; and what
a call knows (`CallsKnow`).

About the ledgers of requests, from `LedgerAssumption` (the services are the ten that are
modelled, `Nothing` is no record):

* `RequestTypeCorrect`: `LedgerSpec => []RequestTypeOK`;
* `RequestCallsCorrect`: `LedgerSpec => []CallsAreJust`;
* `RequestImplementsCorrect`: `LedgerSpec => ImplementsWriteOnce`.

The argument is one lemma for ten services: a row that fits a request holds all that the
request claims (`FittingClaims`). An identity is held by one row (`ClaimsAreUnique`), so a
row that is in the way and does not fit excludes one that does, now and, since an
insertion that shares a claim is refused, later. What made an insertion fail stays, which
leaves the two reasons of `FailureExplained`. An insertion is `Write` of its primary
identity, an answer is `Tell`.

### Delivery ART

`DeliveryReadinessProofs`, from `PlanAssumption` and `DecisionAssumption` (`None` is no
outcome of a level):

* `OrderCorrect`: `Spec => []OrderIsKept`;
* `NeverStuckCorrect`: `Spec => []NeverStuck`;
* `CumulativeCorrect`: `ReviewSpec => []ReadinessIsCumulative`.

`Acyclic` and `HasPath` are recursive functions over sets of nodes. No induction theorem
is used for them: that a nonempty set of nodes of an acyclic graph has one without a
predecessor in it (`AcyclicFirst`), and that what is closed under the edges keeps its
paths (`PathStays`), follow from a smallest counterexample, which finite sets have
(`SmallestSet`). `PlanInv` is the type of an execution and that work is started, closed
and reached in the order of the packet. `NeverStuck` then takes the first of what is not
closed in the combined topology, and the first outcome of what is not reached;
`OrderIsKept` follows each declared order along a path of that topology. For the reviews,
`DecisionsAreFound` says that each outcome is what its level finds in the subject, which no
step changes.

### Local files

`LocalProofs`, from `LocalAssumption`:

* `LinesCorrect`: `Spec => []LinesAreKept`;
* `BackedCorrect`: `Spec => []EventsAreBacked`.

`LinesAreKept` is not inductive: a rewrite drops what was appended since the ledger was
read, and what was read and is old. `LedgerInv` adds that whatever a compaction has not
read is named as appended behind it (`LedgerIsSeen`), that what it is about to remove is
exported already (`OldLinesAreExported`), and that files are finite, so that lines can
be counted. `BackedInv` adds what each process has written of the operation it is in
(`OperationBacked`): a run has its receipt before it has its event, and a retention has
deleted only what the profile let go, which `CurrentShrinks` keeps so while time passes.

### Validation

`LocalProofs`, from `ValidationAssumption` (tiers are those of the planner, dates
and freshness are numbers of seconds where there are any, finitely many receipts are
retained, `None` is no outcome):

* `SuccessCorrect`: `ValidationSpec => []SuccessIsEarned`.

The outcome looks only at the statuses of the results, and a validator may be waived,
reused or run at different moments. `ValidationInv` keeps what each of these was founded
on: of the plan, that it has a waiver or a check for every validator that is selected and
that a reused receipt vouched for its check when the plan was made (`PlanFacts`); of a
result, that a success is that of a command whose last attempt passed (`Just`), which no
attempt for another validator undoes (`PassedIsKept`); of an attempt, that it was
permitted. The receipt that is reused is a `CHOOSE`: that there is a newest one among
finitely many is `MaximumOfFinite`. A lower tier selects no validator that the one asked
for does not (`TiersAreCumulative`).

### Governance history

`LocalProofs`, from `HistoryAssumption` (rows are told apart by their ids, tables are finite,
a page is no longer than a scan, which is not empty):

* `PagesCorrect`: `HistorySpec => []PagesAreComplete`.

`HistoryInv` says of a reader under way that what it was shown is at or before its cursor in
the order of the list, and that whatever it has a right to is shown, still to come, or one of
the exceptions. The argument is one of counting. The list is defined by the number of rows
before each (`InOrder`), which numbers a finite set in a strict total order without a gap
(`RanksAreNumbers`, by the pigeonhole principle and without induction). A row for which a
statement had no room comes after a whole scan of its source (`ScannedBefore`). If a page
that is not filtered goes past such a row, it used up its size on others, so at least as many
rows of that scan as the page is short of it are in the seconds in which the page begins and
ends (`OvertakenIsCrowded`). The attempt to prove an earlier form of the exception, which
spoke of the second of one end only, showed that it was too narrow: the third group of rows in
`MCGovernanceHistory` is a counterexample to it.

### Policies

`PolicyProofs`. What a policy decides is judged alone and carried out later; each of these
theorems says that no sequence of such decisions, however long, goes wrong.

* `ObligationsCorrect`: `RepositorySpec => []ObligationsSuffice`, from `OwnersAssumption`
  (there is an owner). `RepositoryInv` says that every decision is about a state the
  repository was in: what is recorded changes only with its revision, what the provider says
  only with its version, and before a repository is in custody there is nothing recorded. So
  a state whose revision and version are still the repository's still holds, and the
  confirmations a decision asks for tell whether they are.
* `RoutingCorrect`: `TransitionSpec => []WorkIsRouted`, from `TransitionAssumption` (some
  route is a proper one; `None` is no owner, finding or escalation). `TransitionInv` adds the
  type of a transition and of what was published of it; the rest is that `Evaluate` asks its
  questions in an order in which the first one that is answered names the owner.
* `RepositoriesCorrect`, `AuthorityCorrect`, `PublicationsCorrect`: `InventorySpec` implies
  `[]RepositoriesAreDistinct`, `[]AuthorityIsReadable` and `[]ActionableIsCurrent`, from
  `InventoryAssumption` (a legacy inventory names each physical repository once, and the
  like). None of the three is inductive. `InventoryInv` adds that a physical repository is
  one key in register and inventory together, that evidence is of the version its owner
  committed it at, and that a verdict is of the revision it was given at. One merge changes
  one target and comes with its event, so what was found of a version holds as long as the
  version, and what was found of a revision until the next merge.
* `ParentCorrect`: `ArtSpec => []ParentIsReadyToClose`, from `SituationsAssumption` (a board
  is finite and its items have every field). `ArtInv` adds that a Feature that is remembered
  as reviewed has leaves, none of them open, and its headings, and that a current receipt
  for the last open leaf of a Feature was given with those headings there.
* `StepsCorrect`, `ReadableCorrect`: `PrototypeSpec` implies `[]StepsAreReviewed` and
  `[]ClosureIsReadable`, from `PrototypeAssumption` (every history a behaviour starts with is
  lawful; requests name known levels and actions). `IsLawful` says that the state a prototype
  is in is the one its last step entered, that the steps of its last cycle climb the ladder
  from the beginning of that cycle, and that its last Closure event is of that state but for
  the promotions since. The empty history is lawful, and `PrototypeInv` says that every
  history that can be reached is: the instance starts in the middle of a life only to
  shorten the search.

### What stays with TLC

Liveness (`EveryCallEnds`, `EveryAttemptEnds`) is out of the prover's reach: TLC checks it on
the instances of `RecordsAuthority.cfg` and `ActivityEvidence.cfg`. That a bounded instance
reaches every action, and the three findings, are TLC's as well.

## Bounds

Every constant that bounds a model is named `Max...` and stands in the configuration. The
readiness, validation and policy modules take their inputs from sets in the `MC` modules,
which hold a sound input and those with one part changed, and pairs where two parts
interact (evidence before and after a merge, two retained receipts, two rival requests).
Deadlock checking is off where calls, requests or edits are used up and the system really
stops. It is on in `Delivery.cfg`, where a packet stutters only when all of it has been
carried out; the other parts of that instance contain such a packet, so for them it says
nothing.

## Plan

Done: the components of the table above, with abstract specifications for the registry,
the records, the activities and both kinds of readiness ledger.

Left, in this order:

1. The separate read of a controlled proof receipt and the activation gates of the worker
   command.
2. The currentness labels of readiness answers, and the instance path of repository
   readiness.
3. The agent action policy, against a table of its decisions.
4. Paged reads and the catalog of the operational records.

## Not modelled

* Graph import and queries: a deterministic import of one snapshot and bounded reads.
* Parsing, authentication, formatting of the API and CLI, JSON-schema validation,
  migrations, schemas, Rego policies and shell profiles: configuration, data or pure
  conversions. What the schemas exclude is a precondition of the inputs.
* Evidence projections, source snapshots, runtime governance records and the ART graph
  and evidence packet: projections of retained rows that decide nothing.
* `product_publication_preparation.py` and the agent action policy: pure functions of one
  request, whose correctness is a table and not a protocol.
* Retention of the output files of checks, and bytes torn within a ledger line.
* The instance path of repository readiness (`_evaluate_instance`) and older packet
  contracts of Delivery ART.

## Running

`tlc -config RegistryChains.cfg MCArtifactRegistry.tla` and alike; `PROJECT.json` lists
the runs. `Delivery.cfg`, `Local.cfg` and `Readiness.cfg` take two to four minutes, the
others seconds to two minutes. `tlapm ArtifactRegistryProofs.tla`, and alike for the other
modules named `...Proofs`, checks the proofs.
