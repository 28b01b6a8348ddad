------------------------------ MODULE LocalFiles ------------------------------
(***************************************************************************)
(* The ledger of an installation, its exports and its receipt files.  API  *)
(* processes and command lines write them without a lock: validation runs  *)
(* (run_operator_validation_check), evaluations that only append an event  *)
(* (readiness, agent actions), and confirmed retention                     *)
(* (apply_retention_plan).                                                 *)
(*                                                                         *)
(* A line of the ledger is its place in the order of appending, and the    *)
(* file is the set of its lines: appending and rewriting keep that order.  *)
(* An export is named by the instant of its plan, in microseconds, and the *)
(* digest of what the plan read: two plans have different names.           *)
(***************************************************************************)
EXTENDS Naturals, Sequences, FiniteSets

CONSTANTS
    Processes,
    MaxEvents,    \* ledger_max_events of the profile
    MaxCount,     \* receipt_max_count
    MaxAge,       \* receipt_max_age_days
    MaxExisting,  \* bound: lines of an installation in use
    MaxCalls,     \* bound: operations started
    MaxClock      \* bound: the clock

ASSUME LocalAssumption ==
    /\ MaxEvents \in Nat \ {0} /\ MaxCount \in Nat /\ MaxAge \in Nat
    /\ MaxExisting \in Nat /\ MaxCalls \in Nat /\ MaxClock \in Nat

VARIABLES
    ledger,   \* the lines of the active ledger file
    events,   \* every line ever appended: what it says
    exports,  \* the export files: [plan, lines]
    receipts, \* the receipt files: [run, at]
    written,  \* every receipt ever written
    clock,
    call,     \* what each process is doing
    calls,    \* operations started; they number runs and plans
    raced,    \* lines that got into the ledger behind the back of a compaction
    cut       \* lines a compaction was to keep when it failed with the file truncated

localVars == <<ledger, events, exports, receipts, written, clock, call, calls, raced, cut>>

Idle == [stage |-> "idle", id |-> 0, candidates |-> {}, count |-> 0, read |-> {}, failed |-> FALSE]

Go(p, stage) == call' = [call EXCEPT ![p].stage = stage]
-----------------------------------------------------------------------------
(* The ledger.                                                             *)

Exported == UNION {x.lines : x \in exports}

\* _compact_ledger is between its read of the ledger and the end of its rewrite.
Compacting(p) == call[p].stage \in {"export", "truncate", "rewrite"}

\* The first lines of what was read, as many as the plan counted, and the rest.
Compacted(p) == {l \in call[p].read : Cardinality({k \in call[p].read : k <= l}) <= call[p].count}
Retained(p) == call[p].read \ Compacted(p)

\* Of lines that process p writes, those that another compaction has not read.
Behind(p, lines) ==
    {l \in lines : \E q \in Processes \ {p} : Compacting(q) /\ l \notin call[q].read}

\* append_ledger_event.
AppendLine(p, event) ==
    /\ events' = Append(events, event)
    /\ ledger' = ledger \cup {Len(events) + 1}
    /\ raced' = raced \cup Behind(p, {Len(events) + 1})
    /\ call' = [call EXCEPT ![p] = Idle]
    /\ UNCHANGED <<exports, receipts, written, clock, calls, cut>>
-----------------------------------------------------------------------------
(* Validation runs and other evaluations.                                  *)

Start(p, stage) ==
    /\ call[p].stage = "idle" /\ calls < MaxCalls
    /\ calls' = calls + 1
    /\ call' = [call EXCEPT ![p] = [Idle EXCEPT !.stage = stage, !.id = calls + 1]]
    /\ UNCHANGED <<ledger, events, exports, receipts, written, clock, raced, cut>>

\* The plan is executed before anything here is written.
RunChecks(p) == Start(p, "receipt")
Evaluate(p) == Start(p, "evaluated")

WriteReceipt(p) ==
    /\ call[p].stage = "receipt"
    /\ LET receipt == [run |-> call[p].id, at |-> clock]
       IN receipts' = receipts \cup {receipt} /\ written' = written \cup {receipt}
    /\ Go(p, "ran")
    /\ UNCHANGED <<ledger, events, exports, clock, calls, raced, cut>>

Recorded(kind, id) == [kind |-> kind, id |-> id, outcome |-> "recorded", candidates |-> {}, count |-> 0]

\* Mutant: the event is appended before the receipt is written.
AppendRunFirst(p) == call[p].stage \in {"receipt", "ran"} /\ AppendLine(p, Recorded("run", call[p].id))

AppendRun(p) == call[p].stage = "ran" /\ AppendLine(p, Recorded("run", call[p].id))

AppendEvaluation(p) ==
    call[p].stage = "evaluated" /\ AppendLine(p, Recorded("evaluation", call[p].id))
-----------------------------------------------------------------------------
(* Retention.                                                              *)

TooOld(receipt, now) == receipt.at + MaxAge < now

\* _retention_candidates: what is too old, and the oldest beyond the count.  Files of one
\* instant are ordered by their names.
CandidateSets(now) ==
    {{x \in receipts : TooOld(x, now)} \cup excess : excess \in
        {s \in SUBSET receipts :
            /\ Cardinality(s) = IF Cardinality(receipts) > MaxCount THEN Cardinality(receipts) - MaxCount ELSE 0
            /\ \A x \in s, y \in receipts \ s : x.at <= y.at}}

BeginApply(p) == Start(p, "plan files")

\* build_retention_plan scans the directories and then reads the ledger.
PlanFiles(p) ==
    /\ call[p].stage = "plan files"
    /\ \E candidates \in CandidateSets(clock) :
          call' = [call EXCEPT ![p].candidates = candidates, ![p].stage = "plan ledger"]
    /\ UNCHANGED <<ledger, events, exports, receipts, written, clock, calls, raced, cut>>

\* _build_ledger_compaction_plan: the lines to compact are counted here, and the file is read
\* again when they are compacted.
PlanLedger(p) ==
    /\ call[p].stage = "plan ledger"
    /\ call' = IF Cardinality(ledger) <= MaxEvents
                 THEN [call EXCEPT ![p].stage = "delete"]
                 ELSE [call EXCEPT ![p].count = Cardinality(ledger) - (MaxEvents - 1), ![p].stage = "read"]
    /\ UNCHANGED <<ledger, events, exports, receipts, written, clock, calls, raced, cut>>

ReadLedger(p) ==
    /\ call[p].stage = "read"
    /\ call' = [call EXCEPT ![p].read = ledger, ![p].stage = "export"]
    /\ UNCHANGED <<ledger, events, exports, receipts, written, clock, calls, raced, cut>>

\* Mutant: the ledger is rewritten first.
ExportLater(p) ==
    /\ call[p].stage = "export"
    /\ Go(p, "truncate")
    /\ UNCHANGED <<ledger, events, exports, receipts, written, clock, calls, raced, cut>>

Export(p) ==
    /\ call[p].stage = "export"
    /\ exports' = exports \cup {[plan |-> call[p].id, lines |-> Compacted(p)]}
    /\ Go(p, "truncate")
    /\ UNCHANGED <<ledger, events, receipts, written, clock, calls, raced, cut>>

\* write_bytes truncates the file and then writes what is retained.  A line that another process
\* appends in between is overwritten.
Truncate(p) ==
    /\ call[p].stage = "truncate"
    /\ ledger' = {}
    /\ Go(p, "rewrite")
    /\ UNCHANGED <<events, exports, receipts, written, clock, calls, raced, cut>>

Rewrite(p) ==
    /\ call[p].stage = "rewrite"
    /\ ledger' = Retained(p)
    /\ raced' = raced \cup Behind(p, Retained(p))
    /\ Go(p, "delete")
    /\ UNCHANGED <<events, exports, receipts, written, clock, calls, cut>>

\* What is lost when a rewrite fails with the file truncated.
Unwritten(p) == IF call[p].stage = "rewrite" THEN Retained(p) ELSE {}

\* An OSError of the compaction: nothing is deleted, and the event says failure.
CompactionFails(p) ==
    /\ call[p].stage = "read" \/ Compacting(p)
    /\ cut' = cut \cup Unwritten(p)
    /\ call' = [call EXCEPT ![p].failed = TRUE, ![p].stage = "applied"]
    /\ UNCHANGED <<ledger, events, exports, receipts, written, clock, calls, raced>>

\* The files are deleted as they were planned; one that is gone counts as deleted, and one that
\* cannot be deleted does not keep the others.
Delete(p) ==
    /\ call[p].stage = "delete"
    /\ \E deleted \in SUBSET call[p].candidates :
          /\ receipts' = receipts \ deleted
          /\ call' = [call EXCEPT ![p].failed = deleted # call[p].candidates, ![p].stage = "applied"]
    /\ UNCHANGED <<ledger, events, exports, written, clock, calls, raced, cut>>

AppendApplied(p) ==
    /\ call[p].stage = "applied"
    /\ AppendLine(p, [kind |-> "applied", id |-> call[p].id,
                      outcome |-> IF call[p].failed THEN "failure" ELSE "success",
                      candidates |-> call[p].candidates, count |-> call[p].count])

\* The process dies.
Crash(p) ==
    /\ call[p].stage # "idle"
    /\ cut' = cut \cup Unwritten(p)
    /\ call' = [call EXCEPT ![p] = Idle]
    /\ UNCHANGED <<ledger, events, exports, receipts, written, clock, calls, raced>>

Tick ==
    /\ clock < MaxClock
    /\ clock' = clock + 1
    /\ UNCHANGED <<ledger, events, exports, receipts, written, call, calls, raced, cut>>

Init ==
    /\ \E n \in 0..MaxExisting : ledger = 1..n /\ events = [i \in 1..n |-> Recorded("evaluation", 0)]
    /\ exports = {} /\ receipts = {} /\ written = {}
    /\ clock = 0 /\ calls = 0 /\ raced = {} /\ cut = {}
    /\ call = [p \in Processes |-> Idle]

Step(p) ==
    \/ RunChecks(p) \/ WriteReceipt(p) \/ AppendRun(p) \/ Evaluate(p) \/ AppendEvaluation(p)
    \/ BeginApply(p) \/ PlanFiles(p) \/ PlanLedger(p)
    \/ ReadLedger(p) \/ Export(p) \/ Truncate(p) \/ Rewrite(p) \/ CompactionFails(p)
    \/ Delete(p) \/ AppendApplied(p) \/ Crash(p)

Next == Tick \/ \E p \in Processes : Step(p)

Spec == Init /\ [][Next]_localVars
-----------------------------------------------------------------------------
(* Properties.                                                             *)

\* Every line ever appended is in the ledger or in an export, or is about to be written back.
\* One is lost in two cases only: it was written while another process was compacting what it had
\* read before, or the compaction that was to keep it failed with the file truncated.
LinesAreKept ==
    \A l \in 1..Len(events) :
        \/ l \in ledger \cup Exported \cup raced \cup cut
        \/ \E p \in Processes : call[p].stage = "rewrite" /\ l \in Retained(p)

\* A receipt that retention may not delete yet: not too old, and less than MaxCount newer ones.
Current(receipt) ==
    /\ ~TooOld(receipt, clock)
    /\ Cardinality({x \in written : x # receipt /\ x.at >= receipt.at}) < MaxCount

\* What the events say happened: a run's receipt was written, and stays as long as it may not be
\* deleted; a retention that succeeded has exported what it compacted and deleted what it planned,
\* whatever other processes and failures did meanwhile.
EventsAreBacked ==
    /\ \A x \in written : Current(x) => x \in receipts
    /\ \A i \in 1..Len(events) :
          /\ events[i].kind = "run" => \E x \in written : x.run = events[i].id
          /\ events[i].outcome = "success" =>
                /\ events[i].candidates \cap receipts = {}
                /\ events[i].count > 0 => \E x \in exports : x.plan = events[i].id
=============================================================================
