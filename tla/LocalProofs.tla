----------------------------- MODULE LocalProofs -----------------------------
(***************************************************************************)
(* Proofs about what runs beside the fabric's own services: LocalFiles,    *)
(* for any number of processes, any retention profile and any bounds;      *)
(* ValidationRun, for any catalog or manifest, target, receipts, waivers   *)
(* and policies, and however long the commands take; GovernanceHistory,    *)
(* for any rows, filters, page sizes and scan limit.                       *)
(***************************************************************************)
EXTENDS LocalFiles, ValidationRun, GovernanceHistory, FiniteSetTheorems, WellFoundedInduction, TLAPS
-----------------------------------------------------------------------------
(* LocalFiles.  What a call has read of the ledger, and what it may delete. *)

Stages == {"idle", "receipt", "ran", "evaluated", "plan files", "plan ledger", "read", "export",
           "truncate", "rewrite", "delete", "applied"}

Receipts == [run : Nat, at : Nat]

Events == [kind : {"run", "evaluation", "applied"}, id : Nat, outcome : {"recorded", "success", "failure"}, candidates : SUBSET Receipts, count : Nat]

CallStates == [stage : Stages, id : Nat, candidates : SUBSET Receipts, count : Nat,
               read : SUBSET Nat, failed : BOOLEAN]

Calls == [Processes -> CallStates]

LedgerTypeOK ==
    /\ ledger \in SUBSET Nat /\ events \in Seq(Events) /\ receipts \in SUBSET Receipts
    /\ clock \in Nat /\ calls \in Nat
    /\ call \in Calls

\* So that lines can be counted.
FilesAreFinite == IsFiniteSet(ledger) /\ \A p \in Processes : IsFiniteSet(call[p].read)

\* What a compaction has not read got into the ledger behind its back.
LedgerIsSeen == \A p \in Processes : Compacting(p) => ledger \subseteq call[p].read \cup raced

\* What a compaction is about to remove is exported.
OldLinesAreExported ==
    \A p \in Processes : call[p].stage \in {"truncate", "rewrite"} => Compacted(p) \subseteq Exported

LedgerInv == LedgerTypeOK /\ FilesAreFinite /\ LedgerIsSeen /\ OldLinesAreExported /\ LinesAreKept
-----------------------------------------------------------------------------
\* A process that serves nothing.
LEMMA IdleTyped == Idle \in CallStates /\ Idle.stage = "idle"
BY DEF Idle, CallStates, Stages

\* Init establishes the invariant: what is appended is in the ledger, and nobody compacts.
LEMMA InitLedger == ASSUME Init PROVE LedgerInv
<1> USE LocalAssumption
<1>1. PICK n \in 0..MaxExisting : ledger = 1..n /\ events = [i \in 1..n |-> Recorded("evaluation", 0)]
  BY DEF Init
<1>2. Recorded("evaluation", 0) \in Events
  BY DEF Recorded, Events
<1>3. Idle \in CallStates
  BY IdleTyped
<1>8. n \in Nat /\ events \in Seq(Events) /\ Len(events) = n
  <2>1. n \in Nat
    OBVIOUS
  <2>2. events \in [1..n -> Events]
    BY <1>1, <1>2
  <2> QED BY <2>1, <2>2
<1>9. call \in Calls
  BY <1>3 DEF Init, Calls
<1>4. \A p \in Processes : call[p].stage = "idle"
  BY DEF Init, Idle
<1>5. LedgerTypeOK
  BY <1>1, <1>8, <1>9 DEF Init, LedgerTypeOK
<1>6. LedgerIsSeen /\ OldLinesAreExported
  BY <1>4 DEF LedgerIsSeen, OldLinesAreExported, Compacting
<1>7. LinesAreKept
  BY <1>1, <1>8 DEF LinesAreKept
<1>10. FilesAreFinite
  <2>1. IsFiniteSet(ledger)
    BY <1>1, <1>8, FS_Interval
  <2>2. \A p \in Processes : call[p].read = {}
    BY DEF Init, Idle
  <2> QED BY <2>1, <2>2, FS_EmptySet DEF FilesAreFinite
<1> QED BY <1>5, <1>6, <1>7, <1>10 DEF LedgerInv

\* A step of one process that leaves the ledger, the lists of what was appended and exported, and
\* what is known to be lost: the process goes to a stage at which nothing is claimed of it.
LEMMA Unrelated ==
    ASSUME LedgerInv, NEW p \in Processes, call' \in Calls,
           \A q \in Processes \ {p} : call'[q] = call[q],
           call'[p].stage \notin {"export", "truncate", "rewrite"},
           call'[p].read = call[p].read \/ call'[p].read = {},
           ledger' = ledger, events' = events, exports' = exports,
           raced' = raced, cut \cup Unwritten(p) \subseteq cut',
           receipts' \in SUBSET Receipts, clock' \in Nat, calls' \in Nat
    PROVE  LedgerInv'
<1>1. LedgerTypeOK'
  BY DEF LedgerInv, LedgerTypeOK
<1>2. \A q \in Processes : Compacting(q)' => q # p /\ Compacting(q)
  BY DEF Compacting
<1>3. LedgerIsSeen'
  BY <1>2 DEF LedgerInv, LedgerIsSeen
<1>4. OldLinesAreExported'
  <2> SUFFICES ASSUME NEW q \in Processes, call'[q].stage \in {"truncate", "rewrite"}
               PROVE  Compacted(q)' \subseteq Exported'
    BY DEF OldLinesAreExported
  <2>1. call'[q] = call[q]
    OBVIOUS
  <2> QED BY <2>1 DEF LedgerInv, OldLinesAreExported, Compacted, Exported
<1>5. LinesAreKept'
  <2> SUFFICES ASSUME NEW l \in 1..Len(events), l \notin ledger \cup Exported \cup raced \cup cut'
               PROVE  \E q \in Processes : call'[q].stage = "rewrite" /\ l \in Retained(q)'
    BY DEF LinesAreKept, Exported
  <2>1. PICK q \in Processes : call[q].stage = "rewrite" /\ l \in Retained(q)
    BY DEF LedgerInv, LinesAreKept
  <2>2. q # p
    BY <2>1 DEF Unwritten
  <2>3. call'[q] = call[q] /\ Retained(q)' = Retained(q)
    BY <2>2 DEF Retained, Compacted
  <2> QED BY <2>1, <2>3
<1>6. FilesAreFinite'
  BY FS_EmptySet DEF LedgerInv, FilesAreFinite
<1> QED BY <1>1, <1>3, <1>4, <1>5, <1>6 DEF LedgerInv

\* A line is appended: it is in the ledger, and behind the back of every compaction under way.
LEMMA AppendKeeps ==
    ASSUME LedgerInv, NEW p \in Processes, NEW kind \in {"run", "evaluation", "applied"},
           NEW outcome \in {"recorded", "success", "failure"},
           NEW candidates \in SUBSET Receipts, NEW count \in Nat,
           call[p].stage # "rewrite",
           AppendLine(p, [kind |-> kind, id |-> call[p].id, outcome |-> outcome,
                          candidates |-> candidates, count |-> count])
    PROVE  LedgerInv'
<1> DEFINE event == [kind |-> kind, id |-> call[p].id, outcome |-> outcome, candidates |-> candidates, count |-> count]
           line == Len(events) + 1
<1> USE DEF AppendLine
<1>0. event \in Events
  <2>1. call[p].id \in Nat
    BY DEF LedgerInv, LedgerTypeOK, Calls, CallStates
  <2> QED BY <2>1 DEF Events
<1>1. call' \in Calls /\ call'[p].stage = "idle" /\ \A q \in Processes \ {p} : call'[q] = call[q]
  BY IdleTyped DEF LedgerInv, LedgerTypeOK, Calls
<1>2. Len(events) \in Nat /\ events' = Append(events, event) /\ Len(events') = line
  BY <1>0 DEF LedgerInv, LedgerTypeOK
<1>3. LedgerTypeOK'
  <2>1. events' \in Seq(Events)
    BY <1>0, <1>2 DEF LedgerInv, LedgerTypeOK
  <2>2. ledger' \in SUBSET Nat
    <3>1. Len(events) + 1 \in Nat
      BY <1>2
    <3>2. ledger \subseteq Nat /\ ledger' = ledger \cup {Len(events) + 1}
      BY DEF LedgerInv, LedgerTypeOK
    <3> HIDE DEF AppendLine
    <3> QED BY <3>1, <3>2
  <2>3. receipts' = receipts /\ clock' = clock /\ calls' = calls
    OBVIOUS
  <2> QED BY <1>1, <2>1, <2>2, <2>3 DEF LedgerInv, LedgerTypeOK
<1>4. LedgerIsSeen'
  <2> SUFFICES ASSUME NEW q \in Processes, Compacting(q)', NEW l \in ledger'
               PROVE  l \in call'[q].read \cup raced'
    BY DEF LedgerIsSeen
  <2>1. q # p /\ Compacting(q) /\ call'[q] = call[q]
    BY <1>1 DEF Compacting
  <2>2. CASE l \in ledger
    BY <2>1, <2>2 DEF LedgerInv, LedgerIsSeen
  <2>3. CASE l = line
    BY <2>1, <2>3 DEF Behind
  <2> QED BY <2>2, <2>3
<1>5. OldLinesAreExported'
  <2> SUFFICES ASSUME NEW q \in Processes, call'[q].stage \in {"truncate", "rewrite"}
               PROVE  Compacted(q)' \subseteq Exported'
    BY DEF OldLinesAreExported
  <2>1. call'[q] = call[q]
    BY <1>1
  <2> QED BY <2>1 DEF LedgerInv, OldLinesAreExported, Compacted, Exported
<1>6. LinesAreKept'
  <2> SUFFICES ASSUME NEW l \in 1..Len(events'), l \notin ledger' \cup Exported' \cup raced' \cup cut'
               PROVE  \E q \in Processes : call'[q].stage = "rewrite" /\ l \in Retained(q)'
    BY DEF LinesAreKept
  <2>1. l \in 1..Len(events) /\ l \notin ledger \cup Exported \cup raced \cup cut
    BY <1>2 DEF Exported
  <2>2. PICK q \in Processes : call[q].stage = "rewrite" /\ l \in Retained(q)
    BY <2>1 DEF LedgerInv, LinesAreKept
  <2>3. call'[q] = call[q] /\ Retained(q)' = Retained(q)
    BY <1>1, <2>2 DEF Retained, Compacted
  <2> QED BY <2>2, <2>3
<1>7. FilesAreFinite'
  <2>1. IsFiniteSet(ledger')
    BY FS_AddElement DEF LedgerInv, FilesAreFinite
  <2>2. call'[p].read = {}
    BY DEF LedgerInv, LedgerTypeOK, Calls, Idle
  <2> QED BY <1>1, <2>1, <2>2, FS_EmptySet DEF LedgerInv, FilesAreFinite
<1> QED BY <1>3, <1>4, <1>5, <1>6, <1>7 DEF LedgerInv

\* A call that goes on keeps its type.
LEMMA GoTyped ==
    ASSUME LedgerInv, NEW p \in Processes, NEW stage \in Stages, Go(p, stage)
    PROVE  call' \in Calls /\ call'[p] = [call[p] EXCEPT !.stage = stage] /\ call'[p].stage = stage
           /\ call'[p].read = call[p].read /\ \A q \in Processes \ {p} : call'[q] = call[q]
BY DEF LedgerInv, LedgerTypeOK, Calls, CallStates, Go

\* A started call has read nothing.
LEMMA StartKeeps ==
    ASSUME LedgerInv, NEW p \in Processes, NEW stage \in Stages,
           stage \notin {"export", "truncate", "rewrite"}, Start(p, stage)
    PROVE  LedgerInv'
<1>1. calls + 1 \in Nat
  BY DEF LedgerInv, LedgerTypeOK
<1>2. [Idle EXCEPT !.stage = stage, !.id = calls + 1] \in CallStates
  BY <1>1, IdleTyped DEF CallStates
<1>3. call' \in Calls /\ call'[p] = [Idle EXCEPT !.stage = stage, !.id = calls + 1]
      /\ \A q \in Processes \ {p} : call'[q] = call[q]
  BY <1>2 DEF Start, LedgerInv, LedgerTypeOK, Calls
<1>4. call'[p].stage = stage /\ call'[p].read = {}
  BY <1>3 DEF Idle
<1>5. Unwritten(p) = {}
  BY DEF Start, Unwritten
<1> QED BY <1>1, <1>3, <1>4, <1>5, Unrelated DEF Start, LedgerInv, LedgerTypeOK

\* A compaction that has read the ledger has seen every line of it.
LEMMA ReadKeeps == ASSUME LedgerInv, NEW p \in Processes, ReadLedger(p) PROVE LedgerInv'
<1> USE DEF ReadLedger
<1>1. call' \in Calls /\ call'[p].stage = "export" /\ call'[p].read = ledger
      /\ \A q \in Processes \ {p} : call'[q] = call[q]
  BY DEF LedgerInv, LedgerTypeOK, Calls, CallStates, Stages
<1>2. LedgerTypeOK' /\ FilesAreFinite'
  BY <1>1 DEF LedgerInv, LedgerTypeOK, FilesAreFinite
<1>3. LedgerIsSeen'
  BY <1>1 DEF LedgerInv, LedgerIsSeen, Compacting
<1>4. OldLinesAreExported'
  <2> SUFFICES ASSUME NEW q \in Processes, call'[q].stage \in {"truncate", "rewrite"}
               PROVE  Compacted(q)' \subseteq Exported'
    BY DEF OldLinesAreExported
  <2>1. call'[q] = call[q]
    BY <1>1
  <2> QED BY <2>1 DEF LedgerInv, OldLinesAreExported, Compacted, Exported
<1>5. LinesAreKept'
  <2>1. \A q \in Processes : call[q].stage = "rewrite" => call'[q] = call[q] /\ Retained(q)' = Retained(q)
    BY <1>1 DEF Retained, Compacted
  <2> QED BY <2>1 DEF LedgerInv, LinesAreKept, Exported
<1> QED BY <1>2, <1>3, <1>4, <1>5 DEF LedgerInv

\* An export holds the lines that the rewrite is about to leave out.
LEMMA ExportKeeps == ASSUME LedgerInv, NEW p \in Processes, Export(p) PROVE LedgerInv'
<1> USE DEF Export
<1>1. call' \in Calls /\ call'[p] = [call[p] EXCEPT !.stage = "truncate"] /\ call'[p].stage = "truncate"
      /\ call'[p].read = call[p].read /\ \A q \in Processes \ {p} : call'[q] = call[q]
  BY GoTyped DEF Stages
<1>2. LedgerTypeOK' /\ FilesAreFinite'
  BY <1>1 DEF LedgerInv, LedgerTypeOK, FilesAreFinite
<1>3. LedgerIsSeen'
  BY <1>1 DEF LedgerInv, LedgerIsSeen, Compacting
<1>4. Exported \subseteq Exported' /\ Compacted(p) \subseteq Exported'
  BY DEF Exported
<1>5. \A q \in Processes : Compacted(q)' = Compacted(q) /\ Retained(q)' = Retained(q)
  <2> TAKE q \in Processes
  <2>1. call'[q].read = call[q].read /\ call'[q].count = call[q].count
    BY <1>1 DEF LedgerInv, LedgerTypeOK, Calls, CallStates
  <2> QED BY <2>1 DEF Compacted, Retained
<1>6. OldLinesAreExported'
  BY <1>1, <1>4, <1>5 DEF LedgerInv, OldLinesAreExported
<1>7. LinesAreKept'
  BY <1>1, <1>4, <1>5 DEF LedgerInv, LinesAreKept
<1> QED BY <1>2, <1>3, <1>6, <1>7 DEF LedgerInv

\* What was in the file was read, and then it is exported or will be written back, or it came
\* behind the back of this compaction.
LEMMA TruncateKeeps == ASSUME LedgerInv, NEW p \in Processes, Truncate(p) PROVE LedgerInv'
<1> USE DEF Truncate
<1>1. call' \in Calls /\ call'[p] = [call[p] EXCEPT !.stage = "rewrite"] /\ call'[p].stage = "rewrite"
      /\ call'[p].read = call[p].read /\ \A q \in Processes \ {p} : call'[q] = call[q]
  BY GoTyped DEF Stages
<1>2. LedgerTypeOK' /\ FilesAreFinite'
  BY <1>1, FS_EmptySet DEF LedgerInv, LedgerTypeOK, FilesAreFinite
<1>3. LedgerIsSeen'
  BY DEF LedgerIsSeen
<1>4. \A q \in Processes : Compacted(q)' = Compacted(q) /\ Retained(q)' = Retained(q)
  <2> TAKE q \in Processes
  <2>1. call'[q].read = call[q].read /\ call'[q].count = call[q].count
    BY <1>1 DEF LedgerInv, LedgerTypeOK, Calls, CallStates
  <2> QED BY <2>1 DEF Compacted, Retained
<1>5. OldLinesAreExported'
  BY <1>1, <1>4 DEF LedgerInv, OldLinesAreExported, Exported
<1>6. LinesAreKept'
  <2> SUFFICES ASSUME NEW l \in 1..Len(events), l \notin Exported \cup raced \cup cut
               PROVE  \E q \in Processes : call'[q].stage = "rewrite" /\ l \in Retained(q)
    BY <1>4 DEF LinesAreKept, Exported
  <2>1. CASE l \in ledger
    <3>1. l \in call[p].read
      BY <2>1 DEF LedgerInv, LedgerIsSeen, Compacting
    <3>2. l \notin Compacted(p)
      BY DEF LedgerInv, OldLinesAreExported
    <3> QED BY <1>1, <3>1, <3>2 DEF Retained
  <2>2. CASE l \notin ledger
    BY <1>1, <2>2 DEF LedgerInv, LinesAreKept
  <2> QED BY <2>1, <2>2
<1> QED BY <1>2, <1>3, <1>5, <1>6 DEF LedgerInv

\* What an append or another rewrite put into the file meanwhile is gone, and it was behind the
\* back of this compaction.
LEMMA RewriteKeeps == ASSUME LedgerInv, NEW p \in Processes, Rewrite(p) PROVE LedgerInv'
<1> USE DEF Rewrite
<1>1. call' \in Calls /\ call'[p] = [call[p] EXCEPT !.stage = "delete"] /\ call'[p].stage = "delete"
      /\ call'[p].read = call[p].read /\ \A q \in Processes \ {p} : call'[q] = call[q]
  BY GoTyped DEF Stages
<1>2. Retained(p) \subseteq call[p].read /\ call[p].read \subseteq Nat /\ IsFiniteSet(call[p].read)
  BY DEF LedgerInv, LedgerTypeOK, FilesAreFinite, Calls, CallStates, Retained
<1>3. LedgerTypeOK' /\ FilesAreFinite'
  BY <1>1, <1>2, FS_Subset DEF LedgerInv, LedgerTypeOK, FilesAreFinite
<1>4. LedgerIsSeen'
  <2> SUFFICES ASSUME NEW q \in Processes, Compacting(q)', NEW l \in Retained(p)
               PROVE  l \in call'[q].read \cup raced'
    BY DEF LedgerIsSeen
  <2>1. q # p /\ Compacting(q) /\ call'[q] = call[q]
    BY <1>1 DEF Compacting
  <2> QED BY <2>1 DEF Behind
<1>5. OldLinesAreExported'
  <2> SUFFICES ASSUME NEW q \in Processes, call'[q].stage \in {"truncate", "rewrite"}
               PROVE  Compacted(q)' \subseteq Exported'
    BY DEF OldLinesAreExported
  <2>1. call'[q] = call[q]
    BY <1>1
  <2> QED BY <2>1 DEF LedgerInv, OldLinesAreExported, Compacted, Exported
<1>6. LinesAreKept'
  <2> SUFFICES ASSUME NEW l \in 1..Len(events), l \notin Retained(p) \cup Exported \cup raced \cup cut
               PROVE  \E q \in Processes : call'[q].stage = "rewrite" /\ l \in Retained(q)'
    BY DEF LinesAreKept, Exported
  <2>1. l \notin ledger
    BY DEF LedgerInv, LedgerIsSeen, OldLinesAreExported, Compacting, Retained
  <2>2. PICK q \in Processes : call[q].stage = "rewrite" /\ l \in Retained(q)
    BY <2>1 DEF LedgerInv, LinesAreKept
  <2>3. q # p
    BY <2>2
  <2>4. call'[q] = call[q] /\ Retained(q)' = Retained(q)
    BY <1>1, <2>3 DEF Retained, Compacted
  <2> QED BY <2>2, <2>4
<1> QED BY <1>3, <1>4, <1>5, <1>6 DEF LedgerInv

\* Planning counts the lines of a finite file.
LEMMA PlanKeeps ==
    ASSUME LedgerInv, NEW p \in Processes, PlanFiles(p) \/ PlanLedger(p)
    PROVE  LedgerInv'
<1> USE LocalAssumption
<1>1. CASE PlanFiles(p)
  <2>1. PICK candidates \in CandidateSets(clock) :
           call' = [call EXCEPT ![p].candidates = candidates, ![p].stage = "plan ledger"]
    BY <1>1 DEF PlanFiles
  <2>2. candidates \in SUBSET Receipts
    BY <2>1 DEF CandidateSets, LedgerInv, LedgerTypeOK
  <2>3. call' \in Calls /\ call'[p].stage = "plan ledger" /\ call'[p].read = call[p].read
        /\ \A q \in Processes \ {p} : call'[q] = call[q]
    BY <2>1, <2>2 DEF LedgerInv, LedgerTypeOK, Calls, CallStates, Stages
  <2> QED BY <1>1, <2>3, Unrelated DEF PlanFiles, Unwritten, LedgerInv, LedgerTypeOK
<1>2. CASE PlanLedger(p) /\ Cardinality(ledger) <= MaxEvents
  <2>1. call' \in Calls /\ call'[p].stage = "delete" /\ call'[p].read = call[p].read
        /\ \A q \in Processes \ {p} : call'[q] = call[q]
    BY <1>2 DEF PlanLedger, LedgerInv, LedgerTypeOK, Calls, CallStates, Stages
  <2> QED BY <1>2, <2>1, Unrelated DEF PlanLedger, Unwritten, LedgerInv, LedgerTypeOK
<1>3. CASE PlanLedger(p) /\ ~(Cardinality(ledger) <= MaxEvents)
  <2>1. Cardinality(ledger) \in Nat
    BY FS_CardinalityType DEF LedgerInv, FilesAreFinite
  <2>2. Cardinality(ledger) - (MaxEvents - 1) \in Nat
    BY <1>3, <2>1
  <2>3. call' \in Calls /\ call'[p].stage = "read" /\ call'[p].read = call[p].read
        /\ \A q \in Processes \ {p} : call'[q] = call[q]
    BY <1>3, <2>2 DEF PlanLedger, LedgerInv, LedgerTypeOK, Calls, CallStates, Stages
  <2> QED BY <1>3, <2>3, Unrelated DEF PlanLedger, Unwritten, LedgerInv, LedgerTypeOK
<1> QED BY <1>1, <1>2, <1>3 DEF PlanFiles

\* A call that fails or dies leaves its claims to nobody.
LEMMA EndKeeps ==
    ASSUME LedgerInv, NEW p \in Processes, CompactionFails(p) \/ Delete(p) \/ Crash(p)
    PROVE  LedgerInv'
<1>1. CASE CompactionFails(p)
  <2>1. call' \in Calls /\ call'[p].stage = "applied" /\ call'[p].read = call[p].read
        /\ \A q \in Processes \ {p} : call'[q] = call[q]
    BY <1>1 DEF CompactionFails, LedgerInv, LedgerTypeOK, Calls, CallStates, Stages
  <2> QED BY <1>1, <2>1, Unrelated DEF CompactionFails, LedgerInv, LedgerTypeOK
<1>2. CASE Delete(p)
  <2>1. PICK deleted \in SUBSET call[p].candidates :
           /\ receipts' = receipts \ deleted
           /\ call' = [call EXCEPT ![p].failed = deleted # call[p].candidates, ![p].stage = "applied"]
    BY <1>2 DEF Delete
  <2>2. (deleted # call[p].candidates) \in BOOLEAN
    OBVIOUS
  <2>3. call' \in Calls /\ call'[p].stage = "applied" /\ call'[p].read = call[p].read
        /\ \A q \in Processes \ {p} : call'[q] = call[q]
    BY <2>1, <2>2 DEF LedgerInv, LedgerTypeOK, Calls, CallStates, Stages
  <2>4. receipts' \in SUBSET Receipts
    BY <2>1 DEF LedgerInv, LedgerTypeOK
  <2> QED BY <1>2, <2>3, <2>4, Unrelated DEF Delete, Unwritten, LedgerInv, LedgerTypeOK
<1>3. CASE Crash(p)
  <2>1. call' \in Calls /\ call'[p] = Idle /\ \A q \in Processes \ {p} : call'[q] = call[q]
    BY <1>3, IdleTyped DEF Crash, LedgerInv, LedgerTypeOK, Calls
  <2>2. call'[p].stage = "idle" /\ call'[p].read = {}
    BY <2>1 DEF Idle
  <2> QED BY <1>3, <2>1, <2>2, Unrelated DEF Crash, LedgerInv, LedgerTypeOK
<1> QED BY <1>1, <1>2, <1>3

\* A receipt is no line of the ledger.
LEMMA WriteReceiptKeeps == ASSUME LedgerInv, NEW p \in Processes, WriteReceipt(p) PROVE LedgerInv'
<1>1. call' \in Calls /\ call'[p].stage = "ran" /\ call'[p].read = call[p].read
      /\ \A q \in Processes \ {p} : call'[q] = call[q]
  BY GoTyped DEF WriteReceipt, Stages
<1>2. [run |-> call[p].id, at |-> clock] \in Receipts
  BY DEF LedgerInv, LedgerTypeOK, Calls, CallStates, Receipts
<1>3. receipts' \in SUBSET Receipts
  BY <1>2 DEF WriteReceipt, LedgerInv, LedgerTypeOK
<1> QED BY <1>1, <1>3, Unrelated DEF WriteReceipt, Unwritten, LedgerInv, LedgerTypeOK

\* A line that is appended behind a compaction is named as raced.
LEMMA AppendsKeep ==
    ASSUME LedgerInv, NEW p \in Processes, AppendRun(p) \/ AppendEvaluation(p) \/ AppendApplied(p)
    PROVE  LedgerInv'
<1>1. call[p].candidates \in SUBSET Receipts /\ call[p].count \in Nat
  BY DEF LedgerInv, LedgerTypeOK, Calls, CallStates
<1>2. {} \in SUBSET Receipts /\ 0 \in Nat
  OBVIOUS
<1>3. CASE AppendRun(p)
  <2>1. call[p].stage # "rewrite"
    BY <1>3 DEF AppendRun
  <2> QED BY <1>2, <1>3, <2>1, AppendKeeps DEF AppendRun, Recorded
<1>4. CASE AppendEvaluation(p)
  <2>1. call[p].stage # "rewrite"
    BY <1>4 DEF AppendEvaluation
  <2> QED BY <1>2, <1>4, <2>1, AppendKeeps DEF AppendEvaluation, Recorded
<1>5. CASE AppendApplied(p)
  <2>1. call[p].stage # "rewrite"
    BY <1>5 DEF AppendApplied
  <2> DEFINE outcome == IF call[p].failed THEN "failure" ELSE "success"
  <2>2. outcome \in {"recorded", "success", "failure"}
    OBVIOUS
  <2>3. AppendLine(p, [kind |-> "applied", id |-> call[p].id, outcome |-> outcome,
                       candidates |-> call[p].candidates, count |-> call[p].count])
    BY <1>5 DEF AppendApplied
  <2> HIDE DEF outcome
  <2> QED BY <1>1, <2>1, <2>2, <2>3, AppendKeeps
<1> QED BY <1>3, <1>4, <1>5

\* Every step keeps the invariant.
LEMMA NextLedger == ASSUME LedgerInv, [Next]_localVars PROVE LedgerInv'
<1>1. CASE UNCHANGED localVars
  <2>1. \A p \in Processes : Compacted(p)' = Compacted(p) /\ Retained(p)' = Retained(p)
                              /\ Compacting(p)' = Compacting(p)
    BY <1>1 DEF localVars, Compacted, Retained, Compacting
  <2> QED BY <1>1, <2>1 DEF localVars, LedgerInv, LedgerTypeOK, FilesAreFinite, LedgerIsSeen,
             OldLinesAreExported, LinesAreKept, Exported
<1>2. CASE Tick
  <2>1. \A p \in Processes : Compacted(p)' = Compacted(p) /\ Retained(p)' = Retained(p)
                              /\ Compacting(p)' = Compacting(p)
    BY <1>2 DEF Tick, Compacted, Retained, Compacting
  <2> QED BY <1>2, <2>1 DEF Tick, LedgerInv, LedgerTypeOK, FilesAreFinite, LedgerIsSeen,
             OldLinesAreExported, LinesAreKept, Exported
<1>3. ASSUME NEW p \in Processes, Step(p) PROVE LedgerInv'
  <2>1. CASE RunChecks(p) \/ Evaluate(p) \/ BeginApply(p)
    BY <2>1, StartKeeps DEF RunChecks, Evaluate, BeginApply, Stages
  <2>2. CASE WriteReceipt(p)
    BY <2>2, WriteReceiptKeeps
  <2>3. CASE AppendRun(p) \/ AppendEvaluation(p) \/ AppendApplied(p)
    BY <2>3, AppendsKeep
  <2>4. CASE PlanFiles(p) \/ PlanLedger(p)
    BY <2>4, PlanKeeps
  <2>5. CASE ReadLedger(p)
    BY <2>5, ReadKeeps
  <2>6. CASE Export(p)
    BY <2>6, ExportKeeps
  <2>7. CASE Truncate(p)
    BY <2>7, TruncateKeeps
  <2>8. CASE Rewrite(p)
    BY <2>8, RewriteKeeps
  <2>9. CASE CompactionFails(p) \/ Delete(p) \/ Crash(p)
    BY <2>9, EndKeeps
  <2> QED BY <1>3, <2>1, <2>2, <2>3, <2>4, <2>5, <2>6, <2>7, <2>8, <2>9 DEF Step
<1> QED BY <1>1, <1>2, <1>3 DEF Next

\* No line of the ledger is lost, unless it was written behind the back of a compaction or a
\* compaction failed with the file truncated: append_ledger_event and _compact_ledger.
THEOREM LinesCorrect == Spec => []LinesAreKept
<1>1. Init => LedgerInv
  BY InitLedger
<1>2. LedgerInv /\ [Next]_localVars => LedgerInv'
  BY NextLedger
<1>3. LedgerInv => LinesAreKept
  BY DEF LedgerInv
<1> QED BY <1>1, <1>2, <1>3, PTL DEF Spec
-----------------------------------------------------------------------------
(* What the events say of receipts and exports.                            *)

\* Receipt files are among the receipts ever written, each of an operation that was started.
ReceiptsAreWritten ==
    /\ written \in SUBSET Receipts /\ IsFiniteSet(written) /\ receipts \subseteq written
    /\ \A x \in written : x.run <= calls

\* Operations under way have numbers of their own.
OperationsDiffer ==
    \A p \in Processes : \A q \in Processes \ {p} :
        call[p].stage # "idle" /\ call[q].stage # "idle" => call[p].id # call[q].id

\* What an operation does and is going to say is so: it writes one receipt, what it plans to delete
\* was written and may be deleted from then on, and a success has deleted and exported what it names.
OperationBacked(p) ==
    LET c == call[p] IN
    /\ c.stage # "idle" => c.id <= calls
    /\ c.stage = "receipt" => \A x \in written : x.run # c.id
    /\ c.stage = "ran" => \E x \in written : x.run = c.id
    /\ \A x \in c.candidates : x \in written /\ ~Current(x)
    /\ c.stage \in {"plan files", "plan ledger"} => c.count = 0
    /\ c.stage \in {"truncate", "rewrite", "delete"} \/ (c.stage = "applied" /\ ~c.failed) =>
          (c.count > 0 => \E x \in exports : x.plan = c.id)
    /\ c.stage = "applied" /\ ~c.failed => c.candidates \cap receipts = {}

\* What an event says was deleted is never written again.
EventsNameWritten == \A i \in 1..Len(events) : events[i].candidates \subseteq written

BackedInv ==
    /\ LedgerInv
    /\ ReceiptsAreWritten /\ OperationsDiffer
    /\ \A p \in Processes : OperationBacked(p)
    /\ EventsNameWritten /\ EventsAreBacked

\* Receipts are only ever added to what was written, and time does not run back.
FilesGrow ==
    /\ written \subseteq written' /\ exports \subseteq exports'
    /\ clock <= clock' /\ calls <= calls'

\* A receipt that retention may delete may be deleted from then on.
LEMMA CurrentShrinks ==
    ASSUME BackedInv, LedgerInv', written' \in SUBSET Receipts, IsFiniteSet(written'), FilesGrow,
           NEW x \in written, Current(x)'
    PROVE  Current(x)
<1>1. x \in Receipts /\ x.at \in Nat /\ clock \in Nat /\ clock' \in Nat /\ MaxAge \in Nat /\ MaxCount \in Nat
  BY LocalAssumption DEF BackedInv, LedgerInv, LedgerTypeOK, ReceiptsAreWritten, Receipts
<1>2. ~TooOld(x, clock)
  BY <1>1 DEF Current, TooOld, FilesGrow
<1> DEFINE Newer(S) == {y \in S : y # x /\ y.at >= x.at}
<1>3. Newer(written) \subseteq Newer(written')
  BY DEF FilesGrow
<1>4. IsFiniteSet(Newer(written')) /\ Cardinality(Newer(written')) \in Nat
  BY FS_Subset, FS_CardinalityType
<1>5. /\ Cardinality(Newer(written)) \in Nat
      /\ Cardinality(Newer(written)) <= Cardinality(Newer(written'))
  BY <1>3, <1>4, FS_Subset, FS_CardinalityType
<1>6. Cardinality(Newer(written')) < MaxCount
  BY DEF Current
<1> HIDE DEF Newer
<1>7. Cardinality(Newer(written)) < MaxCount
  BY <1>1, <1>4, <1>5, <1>6
<1> QED BY <1>2, <1>7 DEF Current, Newer

\* An operation that does not move stays as it was, when receipts are new or go.
LEMMA OthersStayBacked ==
    ASSUME BackedInv, LedgerInv', ReceiptsAreWritten', FilesGrow,
           receipts' \subseteq receipts \cup (written' \ written),
           NEW q \in Processes, call'[q] = call[q],
           \A x \in written' \ written : call[q].stage = "receipt" => x.run # call[q].id
    PROVE  OperationBacked(q)'
<1> PICK c : c = call[q]
  OBVIOUS
<1>1. OperationBacked(q) /\ c.id \in Nat /\ calls \in Nat /\ calls' \in Nat
  BY DEF BackedInv, LedgerInv, LedgerTypeOK, Calls, CallStates
<1>6. written' \in SUBSET Receipts /\ IsFiniteSet(written') /\ written \subseteq written'
  BY DEF ReceiptsAreWritten, FilesGrow
<1>2. ASSUME NEW x \in c.candidates PROVE x \in written' /\ ~Current(x)'
  <2>1. x \in written /\ ~Current(x)
    BY <1>1 DEF OperationBacked
  <2>2. ASSUME Current(x)' PROVE FALSE
    BY <1>6, <2>1, <2>2, CurrentShrinks
  <2> QED BY <1>6, <2>1, <2>2
<1>3. c.stage # "idle" => c.id <= calls'
  <2>1. c.stage # "idle" => c.id <= calls
    BY <1>1 DEF OperationBacked
  <2>2. calls <= calls'
    BY DEF FilesGrow
  <2>3. c.id <= calls => c.id <= calls'
    BY <1>1, <2>2
  <2> QED BY <2>1, <2>3
<1>4. c.stage = "applied" /\ ~c.failed => c.candidates \cap receipts' = {}
  BY <1>1 DEF OperationBacked
<1>5. c.stage = "receipt" => \A x \in written' : x.run # c.id
  BY <1>1 DEF OperationBacked
<1> QED BY <1>1, <1>2, <1>3, <1>4, <1>5 DEF OperationBacked, FilesGrow

\* What the events say stays so, when receipts go that may be deleted.
LEMMA EventsStayBacked ==
    ASSUME BackedInv, LedgerInv', ReceiptsAreWritten', FilesGrow, events' = events,
           receipts' \subseteq receipts \cup (written' \ written),
           written' \ written \subseteq receipts',
           \A x \in receipts \ receipts' : ~Current(x)
    PROVE  EventsNameWritten' /\ EventsAreBacked'
<1>1. EventsNameWritten'
  BY DEF BackedInv, EventsNameWritten, FilesGrow
<1>2. ASSUME NEW x \in written', Current(x)' PROVE x \in receipts'
  <2>1. CASE x \in written
    <3>1. Current(x)
      BY <1>2, <2>1, CurrentShrinks DEF ReceiptsAreWritten
    <3>2. x \in receipts
      BY <2>1, <3>1 DEF BackedInv, EventsAreBacked
    <3> QED BY <3>1, <3>2
  <2> QED BY <2>1
<1>3. ASSUME NEW i \in 1..Len(events)
      PROVE  /\ events[i].kind = "run" => \E x \in written' : x.run = events[i].id
             /\ events[i].outcome = "success" =>
                   /\ events[i].candidates \cap receipts' = {}
                   /\ events[i].count > 0 => \E x \in exports' : x.plan = events[i].id
  BY DEF BackedInv, EventsAreBacked, EventsNameWritten, FilesGrow
<1> QED BY <1>1, <1>2, <1>3 DEF EventsAreBacked

\* So a step has only its own operation to answer for.
LEMMA OperationsStep ==
    ASSUME BackedInv, LedgerInv', ReceiptsAreWritten', FilesGrow,
           receipts' \subseteq receipts \cup (written' \ written),
           NEW p \in Processes, \A q \in Processes \ {p} : call'[q] = call[q],
           \A x \in written' \ written : call[p].stage # "idle" /\ x.run = call[p].id,
           call'[p].stage # "idle" =>
               \/ call[p].stage # "idle" /\ call'[p].id = call[p].id
               \/ call'[p].id = calls + 1,
           OperationBacked(p)'
    PROVE  (\A q \in Processes : OperationBacked(q)') /\ OperationsDiffer'
<1>1. \A q \in Processes : OperationBacked(q)'
  <2> SUFFICES ASSUME NEW q \in Processes \ {p} PROVE OperationBacked(q)'
    OBVIOUS
  <2>1. \A x \in written' \ written : call[q].stage = "receipt" => x.run # call[q].id
    BY DEF BackedInv, OperationsDiffer
  <2> QED BY <2>1, OthersStayBacked
<1>2. OperationsDiffer'
  <2>1. \A q \in Processes : call[q].stage # "idle" => call[q].id <= calls /\ call[q].id \in Nat /\ calls \in Nat
    BY DEF BackedInv, OperationBacked, LedgerInv, LedgerTypeOK, Calls, CallStates
  <2>2. ASSUME NEW q \in Processes \ {p}, call'[p].stage # "idle", call'[q].stage # "idle"
        PROVE  call'[p].id # call'[q].id
    <3>1. call'[q] = call[q]
      OBVIOUS
    <3> QED BY <2>1, <2>2, <3>1 DEF BackedInv, OperationsDiffer
  <2>3. \A q, r \in Processes \ {p} : q # r /\ call'[q].stage # "idle" /\ call'[r].stage # "idle" =>
            call'[q].id # call'[r].id
    BY DEF BackedInv, OperationsDiffer
  <2> QED BY <2>2, <2>3 DEF OperationsDiffer
<1> QED BY <1>1, <1>2

\* Such a step that appends no event.
LEMMA FilesStep ==
    ASSUME BackedInv, LedgerInv', ReceiptsAreWritten', FilesGrow, events' = events,
           receipts' \subseteq receipts \cup (written' \ written),
           written' \ written \subseteq receipts',
           \A x \in receipts \ receipts' : ~Current(x),
           NEW p \in Processes, \A q \in Processes \ {p} : call'[q] = call[q],
           \A x \in written' \ written : call[p].stage # "idle" /\ x.run = call[p].id,
           call'[p].stage # "idle" =>
               \/ call[p].stage # "idle" /\ call'[p].id = call[p].id
               \/ call'[p].id = calls + 1,
           OperationBacked(p)'
    PROVE  BackedInv'
<1>1. (\A q \in Processes : OperationBacked(q)') /\ OperationsDiffer'
  BY OperationsStep
<1>2. EventsNameWritten' /\ EventsAreBacked'
  BY EventsStayBacked
<1> QED BY <1>1, <1>2 DEF BackedInv

\* What only starts an operation, exports or deletes.
LEMMA FilesStay ==
    ASSUME BackedInv, written' = written, receipts' \subseteq receipts, clock' = clock,
           exports \subseteq exports', calls' = calls \/ calls' = calls + 1
    PROVE  FilesGrow /\ ReceiptsAreWritten'
<1>1. clock \in Nat /\ calls \in Nat /\ ReceiptsAreWritten
  BY DEF BackedInv, LedgerInv, LedgerTypeOK
<1>2. FilesGrow
  BY <1>1 DEF FilesGrow
<1>3. ASSUME NEW x \in written' PROVE x.run <= calls'
  <2>1. x.run \in Nat /\ x.run <= calls
    BY <1>1, <1>3 DEF ReceiptsAreWritten, Receipts
  <2> QED BY <1>1, <2>1
<1> QED BY <1>1, <1>2, <1>3 DEF ReceiptsAreWritten

\* A step of an operation that touches neither the receipts nor the events, and does not say yet
\* that it succeeded.
LEMMA QuietStep ==
    ASSUME BackedInv, LedgerInv', NEW p \in Processes,
           UNCHANGED <<events, receipts, written, clock, calls>>, exports \subseteq exports',
           \A q \in Processes \ {p} : call'[q] = call[q],
           call[p].stage # "idle", call'[p].id = call[p].id,
           call'[p].candidates = call[p].candidates,
           call'[p].stage \notin {"receipt", "ran", "plan files", "plan ledger"},
           call'[p].stage \in {"truncate", "rewrite", "delete"} =>
               (call'[p].count > 0 => \E x \in exports' : x.plan = call[p].id),
           call'[p].stage = "applied" => call'[p].failed
    PROVE  BackedInv'
<1>1. FilesGrow /\ ReceiptsAreWritten'
  BY FilesStay
<1>2. \A x \in written : Current(x)' = Current(x)
  BY DEF Current, TooOld
<1>3. OperationBacked(p)
  BY DEF BackedInv
<1>4. OperationBacked(p)'
  BY <1>2, <1>3 DEF OperationBacked
<1> QED BY <1>1, <1>4, FilesStep

\* An operation starts, with a number no receipt has.
LEMMA StartBacked ==
    ASSUME BackedInv, LedgerInv', NEW p \in Processes, NEW stage,
           stage \notin {"ran", "truncate", "rewrite", "delete", "applied"}, Start(p, stage)
    PROVE  BackedInv'
<1>1. calls \in Nat /\ calls' = calls + 1
  BY DEF Start, BackedInv, LedgerInv, LedgerTypeOK
<1>2. call'[p] = [Idle EXCEPT !.stage = stage, !.id = calls + 1]
      /\ \A q \in Processes \ {p} : call'[q] = call[q]
  BY DEF Start, BackedInv, LedgerInv, LedgerTypeOK, Calls
<1>3. /\ call'[p].stage = stage /\ call'[p].id = calls + 1 /\ call'[p].candidates = {}
      /\ call'[p].count = 0
  BY <1>2 DEF Idle
<1>4. /\ events' = events /\ exports' = exports /\ receipts' = receipts /\ written' = written
      /\ clock' = clock
  BY DEF Start
<1>5. \A x \in written : x.run \in Nat /\ x.run <= calls
  BY DEF BackedInv, ReceiptsAreWritten, Receipts
<1>6. FilesGrow /\ ReceiptsAreWritten'
  BY <1>1, <1>4, FilesStay
<1>7. OperationBacked(p)'
  <2>1. \A x \in written' : x.run # call'[p].id
    BY <1>1, <1>3, <1>4, <1>5
  <2>2. call'[p].id <= calls'
    BY <1>1, <1>3
  <2> QED BY <1>3, <2>1, <2>2 DEF OperationBacked
<1> QED BY <1>2, <1>3, <1>4, <1>6, <1>7, FilesStep

\* A run writes its receipt.
LEMMA WriteReceiptBacked ==
    ASSUME BackedInv, LedgerInv', NEW p \in Processes, WriteReceipt(p)
    PROVE  BackedInv'
<1> DEFINE made == [run |-> call[p].id, at |-> clock]
<1>1. OperationBacked(p) /\ call[p] \in CallStates /\ calls \in Nat /\ clock \in Nat
  BY DEF BackedInv, LedgerInv, LedgerTypeOK, Calls
<1>2. made \in Receipts /\ made.run = call[p].id /\ made.run <= calls
  BY <1>1 DEF Receipts, CallStates, WriteReceipt, OperationBacked
<1>3. /\ call'[p].stage = "ran" /\ call'[p].id = call[p].id /\ call'[p].candidates = call[p].candidates
      /\ call'[p].count = call[p].count /\ \A q \in Processes \ {p} : call'[q] = call[q]
  BY <1>1 DEF WriteReceipt, Go, BackedInv, LedgerInv, LedgerTypeOK, Calls, CallStates
<1>4. /\ receipts' = receipts \cup {made} /\ written' = written \cup {made}
      /\ UNCHANGED <<events, exports, clock, calls>>
  BY DEF WriteReceipt
<1>5. FilesGrow
  BY <1>1, <1>4 DEF FilesGrow
<1> HIDE DEF made
<1>6. ReceiptsAreWritten'
  <2>1. IsFiniteSet(written')
    BY <1>4, FS_AddElement DEF BackedInv, ReceiptsAreWritten
  <2> QED BY <1>2, <1>4, <2>1 DEF BackedInv, ReceiptsAreWritten
<1>7. ASSUME NEW x \in call[p].candidates PROVE x \in written' /\ ~Current(x)'
  <2>1. x \in written /\ ~Current(x)
    BY <1>1 DEF OperationBacked
  <2>2. ~Current(x)'
    BY <1>5, <1>6, <2>1, CurrentShrinks DEF ReceiptsAreWritten
  <2> QED BY <1>4, <2>1, <2>2
<1>8. OperationBacked(p)'
  BY <1>1, <1>2, <1>3, <1>4, <1>7 DEF OperationBacked, WriteReceipt
<1>9. call[p].stage # "idle"
  BY DEF WriteReceipt
<1>10. /\ events' = events /\ receipts' \subseteq receipts \cup (written' \ written)
       /\ written' \ written \subseteq receipts' /\ receipts \ receipts' = {}
       /\ \A x \in written' \ written : x.run = call[p].id
  <2>1. receipts \subseteq written
    BY DEF BackedInv, ReceiptsAreWritten
  <2>2. made \notin written
    BY <1>1, <1>2 DEF OperationBacked, WriteReceipt
  <2> QED BY <1>2, <1>4, <2>1, <2>2
<1> QED BY <1>3, <1>5, <1>6, <1>8, <1>9, <1>10, FilesStep

\* Retention plans to delete what is too old, and what has enough newer receipts beside it.
LEMMA CandidatesMayGo ==
    ASSUME BackedInv, NEW candidates \in CandidateSets(clock)
    PROVE  \A x \in candidates : x \in receipts /\ ~Current(x)
<1>1. PICK excess \in SUBSET receipts :
         /\ candidates = {x \in receipts : TooOld(x, clock)} \cup excess
         /\ Cardinality(excess) = IF Cardinality(receipts) > MaxCount THEN Cardinality(receipts) - MaxCount ELSE 0
         /\ \A x \in excess, y \in receipts \ excess : x.at <= y.at
  BY DEF CandidateSets
<1>2. IsFiniteSet(receipts) /\ IsFiniteSet(written) /\ receipts \subseteq written
  BY FS_Subset DEF BackedInv, ReceiptsAreWritten
<1>3. ASSUME NEW x \in excess PROVE ~Current(x)
  <2> DEFINE Newer == {y \in written : y # x /\ y.at >= x.at}
  <2>1. IsFiniteSet(excess) /\ Cardinality(excess) # 0 /\ excess \cap receipts = excess
    BY <1>1, <1>2, <1>3, FS_Subset, FS_EmptySet
  <2>2. /\ IsFiniteSet(receipts \ excess)
        /\ Cardinality(receipts \ excess) = Cardinality(receipts) - Cardinality(receipts \cap excess)
    BY <1>2, FS_Difference
  <2>3. Cardinality(receipts) \in Nat /\ Cardinality(excess) \in Nat /\ MaxCount \in Nat
    BY <1>2, <2>1, FS_CardinalityType, LocalAssumption
  <2>4. Cardinality(excess) = Cardinality(receipts) - MaxCount
    BY <1>1, <2>1
  <2>5. receipts \cap excess = excess
    BY <2>1
  <2>6. Cardinality(receipts \ excess) = MaxCount
    BY <2>2, <2>3, <2>4, <2>5
  <2>7. receipts \ excess \subseteq Newer
    <3>1. \A y \in written : y.at \in Nat
      BY DEF BackedInv, ReceiptsAreWritten, Receipts
    <3> QED BY <1>1, <1>2, <1>3, <3>1
  <2>8. IsFiniteSet(Newer) /\ Cardinality(Newer) \in Nat
    BY <1>2, FS_Subset, FS_CardinalityType
  <2>9. Cardinality(receipts \ excess) <= Cardinality(Newer)
    BY <2>7, <2>8, FS_Subset
  <2> HIDE DEF Newer
  <2>10. ~(Cardinality(Newer) < MaxCount)
    BY <2>3, <2>6, <2>8, <2>9
  <2> QED BY <2>10 DEF Current, Newer
<1>4. \A x \in receipts : TooOld(x, clock) => ~Current(x)
  BY DEF Current
<1> QED BY <1>1, <1>3, <1>4

\* A plan is made.
LEMMA PlanBacked == ASSUME BackedInv, LedgerInv', NEW p \in Processes, PlanFiles(p) PROVE BackedInv'
<1>1. PICK candidates \in CandidateSets(clock) :
         call' = [call EXCEPT ![p].candidates = candidates, ![p].stage = "plan ledger"]
  BY DEF PlanFiles
<1>2. /\ events' = events /\ exports' = exports /\ receipts' = receipts /\ written' = written
      /\ clock' = clock /\ calls' = calls
  BY DEF PlanFiles
<1>3. OperationBacked(p) /\ call \in Calls /\ call[p].stage = "plan files" /\ receipts \subseteq written
  BY DEF BackedInv, LedgerInv, LedgerTypeOK, PlanFiles, ReceiptsAreWritten
<1>4. /\ call'[p].stage = "plan ledger" /\ call'[p].id = call[p].id
      /\ call'[p].candidates = candidates /\ call'[p].count = call[p].count
      /\ \A q \in Processes \ {p} : call'[q] = call[q]
  BY <1>1, <1>3 DEF Calls, CallStates
<1>5. \A x \in candidates : x \in written' /\ ~Current(x)'
  <2>1. \A x \in written : Current(x)' = Current(x)
    BY <1>2 DEF Current, TooOld
  <2> QED BY <1>2, <1>3, <2>1, CandidatesMayGo
<1>6. FilesGrow /\ ReceiptsAreWritten'
  BY <1>2, FilesStay
<1>7. OperationBacked(p)'
  BY <1>2, <1>3, <1>4, <1>5 DEF OperationBacked
<1> QED BY <1>2, <1>3, <1>4, <1>6, <1>7, FilesStep

\* The planned files go, or some of them.
LEMMA DeleteBacked == ASSUME BackedInv, LedgerInv', NEW p \in Processes, Delete(p) PROVE BackedInv'
<1>1. PICK deleted \in SUBSET call[p].candidates :
         /\ receipts' = receipts \ deleted
         /\ call' = [call EXCEPT ![p].failed = deleted # call[p].candidates, ![p].stage = "applied"]
  BY DEF Delete
<1>2. /\ events' = events /\ exports' = exports /\ written' = written
      /\ clock' = clock /\ calls' = calls
  BY DEF Delete
<1>3. OperationBacked(p) /\ call \in Calls /\ call[p].stage = "delete"
  BY DEF BackedInv, LedgerInv, LedgerTypeOK, Delete
<1>4. /\ call'[p].stage = "applied" /\ call'[p].id = call[p].id
      /\ call'[p].candidates = call[p].candidates /\ call'[p].count = call[p].count
      /\ call'[p].failed = (deleted # call[p].candidates)
      /\ \A q \in Processes \ {p} : call'[q] = call[q]
  BY <1>1, <1>3 DEF Calls, CallStates
<1>5. \A x \in written : Current(x)' = Current(x)
  BY <1>2 DEF Current, TooOld
<1>6. FilesGrow /\ ReceiptsAreWritten'
  BY <1>1, <1>2, FilesStay
<1>7. OperationBacked(p)'
  BY <1>1, <1>2, <1>3, <1>4, <1>5 DEF OperationBacked
<1>8. \A x \in receipts \ receipts' : ~Current(x)
  BY <1>1, <1>3 DEF OperationBacked
<1> QED BY <1>1, <1>2, <1>3, <1>4, <1>6, <1>7, <1>8, FilesStep

\* An event is appended that says what is so.
LEMMA AppendBacked ==
    ASSUME BackedInv, LedgerInv', NEW p \in Processes, NEW event, AppendLine(p, event),
           event.candidates \subseteq written,
           event.kind = "run" => \E x \in written : x.run = event.id,
           event.outcome = "success" =>
               /\ event.candidates \cap receipts = {}
               /\ event.count > 0 => \E x \in exports : x.plan = event.id
    PROVE  BackedInv'
<1>1. /\ events' = Append(events, event) /\ exports' = exports /\ receipts' = receipts
      /\ written' = written /\ clock' = clock /\ calls' = calls
      /\ call' = [call EXCEPT ![p] = Idle]
  BY DEF AppendLine
<1>2. events \in Seq(Events) /\ Len(events) \in Nat /\ call \in Calls
  BY DEF BackedInv, LedgerInv, LedgerTypeOK
<1>3. call'[p] = Idle /\ \A q \in Processes \ {p} : call'[q] = call[q]
  BY <1>1, <1>2 DEF Calls
<1>4. call'[p].stage = "idle" /\ call'[p].candidates = {}
  BY <1>3 DEF Idle
<1>5. FilesGrow /\ ReceiptsAreWritten'
  BY <1>1, FilesStay
<1>6. OperationBacked(p)'
  BY <1>4 DEF OperationBacked
<1>7. (\A q \in Processes : OperationBacked(q)') /\ OperationsDiffer'
  BY <1>1, <1>3, <1>4, <1>5, <1>6, OperationsStep
<1>8. Len(events') = Len(events) + 1 /\ events'[Len(events) + 1] = event
      /\ \A i \in 1..Len(events) : events'[i] = events[i]
  BY <1>1, <1>2
<1>9. ASSUME NEW i \in 1..Len(events')
      PROVE  /\ events'[i].candidates \subseteq written
             /\ events'[i].kind = "run" => \E x \in written : x.run = events'[i].id
             /\ events'[i].outcome = "success" =>
                   /\ events'[i].candidates \cap receipts = {}
                   /\ events'[i].count > 0 => \E x \in exports : x.plan = events'[i].id
  <2>1. i \in 1..Len(events) \/ i = Len(events) + 1
    BY <1>2, <1>8
  <2>2. CASE i \in 1..Len(events)
    BY <1>8, <2>2 DEF BackedInv, EventsNameWritten, EventsAreBacked
  <2>3. CASE i = Len(events) + 1
    BY <1>8, <2>3
  <2> QED BY <2>1, <2>2, <2>3
<1>10. EventsNameWritten'
  BY <1>1, <1>9 DEF EventsNameWritten
<1>11. EventsAreBacked'
  <2>1. \A x \in written : Current(x)' = Current(x)
    BY <1>1 DEF Current, TooOld
  <2> QED BY <1>1, <1>9, <2>1 DEF BackedInv, EventsAreBacked
<1> QED BY <1>5, <1>7, <1>10, <1>11 DEF BackedInv

\* The steps of a compaction: what it says it exported is exported before the ledger is cut.
LEMMA CompactionBacked ==
    ASSUME BackedInv, LedgerInv', NEW p \in Processes,
           \/ PlanLedger(p) \/ ReadLedger(p) \/ Export(p)
           \/ Truncate(p) \/ Rewrite(p) \/ CompactionFails(p)
    PROVE  BackedInv'
<1>1. OperationBacked(p) /\ call \in Calls
  BY DEF BackedInv, LedgerInv, LedgerTypeOK
<1>2. CASE PlanLedger(p)
  <2>1. call[p].count = 0
    BY <1>1, <1>2 DEF PlanLedger, OperationBacked
  <2>2. /\ call'[p].stage = "read" \/ (call'[p].stage = "delete" /\ call'[p].count = call[p].count)
        /\ call'[p].id = call[p].id /\ call'[p].candidates = call[p].candidates
        /\ \A q \in Processes \ {p} : call'[q] = call[q]
    <3>1. CASE Cardinality(ledger) <= MaxEvents
      BY <1>1, <1>2, <3>1 DEF PlanLedger, Calls, CallStates
    <3>2. CASE ~(Cardinality(ledger) <= MaxEvents)
      BY <1>1, <1>2, <3>2 DEF PlanLedger, Calls, CallStates
    <3> QED BY <3>1, <3>2
  <2>3. ~(call[p].count > 0)
    BY <2>1
  <2>4. call[p].stage # "idle" /\ exports' = exports /\ UNCHANGED <<events, receipts, written, clock, calls>>
    BY <1>2 DEF PlanLedger
  <2>5. call'[p].stage \in {"truncate", "rewrite", "delete"} => ~(call'[p].count > 0)
    BY <2>2, <2>3
  <2> QED BY <2>2, <2>4, <2>5, QuietStep
<1>3. CASE ReadLedger(p)
  <2>1. /\ call'[p].stage = "export" /\ call'[p].id = call[p].id
        /\ call'[p].candidates = call[p].candidates
        /\ \A q \in Processes \ {p} : call'[q] = call[q]
    BY <1>1, <1>3 DEF ReadLedger, Calls, CallStates
  <2> QED BY <1>3, <2>1, QuietStep DEF ReadLedger
<1>4. CASE Export(p)
  <2>1. /\ call'[p].stage = "truncate" /\ call'[p].id = call[p].id
        /\ call'[p].candidates = call[p].candidates
        /\ \A q \in Processes \ {p} : call'[q] = call[q]
    BY <1>1, <1>4 DEF Export, Go, Calls, CallStates
  <2>2. \E x \in exports' : x.plan = call[p].id
    <3> DEFINE export == [plan |-> call[p].id, lines |-> Compacted(p)]
    <3>1. export \in exports' /\ export.plan = call[p].id
      BY <1>4 DEF Export
    <3> QED BY <3>1
  <2> QED BY <1>4, <2>1, <2>2, QuietStep DEF Export
<1>5. CASE Truncate(p)
  <2>1. /\ call'[p].stage = "rewrite" /\ call'[p].id = call[p].id
        /\ call'[p].candidates = call[p].candidates /\ call'[p].count = call[p].count
        /\ \A q \in Processes \ {p} : call'[q] = call[q]
    BY <1>1, <1>5 DEF Truncate, Go, Calls, CallStates
  <2>2. call[p].count > 0 => \E x \in exports : x.plan = call[p].id
    BY <1>1, <1>5 DEF Truncate, OperationBacked
  <2> QED BY <1>5, <2>1, <2>2, QuietStep DEF Truncate
<1>6. CASE Rewrite(p)
  <2>1. /\ call'[p].stage = "delete" /\ call'[p].id = call[p].id
        /\ call'[p].candidates = call[p].candidates /\ call'[p].count = call[p].count
        /\ \A q \in Processes \ {p} : call'[q] = call[q]
    BY <1>1, <1>6 DEF Rewrite, Go, Calls, CallStates
  <2>2. call[p].count > 0 => \E x \in exports : x.plan = call[p].id
    BY <1>1, <1>6 DEF Rewrite, OperationBacked
  <2> QED BY <1>6, <2>1, <2>2, QuietStep DEF Rewrite
<1>7. CASE CompactionFails(p)
  <2>1. /\ call'[p].stage = "applied" /\ call'[p].failed /\ call'[p].id = call[p].id
        /\ call'[p].candidates = call[p].candidates
        /\ \A q \in Processes \ {p} : call'[q] = call[q]
    BY <1>1, <1>7 DEF CompactionFails, Calls, CallStates
  <2> QED BY <1>7, <2>1, QuietStep DEF CompactionFails, Compacting
<1> QED BY <1>2, <1>3, <1>4, <1>5, <1>6, <1>7

\* What runs, evaluations and retentions append.
LEMMA EventsBacked ==
    ASSUME BackedInv, LedgerInv', NEW p \in Processes,
           AppendRun(p) \/ AppendEvaluation(p) \/ AppendApplied(p)
    PROVE  BackedInv'
<1>1. OperationBacked(p)
  BY DEF BackedInv
<1>2. CASE AppendRun(p)
  <2>1. \E x \in written : x.run = call[p].id
    BY <1>1, <1>2 DEF AppendRun, OperationBacked
  <2> QED BY <1>2, <2>1, AppendBacked DEF AppendRun, Recorded
<1>3. CASE AppendEvaluation(p)
  BY <1>3, AppendBacked DEF AppendEvaluation, Recorded
<1>4. CASE AppendApplied(p)
  <2> DEFINE event == [kind |-> "applied", id |-> call[p].id,
                       outcome |-> IF call[p].failed THEN "failure" ELSE "success",
                       candidates |-> call[p].candidates, count |-> call[p].count]
  <2>1. AppendLine(p, event)
    BY <1>4 DEF AppendApplied
  <2>2. /\ event.kind = "applied" /\ event.id = call[p].id
        /\ event.candidates = call[p].candidates /\ event.count = call[p].count
        /\ event.outcome = "success" => ~call[p].failed
    OBVIOUS
  <2>3. event.candidates \subseteq written
    BY <1>1, <2>2 DEF OperationBacked
  <2>4. event.outcome = "success" =>
           /\ event.candidates \cap receipts = {}
           /\ event.count > 0 => \E x \in exports : x.plan = event.id
    BY <1>1, <1>4, <2>2 DEF AppendApplied, OperationBacked
  <2> HIDE DEF event
  <2> QED BY <2>1, <2>2, <2>3, <2>4, AppendBacked
<1> QED BY <1>2, <1>3, <1>4

\* A process dies: its operation is owed nothing.
LEMMA CrashBacked == ASSUME BackedInv, LedgerInv', NEW p \in Processes, Crash(p) PROVE BackedInv'
<1>1. /\ events' = events /\ exports' = exports /\ receipts' = receipts /\ written' = written
      /\ clock' = clock /\ calls' = calls /\ call' = [call EXCEPT ![p] = Idle]
  BY DEF Crash
<1>2. call'[p] = Idle /\ \A q \in Processes \ {p} : call'[q] = call[q]
  BY <1>1 DEF BackedInv, LedgerInv, LedgerTypeOK, Calls
<1>3. call'[p].stage = "idle" /\ call'[p].candidates = {}
  BY <1>2 DEF Idle
<1>4. OperationBacked(p)'
  BY <1>3 DEF OperationBacked
<1>5. FilesGrow /\ ReceiptsAreWritten'
  BY <1>1, FilesStay
<1> QED BY <1>1, <1>2, <1>3, <1>4, <1>5, FilesStep

\* Time passes: what may be deleted stays so.
LEMMA TickBacked == ASSUME BackedInv, LedgerInv', Tick PROVE BackedInv'
<1>1. /\ events' = events /\ exports' = exports /\ receipts' = receipts /\ written' = written
      /\ calls' = calls /\ call' = call
  BY DEF Tick
<1>2. clock \in Nat /\ calls \in Nat /\ ReceiptsAreWritten
  BY DEF BackedInv, LedgerInv, LedgerTypeOK
<1>3. FilesGrow
  <2>1. clock <= clock' /\ calls <= calls'
    BY <1>1, <1>2 DEF Tick
  <2> QED BY <1>1, <2>1 DEF FilesGrow
<1>4. ReceiptsAreWritten'
  BY <1>1, <1>2 DEF ReceiptsAreWritten
<1>5. \A q \in Processes : OperationBacked(q)'
  BY <1>1, <1>3, <1>4, OthersStayBacked
<1>6. OperationsDiffer'
  BY <1>1 DEF BackedInv, OperationsDiffer
<1>7. EventsNameWritten' /\ EventsAreBacked'
  BY <1>1, <1>3, <1>4, EventsStayBacked
<1> QED BY <1>4, <1>5, <1>6, <1>7 DEF BackedInv

\* No step of any process leaves an event without its receipt.
LEMMA NextBacked == ASSUME BackedInv, [Next]_localVars PROVE BackedInv'
<1>1. LedgerInv'
  BY NextLedger DEF BackedInv
<1>2. CASE UNCHANGED localVars
  <2>1. /\ events' = events /\ exports' = exports /\ receipts' = receipts /\ written' = written
        /\ calls' = calls /\ call' = call /\ clock' = clock
    BY <1>2 DEF localVars
  <2>2. \A x \in written : Current(x)' = Current(x)
    BY <2>1 DEF Current, TooOld
  <2>3. \A p \in Processes : OperationBacked(p)'
    BY <2>1, <2>2 DEF BackedInv, OperationBacked
  <2>4. EventsAreBacked'
    BY <2>1, <2>2 DEF BackedInv, EventsAreBacked
  <2> QED BY <1>1, <2>1, <2>3, <2>4 DEF BackedInv, ReceiptsAreWritten, OperationsDiffer, EventsNameWritten
<1>3. CASE Tick
  BY <1>1, <1>3, TickBacked
<1>4. ASSUME NEW p \in Processes, Step(p) PROVE BackedInv'
  <2>1. CASE RunChecks(p) \/ Evaluate(p) \/ BeginApply(p)
    BY <1>1, <2>1, StartBacked DEF RunChecks, Evaluate, BeginApply
  <2>2. CASE WriteReceipt(p)
    BY <1>1, <2>2, WriteReceiptBacked
  <2>3. CASE AppendRun(p) \/ AppendEvaluation(p) \/ AppendApplied(p)
    BY <1>1, <2>3, EventsBacked
  <2>4. CASE PlanFiles(p)
    BY <1>1, <2>4, PlanBacked
  <2>5. CASE PlanLedger(p) \/ ReadLedger(p) \/ Export(p)
             \/ Truncate(p) \/ Rewrite(p) \/ CompactionFails(p)
    BY <1>1, <2>5, CompactionBacked
  <2>6. CASE Delete(p)
    BY <1>1, <2>6, DeleteBacked
  <2>7. CASE Crash(p)
    BY <1>1, <2>7, CrashBacked
  <2> QED BY <1>4, <2>1, <2>2, <2>3, <2>4, <2>5, <2>6, <2>7 DEF Step
<1> QED BY <1>2, <1>3, <1>4 DEF Next

\* Nothing has been written, and the lines of an installation in use say nothing of its files.
LEMMA InitBacked == ASSUME Init PROVE BackedInv
<1>1. LedgerInv
  BY InitLedger
<1>2. receipts = {} /\ written = {} /\ exports = {} /\ \A p \in Processes : call[p] = Idle
  BY DEF Init
<1>3. \A p \in Processes : call[p].stage = "idle" /\ call[p].candidates = {}
  BY <1>2 DEF Idle
<1>4. ReceiptsAreWritten
  BY <1>2, FS_EmptySet DEF ReceiptsAreWritten
<1>5. \A p \in Processes : OperationBacked(p)
  BY <1>3 DEF OperationBacked
<1>6. OperationsDiffer
  BY <1>3 DEF OperationsDiffer
<1>7. \A i \in 1..Len(events) :
         events[i].kind = "evaluation" /\ events[i].outcome = "recorded" /\ events[i].candidates = {}
  <2>1. PICK n \in 0..MaxExisting : events = [i \in 1..n |-> Recorded("evaluation", 0)]
    BY DEF Init
  <2>2. n \in Nat /\ Len(events) = n
    <3>1. n \in Nat
      BY LocalAssumption
    <3> QED BY <2>1, <3>1
  <2> QED BY <2>1, <2>2 DEF Recorded
<1>8. EventsNameWritten /\ EventsAreBacked
  BY <1>2, <1>7 DEF EventsNameWritten, EventsAreBacked
<1> QED BY <1>1, <1>4, <1>5, <1>6, <1>8 DEF BackedInv

\* A run's event has its receipt, which stays until retention may delete it, and a retention that
\* says success has exported and deleted what it names: run_operator_validation_check and
\* apply_retention_plan, with any interleaving, failure and death of processes.
THEOREM BackedCorrect == Spec => []EventsAreBacked
<1>1. Init => BackedInv
  BY InitBacked
<1>2. BackedInv /\ [Next]_localVars => BackedInv'
  BY NextBacked
<1>3. BackedInv => EventsAreBacked
  BY DEF BackedInv
<1> QED BY <1>1, <1>2, <1>3, PTL DEF Spec
-----------------------------------------------------------------------------
(* ValidationRun.  A receipt that says success is earned: every validator  *)
(* the tier includes was waived, or run to its end with what it asks for.   *)

Ends == {"exit zero", "exit other", "timeout", "not started"}

AttemptRecord == [validator : STRING, end : Ends, output : Outputs]

\* What a plan is, whenever it was made.
PlanFacts(p) ==
    /\ p.at \in Nat
    /\ p.outcome = "planned" /\ validation.tier = "release" => \A a \in Manifest.authorities : a.status = "current"
    /\ \A v \in Validators :
          Included(v, validation.tier) =>
             Waiving(v, p.at) # {} \/ \E i \in DOMAIN p.checks : p.checks[i].validator = v
    /\ \A i \in DOMAIN p.checks :
          /\ p.checks[i].validator \in Validators
          /\ p.checks[i].receipt # None => Vouches(p.checks[i].receipt, p.checks[i].validator, p.at)

\* What a status says of the check it is recorded for.
Just(i) ==
    /\ results[i] \in {"success", "failure", "blocked", "skipped_fresh_receipt"}
    /\ results[i] = "skipped_fresh_receipt" => plan.checks[i].receipt # None
    /\ results[i] = "success" => Passed(plan.checks[i].validator)

\* A plan that was executed to its end, with no required check failed or blocked.
Done ==
    /\ plan # None /\ plan.outcome = "planned" /\ Left = {} /\ DOMAIN results # {}
    /\ \A i \in DOMAIN results :
          results[i] # "blocked" /\ (plan.checks[i].validator.required => results[i] # "failure")

PlanInv ==
    /\ plan = None => DOMAIN results = {}
    /\ plan # None => PlanFacts(plan) /\ DOMAIN results \subseteq DOMAIN plan.checks

ResultInv == \A i \in DOMAIN results : Just(i)

ValidationInv ==
    /\ validation \in Validations /\ now \in Nat
    /\ attempts \in Seq(AttemptRecord)
    /\ \A n \in DOMAIN attempts : Permitted(attempts[n])
    /\ PlanInv /\ ResultInv
    /\ receipt # None => plan # None
    /\ receipt = "success" => Done
-----------------------------------------------------------------------------
(* Helpers.                                                                *)

\* The ranks of the tiers are numbers.
LEMMA Ranks == \A t \in DOMAIN Rank : Rank[t] \in Nat
BY DEF Rank

\* A finite set of numbers that is not empty has a greatest element.
LEMMA MaximumOfFinite ==
    ASSUME NEW S \in SUBSET Nat, IsFiniteSet(S), S # {}
    PROVE  \E x \in S : \A m \in S : m <= x
<1> DEFINE Above(x) == {y \in S : y > x}
           F == {Above(x) : x \in S}
<1>1. F # {} /\ F \subseteq FiniteSubsetsOf(S)
  <2>1. F # {} /\ F \subseteq SUBSET S
    OBVIOUS
  <2> HIDE DEF F
  <2> QED BY <2>1, FS_FiniteSubsetsOfFinite
<1>2. IsWellFoundedOn(StrictSubsetOrdering(S), FiniteSubsetsOf(S))
  BY FS_StrictSubsetOrderingWellFounded
<1> HIDE DEF F
<1>3. \E I \in F : \A J \in F : <<J, I>> \notin StrictSubsetOrdering(S)
  BY <1>1, <1>2, WFMin
<1> USE DEF F
<1>4. PICK x \in S : \A y \in S : <<Above(y), Above(x)>> \notin StrictSubsetOrdering(S)
  BY <1>3
<1>5. ASSUME NEW y \in S, y > x PROVE FALSE
  <2>1. y \in Above(x) /\ y \notin Above(y)
    BY <1>5
  <2>2. Above(y) \subseteq Above(x)
    <3> SUFFICES ASSUME NEW z \in S, z > y PROVE z > x
      OBVIOUS
    <3>1. x \in Nat /\ y \in Nat /\ z \in Nat
      OBVIOUS
    <3> QED BY <1>5, <3>1
  <2>3. Above(y) \in SUBSET S /\ Above(x) \in SUBSET S
    OBVIOUS
  <2> HIDE DEF Above
  <2> QED BY <1>4, <2>1, <2>2, <2>3 DEF StrictSubsetOrdering
<1>6. \A m \in S : m <= x
  BY <1>5
<1> QED BY <1>6

\* The Max of the community modules is one.
LEMMA MaxIsMaximum ==
    ASSUME NEW S \in SUBSET Nat, IsFiniteSet(S), S # {}
    PROVE  Max(S) \in S /\ \A m \in S : m <= Max(S)
<1>1. PICK x \in S : \A m \in S : m <= x
  BY MaximumOfFinite
<1>2. \A m \in S : x >= m
  BY <1>1
<1> QED BY <1>2 DEF Max

\* The freshness that a receipt is reused by is none longer than the longest that is stated.
LEMMA LongestFreshness ==
    ASSUME NEW a \in Nat \cup {None}, NEW b \in Nat \cup {None}
    PROVE  LET longest == Max({0} \cup ({a, b} \ {None}))
           IN /\ longest \in Nat
              /\ (IF a # None THEN a ELSE IF b # None THEN b ELSE 0) <= longest
<1> DEFINE S == {0} \cup ({a, b} \ {None})
<1>1. S \in SUBSET Nat /\ S # {}
  OBVIOUS
<1>2. IsFiniteSet(S)
  <2>1. IsFiniteSet({0} \cup {a})
    BY FS_AddElement, FS_Singleton
  <2>2. IsFiniteSet(({0} \cup {a}) \cup {b})
    BY <2>1, FS_AddElement
  <2>3. S \subseteq ({0} \cup {a}) \cup {b}
    OBVIOUS
  <2> HIDE DEF S
  <2> QED BY <2>2, <2>3, FS_Subset
<1>3. (IF a # None THEN a ELSE IF b # None THEN b ELSE 0) \in S
  OBVIOUS
<1> HIDE DEF S
<1>4. Max(S) \in S /\ \A m \in S : m <= Max(S)
  BY <1>1, <1>2, MaxIsMaximum
<1>5. Max(S) \in Nat /\ (IF a # None THEN a ELSE IF b # None THEN b ELSE 0) <= Max(S)
  BY <1>1, <1>3, <1>4
<1> QED BY <1>5 DEF S
-----------------------------------------------------------------------------
(* The planner.                                                            *)

\* What the manifest says of a validator, whether it was declared or made from an entry.
LEMMA ValidatorsAreTyped ==
    ASSUME validation \in Validations, NEW v \in Validators
    PROVE  v.tier \in DOMAIN Rank /\ v.id \in STRING /\ v.reuse.freshness \in Nat \cup {None}
<1>1. CASE validation.catalog = None
  <2>1. v \in Range(validation.manifest.validators)
    BY <1>1 DEF Validators, Manifest
  <2> QED BY <1>1, <2>1, ValidationAssumption
<1>2. CASE validation.catalog # None
  <2> DEFINE entries == validation.catalog.entries
  <2>1. PICK i \in DOMAIN entries : v = FromEntry(entries[i])
    BY <1>2 DEF Validators, Manifest, Range
  <2>2. entries[i] \in Range(entries)
    BY DEF Range
  <2>3. entries[i].tier \in DOMAIN Rank /\ entries[i].id \in STRING
    BY <1>2, <2>2, ValidationAssumption
  <2> HIDE DEF entries
  <2> QED BY <2>1, <2>3 DEF FromEntry
<1> QED BY <1>1, <1>2

\* A validator made from an entry is that of an entry that may be invoked.
LEMMA EntriesAreAdmitted ==
    ASSUME validation.catalog # None, NEW v \in Validators
    PROVE  \E e \in Range(validation.catalog.entries) : e.id = v.id /\ ~e.mutates /\ validation.profile \in e.profiles
<1> DEFINE entries == validation.catalog.entries
<1>1. PICK i \in {j \in DOMAIN entries : Admitted(entries[j])} : v = FromEntry(entries[i])
  BY DEF Validators, Manifest, Range
<1>2. entries[i] \in Range(entries)
  BY <1>1 DEF Range
<1>3. entries[i].id = v.id
  BY <1>1 DEF FromEntry
<1>4. ~entries[i].mutates /\ validation.profile \in entries[i].profiles
  BY <1>1 DEF Admitted
<1> QED BY <1>2, <1>3, <1>4

\* What a lower tier selects, the tier that is asked for selects too.
LEMMA TiersAreCumulative ==
    ASSUME validation \in Validations, NEW v \in Validators, NEW tier \in DOMAIN Rank,
           Rank[tier] <= Rank[validation.tier], Included(v, tier)
    PROVE  Included(v, validation.tier)
<1>1. v.tier \in DOMAIN Rank /\ validation.tier \in DOMAIN Rank
  BY ValidatorsAreTyped, ValidationAssumption
<1>2. TierIncluded(v, validation.tier)
  <2>1. Rank[v.tier] <= Rank[tier]
    BY DEF Included, TierIncluded
  <2>2. Rank[v.tier] \in Nat /\ Rank[tier] \in Nat /\ Rank[validation.tier] \in Nat
    BY <1>1, Ranks
  <2> QED BY <2>1, <2>2 DEF TierIncluded
<1>3. ScopeIncluded(v, validation.tier)
  <2>1. tier \in {"full", "release"} => validation.tier \in {"full", "release"}
    BY <1>1 DEF Rank
  <2> QED BY <2>1 DEF Included, ScopeIncluded
<1> QED BY <1>2, <1>3 DEF Included

\* The receipt that is reused is one of those that can be.
LEMMA ReusedIsReusable ==
    ASSUME validation \in Validations, NEW v, NEW at, Reused(v, at) # None
    PROVE  /\ Reused(v, at) \in validation.receipts
           /\ v.reuse.safe /\ Reusable(Reused(v, at), v, at)
<1> DEFINE found == {x \in validation.receipts : v.reuse.safe /\ Reusable(x, v, at)}
           date(x) == IF x.captured = None THEN 0 ELSE x.captured
           dates == {date(x) : x \in found}
<1>1. found # {}
  BY DEF Reused
<1>2. \A x \in found : date(x) \in Nat
  BY ValidationAssumption
<1>3. IsFiniteSet(found)
  <2>1. found \subseteq validation.receipts /\ IsFiniteSet(validation.receipts)
    BY ValidationAssumption
  <2> HIDE DEF found
  <2> QED BY <2>1, FS_Subset
<1> DEFINE Newest(x) == \A y \in found : date(y) <= date(x)
<1>4. Reused(v, at) = CHOOSE x \in found : Newest(x)
  BY <1>1 DEF Reused
<1> HIDE DEF found, date
<1>5. IsFiniteSet(dates)
  <2> DEFINE f == [x \in found |-> date(x)]
  <2>1. f \in Surjection(found, dates)
    BY DEF Surjection
  <2> HIDE DEF f, dates
  <2> QED BY <1>3, <2>1, FS_Surjection
<1>6. dates \in SUBSET Nat /\ dates # {}
  <2>1. dates # {}
    BY <1>1
  <2>2. ASSUME NEW m \in dates PROVE m \in Nat
    <3>1. PICK x \in found : m = date(x)
      BY <2>2
    <3> QED BY <1>2, <3>1
  <2> QED BY <2>1, <2>2
<1>7. PICK d \in dates : \A m \in dates : m <= d
  <2> HIDE DEF dates
  <2> QED BY <1>5, <1>6, MaximumOfFinite
<1>8. \E x \in found : Newest(x)
  BY <1>7
<1>9. Reused(v, at) \in found
  <2> HIDE DEF Newest
  <2> QED BY <1>4, <1>8, Zenon
<1> QED BY <1>9 DEF found

\* A receipt that is reused says what stands for the check.
LEMMA ReusedVouches ==
    ASSUME validation \in Validations, NEW v \in Validators, NEW at \in Nat, Reused(v, at) # None
    PROVE  Vouches(Reused(v, at), v, at)
<1>1. PICK x \in validation.receipts : x = Reused(v, at) /\ v.reuse.safe /\ Reusable(x, v, at)
  BY ReusedIsReusable
<1>2. x.captured \in Nat \cup {None} /\ x.freshness \in Nat \cup {None} /\ v.reuse.freshness \in Nat \cup {None}
  BY ValidationAssumption, ValidatorsAreTyped
<1> DEFINE longest == Max({0} \cup ({v.reuse.freshness, x.freshness} \ {None}))
           freshness == IF v.reuse.freshness # None THEN v.reuse.freshness
                        ELSE IF x.freshness # None THEN x.freshness ELSE 0
<1>3. longest \in Nat /\ freshness <= longest
  BY <1>2, LongestFreshness
<1>4. freshness \in Nat
  BY <1>2
<1>5. x.expires # None => x.expires >= at
  BY <1>1 DEF Reusable, Fresh
<1>6. x.expires = None => x.captured # None /\ x.captured + freshness >= at
  BY <1>1 DEF Reusable, Fresh
<1> HIDE DEF longest, freshness
<1>7. x.expires = None => x.captured # None /\ x.captured + longest >= at
  BY <1>2, <1>3, <1>4, <1>6
<1> USE DEF longest
<1>8. Vouches(x, v, at)
  BY <1>1, <1>5, <1>7 DEF Vouches, Reusable, AuthoritiesMatch
<1> QED BY <1>1, <1>8

\* A plan that is built is what a plan is.
LEMMA PlanIsSound ==
    ASSUME validation \in Validations, NEW at \in Nat
    PROVE  PlanFacts(PlanAt(at))
<1> DEFINE validators == Manifest.validators
           selected == {i \in DOMAIN validators : Included(validators[i], validation.tier)}
           chosen == {i \in selected : Waiving(validators[i], at) = {}}
           checks == [i \in chosen |-> [validator |-> validators[i], receipt |-> Reused(validators[i], at)]]
           waived == {validators[i] : i \in selected \ chosen}
<1>1. PlanAt(at) = [at |-> at, checks |-> checks, waived |-> waived, outcome |-> PlanOutcome(checks, waived)]
  BY DEF PlanAt
<1>2. PICK p : p = PlanAt(at)
  OBVIOUS
<1>3. p.at = at /\ p.checks = checks /\ p.outcome = PlanOutcome(checks, waived)
  BY <1>1, <1>2
<1>4. \A i \in DOMAIN validators : validators[i] \in Validators
  BY DEF Validators, Range
<1>5. p.outcome = "planned" /\ validation.tier = "release" => \A a \in Manifest.authorities : a.status = "current"
  <2> HIDE DEF checks, waived
  <2> QED BY <1>3 DEF PlanOutcome
<1>6. ASSUME NEW v \in Validators, Included(v, validation.tier)
      PROVE  Waiving(v, p.at) # {} \/ \E i \in DOMAIN p.checks : p.checks[i].validator = v
  <2>1. PICK i \in DOMAIN validators : v = validators[i]
    BY DEF Validators, Range
  <2>2. i \in selected
    BY <1>6, <2>1
  <2> HIDE DEF validators
  <2>3. CASE Waiving(v, at) = {}
    <3>1. i \in chosen
      BY <2>1, <2>2, <2>3
    <3> HIDE DEF chosen
    <3>2. i \in DOMAIN checks /\ checks[i].validator = v
      BY <2>1, <3>1
    <3> HIDE DEF checks
    <3> QED BY <1>3, <3>2
  <2> QED BY <1>3, <2>3
<1>7. ASSUME NEW i \in DOMAIN p.checks
      PROVE  /\ p.checks[i].validator \in Validators
             /\ p.checks[i].receipt # None => Vouches(p.checks[i].receipt, p.checks[i].validator, p.at)
  <2>1. i \in chosen /\ i \in DOMAIN validators
    BY <1>3, <1>7
  <2>2. validators[i] \in Validators
    BY <1>4, <2>1
  <2> HIDE DEF chosen, validators
  <2>3. p.checks[i].validator = validators[i] /\ p.checks[i].receipt = Reused(validators[i], at)
    BY <1>3, <2>1
  <2> HIDE DEF checks
  <2> QED BY <1>3, <2>2, <2>3, ReusedVouches
<1>8. PlanFacts(p)
  BY <1>3, <1>5, <1>6, <1>7 DEF PlanFacts
<1> QED BY <1>2, <1>8
-----------------------------------------------------------------------------
(* Steps.                                                                  *)

\* What is asked stays, and the manifest that is made of it.
LEMMA ManifestStays ==
    ASSUME validation' = validation
    PROVE  Manifest' = Manifest
<1>1. \A e : Admitted(e)' <=> Admitted(e)
  BY DEF Admitted
<1>2. \A e : FromEntry(e)' = FromEntry(e)
  BY DEF FromEntry
<1> DEFINE entries == validation.catalog.entries
           Kept == {j \in DOMAIN entries : Admitted(entries[j])}
<1>3. Kept' = Kept
  BY <1>1
<1>4. [i \in Kept |-> FromEntry(entries[i])]' = [i \in Kept |-> FromEntry(entries[i])]
  BY <1>2, <1>3
<1> QED BY <1>4 DEF Manifest

\* The scopes a target stands for stay with them.
LEMMA CandidatesStay ==
    ASSUME validation' = validation
    PROVE  Candidates' = Candidates
BY ManifestStays DEF Candidates

\* So do the selection of validators, the waivers and what a receipt vouches for.
LEMMA SelectionStays ==
    ASSUME validation' = validation
    PROVE  /\ Validators' = Validators
           /\ \A v, tier : Included(v, tier)' <=> Included(v, tier)
           /\ \A v, at : Waiving(v, at)' = Waiving(v, at)
           /\ \A x, v, at : Vouches(x, v, at)' <=> Vouches(x, v, at)
<1>1. Validators' = Validators
  BY ManifestStays DEF Validators
<1>2. ASSUME NEW v, NEW tier PROVE Included(v, tier)' <=> Included(v, tier)
  BY CandidatesStay DEF Included, TierIncluded, ScopeIncluded, CommandFits
<1>3. ASSUME NEW v, NEW at PROVE Waiving(v, at)' = Waiving(v, at)
  BY DEF Waiving
<1>4. ASSUME NEW x, NEW v, NEW at PROVE Vouches(x, v, at)' <=> Vouches(x, v, at)
  BY ManifestStays DEF Vouches
<1> QED BY <1>1, <1>2, <1>3, <1>4

\* A step that leaves what is asked alone leaves everything that is said of a plan alone.
LEMMA PlansStaySound ==
    ASSUME validation' = validation, NEW p, PlanFacts(p)
    PROVE  PlanFacts(p)'
BY SelectionStays, ManifestStays DEF PlanFacts

\* What was run stays permitted.
LEMMA PermissionStays ==
    ASSUME validation' = validation
    PROVE  \A a : Permitted(a)' <=> Permitted(a)
BY SelectionStays DEF Permitted

\* What has passed stays passed while nothing runs.
LEMMA PassedStays ==
    ASSUME attempts' = attempts
    PROVE  \A v : Passed(v)' <=> Passed(v)
BY DEF Passed, Runs

\* A command that has not passed is tried again without a change to what the others did.
LEMMA PassedIsKept ==
    ASSUME attempts \in Seq(AttemptRecord), NEW a \in AttemptRecord, attempts' = Append(attempts, a),
           NEW v, a.validator = v.id, ~Passed(v)
    PROVE  \A u : Passed(u) => Passed(u)'
<1> SUFFICES ASSUME NEW u, Passed(u) PROVE Passed(u)'
  OBVIOUS
<1>1. u.id # v.id
  BY DEF Passed, Runs
<1>2. DOMAIN attempts = 1..Len(attempts) /\ Len(attempts) \in Nat
  OBVIOUS
<1>3. DOMAIN attempts' = 1..Len(attempts) + 1
  BY <1>2
<1>4. \A n \in DOMAIN attempts : attempts'[n] = attempts[n]
  BY <1>2
<1>5. attempts'[Len(attempts) + 1] = a
  BY <1>2
<1>6. Runs(u)' = Runs(u)
  <2>1. \A n \in DOMAIN attempts' : n \in DOMAIN attempts \/ n = Len(attempts) + 1
    BY <1>2, <1>3
  <2>2. DOMAIN attempts \subseteq DOMAIN attempts'
    BY <1>2, <1>3
  <2> QED BY <1>1, <1>4, <1>5, <2>1, <2>2 DEF Runs
<1>7. \A n \in Runs(u) : attempts'[n] = attempts[n]
  BY <1>4 DEF Runs
<1> QED BY <1>6, <1>7 DEF Passed

\* What is asked, done and planned stays sound in a step that plans and runs nothing.
LEMMA RestStays ==
    ASSUME ValidationInv, UNCHANGED <<validation, plan, attempts>>
    PROVE  /\ validation' \in Validations /\ attempts' \in Seq(AttemptRecord)
           /\ \A n \in DOMAIN attempts' : Permitted(attempts[n])'
           /\ plan # None => PlanFacts(plan)'
<1>1. \A n \in DOMAIN attempts' : Permitted(attempts[n])'
  BY PermissionStays DEF ValidationInv
<1>2. plan # None => PlanFacts(plan)'
  <2>1. PICK p : p = plan
    OBVIOUS
  <2>2. plan # None => PlanFacts(p)
    BY <2>1 DEF ValidationInv, PlanInv
  <2>3. plan # None => PlanFacts(p)'
    BY <2>2, PlansStaySound
  <2>4. plan' = p
    BY <2>1
  <2> QED BY <2>3, <2>4 DEF PlanFacts
<1> QED BY <1>1, <1>2 DEF ValidationInv

\* A check is dealt with: a status that is just is added to those that are.
LEMMA Concluding ==
    ASSUME ValidationInv, NEW i, InTurn(i), NEW status, Conclude(i, status),
           status \in {"success", "failure", "blocked", "skipped_fresh_receipt"},
           status = "skipped_fresh_receipt" => plan.checks[i].receipt # None,
           status = "success" => Passed(plan.checks[i].validator)
    PROVE  ValidationInv'
<1>1. /\ plan # None /\ receipt = None /\ i \in DOMAIN plan.checks
      /\ UNCHANGED <<validation, now, plan, attempts, receipt>>
  BY DEF InTurn, Executing, Left, Conclude
<1>2. /\ DOMAIN results' = DOMAIN results \cup {i}
      /\ results'[i] = status /\ \A j \in DOMAIN results : j # i => results'[j] = results[j]
  BY DEF Conclude
<1>3. i \notin DOMAIN results
  BY DEF InTurn, Left
<1>4. PlanInv'
  BY <1>1, <1>2, RestStays DEF ValidationInv, PlanInv
<1>5. ResultInv'
  <2> SUFFICES ASSUME NEW j \in DOMAIN results' PROVE Just(j)'
    BY DEF ResultInv
  <2>1. CASE j = i
    BY <1>1, <1>2, <2>1, PassedStays DEF Just
  <2>2. CASE j # i
    <3>1. j \in DOMAIN results /\ results'[j] = results[j]
      BY <1>2, <2>2
    <3>2. Just(j)
      BY <3>1 DEF ValidationInv, ResultInv
    <3> QED BY <1>1, <3>1, <3>2, PassedStays DEF Just
  <2> QED BY <2>1, <2>2
<1>6. receipt' # "success"
  BY <1>1, ValidationAssumption
<1> QED BY <1>1, <1>4, <1>5, <1>6, RestStays DEF ValidationInv

\* A plan is built: it is sound, and nothing is dealt with yet.
LEMMA Building == ASSUME ValidationInv, BuildPlan PROVE ValidationInv'
<1>1. plan = None /\ plan' = PlanAt(now) /\ UNCHANGED <<validation, now, attempts, results, receipt>>
  BY DEF BuildPlan
<1>2. DOMAIN results = {} /\ receipt = None
  BY <1>1 DEF ValidationInv, PlanInv
<1>3. PICK p : p = PlanAt(now)
  OBVIOUS
<1>4. PlanFacts(p)'
  BY <1>1, <1>3, PlanIsSound, PlansStaySound DEF ValidationInv
<1>5. PlanInv'
  <2>1. plan' = p
    BY <1>1, <1>3
  <2>2. PlanFacts(plan)'
    BY <1>4, <2>1 DEF PlanFacts
  <2>3. DOMAIN results' = {}
    BY <1>1, <1>2
  <2> QED BY <2>2, <2>3 DEF PlanInv
<1>6. ResultInv'
  BY <1>1, <1>2 DEF ResultInv
<1>7. \A n \in DOMAIN attempts' : Permitted(attempts[n])'
  BY <1>1, PermissionStays DEF ValidationInv
<1>8. receipt' = None /\ receipt' # "success"
  BY <1>1, <1>2, ValidationAssumption
<1> QED BY <1>1, <1>5, <1>6, <1>7, <1>8 DEF ValidationInv

\* What the safety rules let run is approved where it must be, and is handed no secret by a name
\* that nobody listed.
LEMMA RunningIsPermitted ==
    ASSUME ValidationInv, NEW i, NEW v, Running(i, v)
    PROVE  v \in Validators /\ \A a : a.validator = v.id => Permitted(a)
<1>1. plan # None /\ i \in DOMAIN plan.checks /\ plan.checks[i].validator = v
  BY DEF Running, InTurn, Executing, Left
<1>2. v \in Validators
  BY <1>1 DEF ValidationInv, PlanInv, PlanFacts
<1>3. v.policy.class \in ApprovalRequired => v.policy.approved
  BY DEF Running, MayRun
<1>4. (validation.supplied \cup v.environment) \cap Secrets \subseteq v.policy.allowed
  BY DEF Running, MayRun, VariableAllowed
<1>5. validation.catalog # None =>
        \E e \in Range(validation.catalog.entries) : e.id = v.id /\ ~e.mutates /\ validation.profile \in e.profiles
  BY <1>2, EntriesAreAdmitted
<1> QED BY <1>2, <1>3, <1>4, <1>5 DEF Permitted

\* A command ends: it was permitted, and takes no success back.
LEMMA Attempting == ASSUME ValidationInv, NEW i, NEW v, Attempt(i, v) PROVE ValidationInv'
<1>1. /\ Running(i, v) /\ ~Passed(v)
      /\ UNCHANGED <<validation, now, plan, results, receipt>>
  BY DEF Attempt
<1>2. plan # None /\ receipt = None
  BY <1>1 DEF Running, InTurn, Executing
<1>3. v.id \in STRING
  BY <1>1, RunningIsPermitted, ValidatorsAreTyped DEF ValidationInv
<1>4. PICK a \in AttemptRecord : a.validator = v.id /\ attempts' = Append(attempts, a)
  <2>1. PICK end \in Ends, output \in Outputs :
          attempts' = Append(attempts, [validator |-> v.id, end |-> end, output |-> output])
    BY DEF Attempt, Ends
  <2> DEFINE b == [validator |-> v.id, end |-> end, output |-> output]
  <2>2. b \in AttemptRecord /\ b.validator = v.id
    BY <1>3 DEF AttemptRecord
  <2> QED BY <2>1, <2>2
<1>5. attempts \in Seq(AttemptRecord)
  BY DEF ValidationInv
<1>6. attempts' \in Seq(AttemptRecord)
  BY <1>4, <1>5
<1>7. \A n \in DOMAIN attempts' : Permitted(attempts[n])'
  <2> SUFFICES ASSUME NEW n \in DOMAIN attempts' PROVE Permitted(attempts[n])'
    OBVIOUS
  <2>1. PICK b : b = attempts'[n]
    OBVIOUS
  <2>2. b = a \/ (n \in DOMAIN attempts /\ b = attempts[n])
    BY <1>4, <1>5, <2>1
  <2>3. Permitted(b)
    BY <1>1, <1>4, <2>2, RunningIsPermitted DEF ValidationInv
  <2>4. Permitted(b)'
    BY <1>1, <2>3, PermissionStays
  <2> QED BY <2>1, <2>4 DEF Permitted
<1>8. PlanInv'
  <2>1. PICK p : p = plan
    OBVIOUS
  <2>2. PlanFacts(p)
    BY <1>2, <2>1 DEF ValidationInv, PlanInv
  <2>3. PlanFacts(p)'
    BY <1>1, <2>2, PlansStaySound
  <2>4. plan' = p
    BY <1>1, <2>1
  <2>5. PlanFacts(plan)'
    BY <2>3, <2>4 DEF PlanFacts
  <2> QED BY <1>1, <1>2, <2>5 DEF ValidationInv, PlanInv
<1>9. ResultInv'
  <2>1. \A u : Passed(u) => Passed(u)'
    BY <1>1, <1>4, <1>5, PassedIsKept
  <2> SUFFICES ASSUME NEW j \in DOMAIN results' PROVE Just(j)'
    BY DEF ResultInv
  <2>2. Just(j) /\ results'[j] = results[j] /\ plan' = plan
    BY <1>1 DEF ValidationInv, ResultInv
  <2>3. PICK u : u = plan.checks[j].validator
    OBVIOUS
  <2>4. results[j] = "success" => Passed(u)
    BY <2>2, <2>3 DEF Just
  <2>5. results[j] = "success" => Passed(u)'
    BY <2>1, <2>4
  <2>6. results'[j] = "success" => Passed(plan.checks[j].validator)'
    BY <2>2, <2>3, <2>5 DEF Passed, Runs
  <2> QED BY <2>2, <2>6 DEF Just
<1>10. receipt' = None /\ receipt' # "success"
  BY <1>1, <1>2, ValidationAssumption
<1> QED BY <1>1, <1>2, <1>6, <1>7, <1>8, <1>9, <1>10 DEF ValidationInv

\* The outcome is recorded: it is success only of a plan that is done.
LEMMA Recording == ASSUME ValidationInv, Record PROVE ValidationInv'
<1>1. /\ plan # None /\ ~Executing /\ receipt = None /\ receipt' = Outcome
      /\ UNCHANGED <<validation, now, plan, attempts, results>>
  BY DEF Record
<1>2. PlanInv' /\ ResultInv'
  <2>1. PlanInv'
    BY <1>1, RestStays DEF ValidationInv, PlanInv
  <2>2. ASSUME NEW j \in DOMAIN results' PROVE Just(j)'
    BY <1>1, <2>2, PassedStays DEF ValidationInv, ResultInv, Just
  <2> QED BY <2>1, <2>2 DEF ResultInv
<1>3. ASSUME Outcome = "success" PROVE Done
  <2>1. plan.outcome = "planned" /\ DOMAIN results # {}
    BY <1>3 DEF Outcome
  <2>2. ~\E i \in DOMAIN results : plan.checks[i].validator.required /\ results[i] \in {"failure", "blocked"}
    BY <1>3, <2>1 DEF Outcome
  <2>3. "blocked" \notin Range(results)
    BY <1>3, <2>1, <2>2 DEF Outcome
  <2>4. Left = {}
    BY <1>1, <2>1 DEF Executing
  <2> QED BY <1>1, <2>1, <2>2, <2>3, <2>4 DEF Done, Range
<1>4. receipt' = "success" => Done'
  BY <1>1, <1>3 DEF Done, Left
<1> QED BY <1>1, <1>2, <1>4, RestStays DEF ValidationInv

\* Time passes, or nothing happens.
LEMMA Waiting ==
    ASSUME ValidationInv, now' \in Nat, UNCHANGED <<validation, plan, attempts, results, receipt>>
    PROVE  ValidationInv'
<1>1. PlanInv'
  BY RestStays DEF ValidationInv, PlanInv
<1>2. ResultInv'
  <2> SUFFICES ASSUME NEW j \in DOMAIN results' PROVE Just(j)'
    BY DEF ResultInv
  <2> QED BY PassedStays DEF ValidationInv, ResultInv, Just
<1>3. receipt' = "success" => Done'
  BY DEF ValidationInv, Done, Left
<1> QED BY <1>1, <1>2, <1>3, RestStays DEF ValidationInv

\* Every step keeps the invariant.
LEMMA ValidationInvIsKept ==
    ASSUME ValidationInv, [ValidationNext]_validationVars
    PROVE  ValidationInv'
<1>1. CASE BuildPlan
  BY <1>1, Building
<1>2. CASE Record
  BY <1>2, Recording
<1>3. CASE Pass
  <2>1. now' \in Nat
    BY <1>3 DEF Pass, ValidationInv
  <2> QED BY <1>3, <2>1, Waiting DEF Pass
<1>4. ASSUME NEW i \in DOMAIN plan.checks, NEW v, v = plan.checks[i].validator,
             Skip(i) \/ Refuse(i) \/ Attempt(i, v) \/ Finish(i, v)
      PROVE  ValidationInv'
  <2>1. CASE Skip(i)
    BY <2>1, Concluding DEF Skip
  <2>2. CASE Refuse(i)
    BY <2>2, Concluding DEF Refuse
  <2>3. CASE Attempt(i, v)
    BY <2>3, Attempting
  <2>4. CASE Finish(i, v)
    <3>1. PICK status \in {"success", "failure"} :
            Conclude(i, status) /\ (status = "success" => Passed(v))
      BY <2>4 DEF Finish
    <3>2. InTurn(i)
      BY <2>4 DEF Finish, Running
    <3> QED BY <1>4, <3>1, <3>2, Concluding
  <2> QED BY <1>4, <2>1, <2>2, <2>3, <2>4
<1>5. CASE UNCHANGED validationVars
  <2>1. now' \in Nat
    BY <1>5 DEF validationVars, ValidationInv
  <2> QED BY <1>5, <2>1, Waiting DEF validationVars
<1> QED BY <1>1, <1>2, <1>3, <1>4, <1>5 DEF ValidationNext

\* The invariant holds before anything is planned.
LEMMA ValidationInvInitially == ASSUME ValidationInit PROVE ValidationInv
<1>1. DOMAIN results = {} /\ attempts = <<>>
  BY DEF ValidationInit
<1>2. DOMAIN attempts = {} /\ attempts \in Seq(AttemptRecord)
  BY <1>1
<1> QED BY <1>1, <1>2, ValidationAssumption DEF ValidationInit, ValidationInv, PlanInv, ResultInv
-----------------------------------------------------------------------------
(* What follows.                                                           *)

\* In a plan that is done each selected validator is waived, or has a check whose result stands.
LEMMA SuccessIsAnswered ==
    ASSUME ValidationInv, receipt = "success", NEW v \in Validators, Included(v, validation.tier)
    PROVE  Answered(v)
<1>1. Done /\ PlanFacts(plan) /\ DOMAIN results = DOMAIN plan.checks
  BY DEF ValidationInv, PlanInv, Done, Left
<1>2. CASE Waiving(v, plan.at) # {}
  BY <1>2 DEF Answered
<1>3. CASE Waiving(v, plan.at) = {}
  <2>1. PICK i \in DOMAIN results : plan.checks[i].validator = v
    BY <1>1, <1>3 DEF PlanFacts
  <2>2. results[i] # "blocked" /\ (v.required => results[i] # "failure")
    BY <1>1, <2>1 DEF Done
  <2>3. Just(i)
    BY DEF ValidationInv, ResultInv
  <2>4. results[i] = "skipped_fresh_receipt" => Vouches(plan.checks[i].receipt, v, plan.at)
    BY <1>1, <2>1, <2>3 DEF Just, PlanFacts
  <2>5. v.required /\ results[i] # "skipped_fresh_receipt" => Passed(v)
    BY <2>1, <2>2, <2>3 DEF Just
  <2> QED BY <2>1, <2>2, <2>4, <2>5 DEF Answered
<1> QED BY <1>2, <1>3

\* For any catalog or manifest, target, receipts and waivers, and whatever the commands do: a
\* validation says success only when every validator that the tier, or a lower one, selects is
\* answered for, and no command runs that the catalog or its policy forbids.
THEOREM SuccessCorrect == ValidationSpec => []SuccessIsEarned
<1>1. ValidationInit => ValidationInv
  BY ValidationInvInitially
<1>2. ValidationInv /\ [ValidationNext]_validationVars => ValidationInv'
  BY ValidationInvIsKept
<1>3. ValidationInv => SuccessIsEarned
  <2> SUFFICES ASSUME ValidationInv PROVE SuccessIsEarned
    OBVIOUS
  <2>1. \A a \in Range(attempts) : Permitted(a)
    BY DEF ValidationInv, Range
  <2>2. ASSUME receipt = "success"
        PROVE  /\ DOMAIN results # {}
               /\ validation.tier = "release" => \A a \in Manifest.authorities : a.status = "current"
    BY <2>2 DEF ValidationInv, Done, PlanInv, PlanFacts
  <2>3. ASSUME receipt = "success", NEW tier \in DOMAIN Rank, NEW v \in Validators,
               Rank[tier] <= Rank[validation.tier], Included(v, tier)
        PROVE  Answered(v)
    <3>1. Included(v, validation.tier)
      BY <2>3, TiersAreCumulative DEF ValidationInv
    <3> QED BY <2>3, <3>1, SuccessIsAnswered
  <2> QED BY <2>1, <2>2, <2>3 DEF SuccessIsEarned
<1> QED BY <1>1, <1>2, <1>3, PTL DEF ValidationSpec
-----------------------------------------------------------------------------
(* GovernanceHistory.  The list of a set of rows is in order since each    *)
(* row has as many before it as there are; a statement that returned less  *)
(* than there was returned a whole scan, all of it ahead of what it left;  *)
(* and a page that goes past one of those has used its size up on others,  *)
(* so the rest of that scan lies in the seconds the page began and ended.  *)

\* Counting what comes before each element numbers a finite set in a strict total order.
LEMMA RanksAreNumbers ==
    ASSUME NEW S, IsFiniteSet(S), NEW before \in SUBSET (S \X S),
           \A x \in S : <<x, x>> \notin before,
           \A x, y, z \in S : <<x, y>> \in before /\ <<y, z>> \in before => <<x, z>> \in before,
           \A x, y \in S : x = y \/ <<x, y>> \in before \/ <<y, x>> \in before,
           NEW rank, rank = [x \in S |-> Cardinality({y \in S : <<y, x>> \in before})]
    PROVE  /\ rank \in Bijection(S, 0..(Cardinality(S) - 1))
           /\ \A x, y \in S : <<x, y>> \in before <=> rank[x] < rank[y]
<1> DEFINE Below(x) == {y \in S : <<y, x>> \in before}
<1>1. Cardinality(S) \in Nat BY FS_CardinalityType
<1>2. ASSUME NEW x \in S PROVE /\ IsFiniteSet(Below(x)) /\ rank[x] = Cardinality(Below(x))
                               /\ rank[x] \in 0..(Cardinality(S) - 1) /\ rank[x] \in Nat
  <2>1. Below(x) \in SUBSET S /\ x \notin Below(x) OBVIOUS
  <2>2. IsFiniteSet(Below(x)) /\ Cardinality(Below(x)) <= Cardinality(S) /\ Cardinality(Below(x)) # Cardinality(S)
    <3> HIDE DEF Below
    <3> QED BY <2>1, FS_Subset
  <2>3. Cardinality(Below(x)) \in Nat BY <2>2, FS_CardinalityType
  <2>4. rank[x] = Cardinality(Below(x)) OBVIOUS
  <2> HIDE DEF Below
  <2> QED BY <1>1, <2>2, <2>3, <2>4
<1>3. ASSUME NEW x \in S, NEW y \in S, <<x, y>> \in before PROVE rank[x] < rank[y]
  <2>1. Below(x) \in SUBSET Below(y) /\ x \in Below(y) /\ x \notin Below(x) BY <1>3
  <2>2. IsFiniteSet(Below(y)) BY <1>2
  <2>3. Cardinality(Below(x)) <= Cardinality(Below(y)) /\ Cardinality(Below(x)) # Cardinality(Below(y))
    <3> HIDE DEF Below
    <3> QED BY <2>1, <2>2, FS_Subset
  <2>4. rank[x] \in Nat /\ rank[y] \in Nat BY <1>2
  <2>5. rank[x] = Cardinality(Below(x)) /\ rank[y] = Cardinality(Below(y)) BY <1>2
  <2> HIDE DEF Below
  <2> QED BY <2>3, <2>4, <2>5
<1>4. \A x \in S : rank[x] \in Nat BY <1>2
<1>5. \A x, y \in S : <<x, y>> \in before <=> rank[x] < rank[y]
  <2> SUFFICES ASSUME NEW x \in S, NEW y \in S, rank[x] < rank[y] PROVE <<x, y>> \in before BY <1>3
  <2>1. ~(rank[y] < rank[x]) /\ rank[x] # rank[y] BY <1>4
  <2>2. x # y BY <2>1
  <2>3. <<y, x>> \notin before BY <1>3, <2>1
  <2> QED BY <2>2, <2>3
<1>6. rank \in Injection(S, 0..(Cardinality(S) - 1))
  <2>1. rank \in [S -> 0..(Cardinality(S) - 1)] BY <1>2
  <2>2. ASSUME NEW x \in S, NEW y \in S, rank[x] = rank[y] PROVE x = y
    <3>1. ~(rank[x] < rank[y]) /\ ~(rank[y] < rank[x]) BY <1>4, <2>2
    <3> QED BY <1>5, <3>1
  <2> QED BY <2>1, <2>2 DEF Injection, IsInjective
<1>7. IsFiniteSet(0..(Cardinality(S) - 1)) /\ Cardinality(0..(Cardinality(S) - 1)) = Cardinality(S)
  <2>1. PICK c \in Nat : c = Cardinality(S) BY <1>1
  <2>2. IsFiniteSet(0..(c - 1)) /\ Cardinality(0..(c - 1)) = IF 0 > c - 1 THEN 0 ELSE (c - 1) - 0 + 1
    BY FS_Interval
  <2>3. Cardinality(0..(c - 1)) = c BY <2>2
  <2> QED BY <2>1, <2>2, <2>3
<1>8. rank \in Surjection(S, 0..(Cardinality(S) - 1))
  BY <1>6, <1>7, FS_Injection
<1> QED BY <1>5, <1>6, <1>8 DEF Bijection

\* As many elements have a number below n as there are such numbers.
LEMMA LowRanks ==
    ASSUME NEW S, IsFiniteSet(S), NEW rank \in Bijection(S, 0..(Cardinality(S) - 1)),
           NEW n \in Nat, n <= Cardinality(S)
    PROVE  Cardinality({x \in S : rank[x] < n}) = n
<1> DEFINE T == {x \in S : rank[x] < n}
           low == [x \in T |-> rank[x]]
<1>1. Cardinality(S) \in Nat BY FS_CardinalityType
<1>2. /\ rank \in [S -> 0..(Cardinality(S) - 1)] /\ \A x, y \in S : rank[x] = rank[y] => x = y
      /\ \A m \in 0..(Cardinality(S) - 1) : \E x \in S : rank[x] = m
  BY DEF Bijection, Injection, Surjection, IsInjective
<1>3. low \in [T -> 0..(n - 1)]
  <2> SUFFICES ASSUME NEW x \in T PROVE rank[x] \in 0..(n - 1) OBVIOUS
  <2>1. rank[x] \in 0..(Cardinality(S) - 1) /\ rank[x] < n BY <1>2
  <2> QED BY <1>1, <2>1
<1>4. \A x, y \in T : low[x] = low[y] => x = y BY <1>2
<1>5. \A m \in 0..(n - 1) : \E x \in T : low[x] = m
  <2> SUFFICES ASSUME NEW m \in 0..(n - 1) PROVE \E x \in T : low[x] = m OBVIOUS
  <2>1. m \in 0..(Cardinality(S) - 1) /\ m < n BY <1>1
  <2>2. PICK x \in S : rank[x] = m BY <1>2, <2>1
  <2> QED BY <2>1, <2>2
<1>6. IsFiniteSet(T)
  <2>1. T \in SUBSET S OBVIOUS
  <2> HIDE DEF T
  <2> QED BY <2>1, FS_Subset
<1> HIDE DEF T, low
<1>7. ExistsBijection(T, 0..(n - 1))
  BY <1>3, <1>4, <1>5 DEF ExistsBijection, Bijection, Injection, Surjection, IsInjective
<1>8. Cardinality(0..(n - 1)) = Cardinality(T) BY <1>6, <1>7, FS_Bijection
<1>9. Cardinality(0..(n - 1)) = n BY FS_Interval
<1> QED BY <1>8, <1>9 DEF T

\* A row is made of numbers.
LEMMA RowsAreNumbered ==
    ASSUME NEW r \in Rows
    PROVE  r.source \in Sources /\ r.second \in Nat /\ r.fraction \in Nat /\ r.id \in Nat /\ r.place \in Nat
BY HistoryAssumption

\* The order of the list is strict and total.
LEMMA ListIsOrdered ==
    /\ \A r \in Rows : ~ShownBefore(r, r)
    /\ \A r, s, t \in Rows : ShownBefore(r, s) /\ ShownBefore(s, t) => ShownBefore(r, t)
    /\ \A r, t \in Rows : r = t \/ ShownBefore(r, t) \/ ShownBefore(t, r)
<1>1. \A r \in Rows : ~ShownBefore(r, r)
  BY RowsAreNumbered DEF ShownBefore, TextLater, SameInstant
<1>2. \A r, s, t \in Rows : ShownBefore(r, s) /\ ShownBefore(s, t) => ShownBefore(r, t)
  BY RowsAreNumbered DEF ShownBefore, TextLater, SameInstant
<1>3. \A r, t \in Rows : r = t \/ ShownBefore(r, t) \/ ShownBefore(t, r)
  <2> SUFFICES ASSUME NEW r \in Rows, NEW t \in Rows, ~ShownBefore(r, t), ~ShownBefore(t, r) PROVE r = t OBVIOUS
  <2>1. SameInstant(r, t) /\ r.place = t.place
    BY RowsAreNumbered DEF ShownBefore, TextLater, SameInstant
  <2> QED BY <2>1, HistoryAssumption
<1> QED BY <1>1, <1>2, <1>3

\* So is the order of a table.
LEMMA TablesAreOrdered ==
    ASSUME NEW source
    PROVE  LET own == {r \in Rows : r.source = source} IN
           /\ \A r \in own : ~StoredAfter(r, r)
           /\ \A r, s, t \in own : StoredAfter(r, s) /\ StoredAfter(s, t) => StoredAfter(r, t)
           /\ \A r, t \in own : r = t \/ StoredAfter(r, t) \/ StoredAfter(t, r)
<1> DEFINE own == {r \in Rows : r.source = source}
<1>1. \A r \in own : ~StoredAfter(r, r)
  BY RowsAreNumbered DEF StoredAfter, Later, SameInstant
<1>2. \A r, s, t \in own : StoredAfter(r, s) /\ StoredAfter(s, t) => StoredAfter(r, t)
  BY RowsAreNumbered DEF StoredAfter, Later, SameInstant
<1>3. \A r, t \in own : r = t \/ StoredAfter(r, t) \/ StoredAfter(t, r)
  <2> SUFFICES ASSUME NEW r \in own, NEW t \in own, ~StoredAfter(r, t), ~StoredAfter(t, r) PROVE r = t OBVIOUS
  <2>1. SameInstant(r, t) /\ r.id = t.id
    BY RowsAreNumbered DEF StoredAfter, Later, SameInstant
  <2> QED BY <2>1, HistoryAssumption
<1> QED BY <1>1, <1>2, <1>3

\* The list of a finite set has each of its rows once, in the order of the list.
LEMMA ListedInOrder ==
    ASSUME NEW S \in SUBSET Rows, IsFiniteSet(S)
    PROVE  /\ InOrder(S) \in Seq(S) /\ Len(InOrder(S)) = Cardinality(S) /\ Cardinality(S) \in Nat
           /\ \A i, j \in 1..Cardinality(S) : i < j => ShownBefore(InOrder(S)[i], InOrder(S)[j])
           /\ \A r \in S : \E i \in 1..Cardinality(S) : InOrder(S)[i] = r
<1> DEFINE before == {p \in S \X S : ShownBefore(p[1], p[2])}
           rank == [r \in S |-> Cardinality({t \in S : <<t, r>> \in before})]
           size == Cardinality(S)
<1>1. size \in Nat BY FS_CardinalityType
<1>2. \A r, t \in S : <<r, t>> \in before <=> ShownBefore(r, t) OBVIOUS
<1>3. before \in SUBSET (S \X S) OBVIOUS
<1>4. /\ \A x \in S : <<x, x>> \notin before
      /\ \A x, y, z \in S : <<x, y>> \in before /\ <<y, z>> \in before => <<x, z>> \in before
      /\ \A x, y \in S : x = y \/ <<x, y>> \in before \/ <<y, x>> \in before
  <2> HIDE DEF before
  <2> QED BY <1>2, ListIsOrdered
<1>5. \A r \in S : rank[r] = Cardinality({t \in S : ShownBefore(t, r)})
  <2> SUFFICES ASSUME NEW r \in S PROVE {t \in S : <<t, r>> \in before} = {t \in S : ShownBefore(t, r)} OBVIOUS
  <2> QED BY <1>2
<1>6. /\ rank \in Bijection(S, 0..(size - 1))
      /\ \A x, y \in S : <<x, y>> \in before <=> rank[x] < rank[y]
  <2>1. PICK ranked : ranked = rank OBVIOUS
  <2> HIDE DEF before
  <2>2. ranked = [r \in S |-> Cardinality({t \in S : <<t, r>> \in before})] BY <2>1
  <2>3. /\ ranked \in Bijection(S, 0..(Cardinality(S) - 1))
        /\ \A x, y \in S : <<x, y>> \in before <=> ranked[x] < ranked[y]
    BY <1>3, <1>4, <2>2, RanksAreNumbers
  <2> HIDE DEF rank
  <2> QED BY <2>1, <2>3
<1> HIDE DEF rank, before
<1>7. /\ \A x, y \in S : rank[x] = rank[y] => x = y
      /\ \A m \in 0..(size - 1) : \E x \in S : rank[x] = m
      /\ \A x \in S : rank[x] \in 0..(size - 1)
  BY <1>6 DEF Bijection, Injection, Surjection, IsInjective
<1>8. InOrder(S) = [n \in 1..size |-> CHOOSE r \in S : Cardinality({t \in S : ShownBefore(t, r)}) = n - 1] BY DEF InOrder
<1> HIDE DEF size
<1>9. ASSUME NEW n \in 1..size PROVE InOrder(S)[n] \in S /\ rank[InOrder(S)[n]] = n - 1
  <2>1. n - 1 \in 0..(size - 1) BY <1>1
  <2>2. \E r \in S : Cardinality({t \in S : ShownBefore(t, r)}) = n - 1 BY <1>5, <1>7, <2>1
  <2>3. PICK x : x = CHOOSE r \in S : Cardinality({t \in S : ShownBefore(t, r)}) = n - 1 OBVIOUS
  <2>4. x \in S /\ Cardinality({t \in S : ShownBefore(t, x)}) = n - 1 BY <2>2, <2>3
  <2>5. InOrder(S)[n] = x BY <1>8, <2>3
  <2> QED BY <1>5, <2>4, <2>5
<1>10. InOrder(S) \in Seq(S) /\ Len(InOrder(S)) = size
  <2>1. InOrder(S) \in [1..size -> S] BY <1>8, <1>9
  <2> QED BY <1>1, <2>1
<1>11. ASSUME NEW i \in 1..size, NEW j \in 1..size, i < j PROVE ShownBefore(InOrder(S)[i], InOrder(S)[j])
  <2>1. rank[InOrder(S)[i]] < rank[InOrder(S)[j]] BY <1>1, <1>9, <1>11
  <2> QED BY <1>2, <1>6, <1>9, <2>1
<1>12. ASSUME NEW r \in S PROVE \E i \in 1..size : InOrder(S)[i] = r
  <2>1. PICK i \in 1..size : rank[r] = i - 1
    <3>1. rank[r] \in 0..(size - 1) BY <1>7
    <3>2. rank[r] + 1 \in 1..size BY <1>1, <3>1
    <3>3. rank[r] = (rank[r] + 1) - 1 BY <3>1
    <3> QED BY <3>2, <3>3
  <2>2. rank[InOrder(S)[i]] = rank[r] /\ InOrder(S)[i] \in S BY <1>9, <2>1
  <2> QED BY <1>7, <2>2
<1> QED BY <1>1, <1>10, <1>11, <1>12 DEF size

\* A row that a statement had no room for comes after a whole scan of its source.
LEMMA ScannedBefore ==
    ASSUME NEW s, NEW cursor, table \in SUBSET Rows, IsFiniteSet(table),
           NEW r \in Ranged(s, cursor), r \notin Scanned(s, cursor)
    PROVE  /\ Cardinality(Scanned(s, cursor)) = Scan /\ Truncated(s, cursor)
           /\ \A t \in Scanned(s, cursor) : StoredAfter(t, r)
<1> DEFINE S == Ranged(s, cursor)
           before == {p \in S \X S : StoredAfter(p[1], p[2])}
           rank == [x \in S |-> Cardinality({y \in S : <<y, x>> \in before})]
<1>1. S \in SUBSET table BY DEF Ranged
<1>2. IsFiniteSet(S) /\ Cardinality(S) \in Nat
  <2> HIDE DEF S
  <2> QED BY <1>1, FS_Subset, FS_CardinalityType
<1>3. S \subseteq {x \in Rows : x.source = s} BY DEF Ranged
<1> HIDE DEF S
<1>4. \A x, y \in S : <<x, y>> \in before <=> StoredAfter(x, y) OBVIOUS
<1>5. before \in SUBSET (S \X S) OBVIOUS
<1>6. /\ \A x \in S : <<x, x>> \notin before
      /\ \A x, y, z \in S : <<x, y>> \in before /\ <<y, z>> \in before => <<x, z>> \in before
      /\ \A x, y \in S : x = y \/ <<x, y>> \in before \/ <<y, x>> \in before
  <2> HIDE DEF before
  <2> QED BY <1>3, <1>4, TablesAreOrdered
<1>7. \A x \in S : rank[x] = Cardinality({y \in S : StoredAfter(y, x)})
  <2> SUFFICES ASSUME NEW x \in S PROVE {y \in S : <<y, x>> \in before} = {y \in S : StoredAfter(y, x)} OBVIOUS
  <2> QED BY <1>4
<1>8. /\ rank \in Bijection(S, 0..(Cardinality(S) - 1))
      /\ \A x, y \in S : <<x, y>> \in before <=> rank[x] < rank[y]
  <2>1. PICK ranked : ranked = rank OBVIOUS
  <2> HIDE DEF before
  <2>2. ranked = [x \in S |-> Cardinality({y \in S : <<y, x>> \in before})] BY <2>1
  <2>3. /\ ranked \in Bijection(S, 0..(Cardinality(S) - 1))
        /\ \A x, y \in S : <<x, y>> \in before <=> ranked[x] < ranked[y]
    BY <1>2, <1>5, <1>6, <2>2, RanksAreNumbers
  <2> HIDE DEF rank
  <2> QED BY <2>1, <2>3
<1> HIDE DEF rank, before
<1>9. \A x \in S : rank[x] \in 0..(Cardinality(S) - 1) BY <1>8 DEF Bijection, Injection
<1>10. Scanned(s, cursor) = {x \in S : rank[x] < Scan} BY <1>7 DEF Scanned, S
<1>11. r \in S /\ Scan \in Nat BY HistoryAssumption DEF S
<1>12. ~(rank[r] < Scan) BY <1>10, <1>11
<1>13. Scan < Cardinality(S) BY <1>2, <1>9, <1>11, <1>12
<1>14. Cardinality(Scanned(s, cursor)) = Scan BY <1>2, <1>8, <1>10, <1>11, <1>13, LowRanks
<1>15. \A t \in Scanned(s, cursor) : StoredAfter(t, r)
  <2> SUFFICES ASSUME NEW t \in S, rank[t] < Scan PROVE StoredAfter(t, r) BY <1>10
  <2>1. rank[t] < rank[r] BY <1>2, <1>9, <1>11, <1>12
  <2> QED BY <1>4, <1>8, <1>11, <2>1
<1> QED BY <1>13, <1>14, <1>15 DEF Truncated, S

\* A page looks at one record at least if there is one, and without a filter at no more than it shows.
LEMMA ExaminedStops ==
    ASSUME NEW records \in Seq(Rows), NEW filter, NEW limit \in 1..MaxPage
    PROVE  LET n == Examined(records, filter, limit) IN
           /\ n \in 0..Len(records)
           /\ n = 0 => Len(records) = 0
           /\ (\A r \in Rows : Matches(r, filter)) => n <= limit
<1> DEFINE Full(n) == n = Scan \/ Cardinality(Matching(records, n, filter)) = limit
           Stops(n) == (Full(n) \/ n = Len(records)) /\ \A m \in 0..(n - 1) : ~Full(m)
           H == {n \in 0..Len(records) : \A m \in 0..(n - 1) : ~Full(m) /\ m # Len(records)}
<1>1. Len(records) \in Nat /\ limit \in Nat /\ limit > 0 /\ Scan > 0 BY HistoryAssumption
<1>2. \E n \in 0..Len(records) : Stops(n)
  <2> HIDE DEF Full
  <2>1. 0 \in H BY <1>1
  <2>2. H \in SUBSET Nat /\ H \in SUBSET (0..Len(records)) OBVIOUS
  <2>3. IsFiniteSet(H)
    <3> HIDE DEF H
    <3>1. IsFiniteSet(0..Len(records)) BY <1>1, FS_Interval
    <3> QED BY <2>2, <3>1, FS_Subset
  <2>4. PICK n \in H : \A m \in H : m <= n
    <3> HIDE DEF H
    <3> QED BY <2>1, <2>2, <2>3, MaximumOfFinite
  <2>5. ASSUME ~Full(n), n # Len(records) PROVE FALSE
    <3>1. n \in 0..Len(records) /\ n + 1 \in 0..Len(records) BY <1>1, <2>5
    <3>2. \A m \in 0..((n + 1) - 1) : m = n \/ m \in 0..(n - 1) BY <3>1
    <3>3. n + 1 \in H BY <2>5, <3>1, <3>2
    <3> QED BY <2>4, <3>1, <3>3
  <2> QED BY <2>5
<1>3. Examined(records, filter, limit) = CHOOSE n \in 0..Len(records) : Stops(n) BY DEF Examined
<1>4. PICK n : n = Examined(records, filter, limit) OBVIOUS
<1>5. n \in 0..Len(records) /\ Stops(n)
  <2> HIDE DEF Stops
  <2> QED BY <1>2, <1>3, <1>4
<1>6. ASSUME n = 0, Len(records) # 0 PROVE FALSE
  <2>1. Full(0) BY <1>5, <1>6
  <2>2. Matching(records, 0, filter) = {} BY DEF Matching
  <2> QED BY <1>1, <2>1, <2>2, FS_EmptySet
<1>7. ASSUME \A r \in Rows : Matches(r, filter), ~(n <= limit) PROVE FALSE
  <2>1. limit \in 0..(n - 1) /\ limit <= Len(records) BY <1>1, <1>5, <1>7
  <2>2. Matching(records, limit, filter) = 1..limit
    <3>1. \A i \in 1..limit : records[i] \in Rows BY <1>1, <2>1
    <3> QED BY <1>7, <3>1 DEF Matching
  <2>3. Cardinality(1..limit) = limit BY <1>1, FS_Interval
  <2> QED BY <1>5, <2>1, <2>2, <2>3
<1> QED BY <1>4, <1>5, <1>6, <1>7

\* The first k of anything are at most k.
LEMMA FirstFew ==
    ASSUME NEW f, NEW k \in Nat
    PROVE  LET T == {f[i] : i \in 1..k} IN IsFiniteSet(T) /\ Cardinality(T) \in Nat /\ Cardinality(T) <= k
<1> DEFINE T == {f[i] : i \in 1..k}
           g == [i \in 1..k |-> f[i]]
<1>1. g \in Surjection(1..k, T) BY DEF Surjection
<1> HIDE DEF g, T
<1>2. IsFiniteSet(1..k) /\ Cardinality(1..k) = k BY FS_Interval
<1>3. IsFiniteSet(T) /\ Cardinality(T) <= k BY <1>1, <1>2, FS_Surjection
<1> QED BY <1>3, FS_CardinalityType DEF T

\* What the sources have to show after a cursor.
Projections(sources, cursor) == UNION {Projected(s, cursor) : s \in sources}

\* What a page is made of are rows of the table.
LEMMA MergedRows ==
    ASSUME table \in SUBSET Rows, IsFiniteSet(table), NEW sources, NEW cursor, NEW S,
           S = Projections(sources, cursor)
    PROVE  /\ S \in SUBSET Rows /\ S \subseteq table /\ IsFiniteSet(S) /\ Merged(sources, cursor) = InOrder(S)
           /\ \A r \in S : /\ r.source \in sources /\ r \in Projected(r.source, cursor)
                           /\ r \in Scanned(r.source, cursor) /\ (cursor # None => ShownBefore(cursor, r))
<1>1. \A s : Scanned(s, cursor) \subseteq {r \in table : r.source = s} BY DEF Scanned, Ranged
<1>2. ASSUME NEW r \in S
      PROVE  /\ r \in table /\ r.source \in sources /\ r \in Projected(r.source, cursor)
             /\ r \in Scanned(r.source, cursor) /\ (cursor # None => ShownBefore(cursor, r))
  <2>1. PICK s \in sources : r \in Projected(s, cursor) BY DEF Projections
  <2>2. r \in Scanned(s, cursor) /\ (cursor # None => ShownBefore(cursor, r)) BY <2>1 DEF Projected
  <2>3. r \in table /\ r.source = s BY <1>1, <2>2
  <2> QED BY <2>1, <2>2, <2>3
<1>3. S \in SUBSET table BY <1>2
<1>4. IsFiniteSet(S) BY <1>3, FS_Subset
<1> QED BY <1>2, <1>3, <1>4 DEF Merged, Projections

\* A page that ends beyond a row for which its source had no room, and that looked at no more than
\* it may show, was crowded: the scan went to rows of the second it began in or of that it ended in.
LEMMA OvertakenIsCrowded ==
    ASSUME table \in SUBSET Rows, IsFiniteSet(table), NEW sources, NEW cursor \in table \cup {None},
           NEW s \in sources, NEW r \in Ranged(s, cursor), r \notin Scanned(s, cursor),
           NEW records, records = Merged(sources, cursor), NEW n \in 1..Len(records),
           NEW limit \in 1..MaxPage, n <= limit,
           NEW e, e = records[n], ShownBefore(r, e),
           NEW c, cursor # None => c = cursor
    PROVE  Cardinality(Within(s, c, e)) > Scan - limit
<1> DEFINE W == {t \in table : t.source = s /\ t.second \in {c.second, e.second}}
           before == {records[i] : i \in 1..(n - 1)}
           scanned == Scanned(s, cursor)
<1>1. PICK S : S = Projections(sources, cursor) OBVIOUS
<1>2. /\ S \in SUBSET Rows /\ S \subseteq table /\ IsFiniteSet(S) /\ records = InOrder(S)
      /\ Projected(s, cursor) \subseteq S
  <2>1. Projected(s, cursor) \subseteq S BY <1>1 DEF Projections
  <2>2. Merged(sources, cursor) = InOrder(S) /\ S \in SUBSET Rows /\ S \subseteq table /\ IsFiniteSet(S)
    BY <1>1, MergedRows
  <2> QED BY <2>1, <2>2
<1>3. /\ Len(records) = Cardinality(S) /\ Cardinality(S) \in Nat
      /\ \A i, j \in 1..Cardinality(S) : i < j => ShownBefore(records[i], records[j])
      /\ \A t \in S : \E i \in 1..Cardinality(S) : records[i] = t
      /\ records \in Seq(S)
  BY <1>2, ListedInOrder
<1>4. n \in 1..Cardinality(S) /\ e \in S /\ e \in Rows BY <1>2, <1>3
<1>5. Cardinality(scanned) = Scan /\ \A t \in scanned : StoredAfter(t, r) BY ScannedBefore
<1>6. scanned \subseteq Ranged(s, cursor) /\ Ranged(s, cursor) \subseteq {t \in table : t.source = s}
  BY DEF Scanned, Ranged
<1>7. ASSUME NEW t \in scanned, t \notin before PROVE t \in W
  <2>1. t \in table /\ t.source = s /\ t \in Rows /\ r \in Rows /\ StoredAfter(t, r) BY <1>5, <1>6
  <2>2. CASE t \in Projected(s, cursor)
    <3>1. PICK j \in 1..Cardinality(S) : records[j] = t BY <1>2, <1>3, <2>2
    <3>2. j \notin 1..(n - 1) BY <1>7, <3>1
    <3>3. j = n \/ n < j BY <1>3, <1>4, <3>2
    <3>4. t = e \/ ShownBefore(e, t) BY <1>3, <1>4, <3>1, <3>3
    <3>5. t.second = e.second
      <4>1. CASE t = e BY <4>1
      <4>2. CASE ShownBefore(e, t)
        BY <1>4, <2>1, <4>2, RowsAreNumbered DEF ShownBefore, StoredAfter, TextLater, Later, SameInstant
      <4> QED BY <3>4, <4>1, <4>2
    <3> QED BY <2>1, <3>5
  <2>3. CASE t \notin Projected(s, cursor)
    <3>1. cursor # None /\ ~ShownBefore(cursor, t) BY <2>3 DEF Projected
    <3>2. c = cursor /\ c \in Rows BY <3>1
    <3>3. ~Later(t, c) BY <1>6, <3>1, <3>2 DEF Ranged
    <3>4. t = c \/ ShownBefore(t, c) BY <2>1, <3>1, <3>2, ListIsOrdered
    <3>5. t.second = c.second
      <4>1. CASE t = c BY <4>1
      <4>2. CASE ShownBefore(t, c)
        BY <2>1, <3>2, <3>3, <4>2, RowsAreNumbered DEF ShownBefore, TextLater, Later, SameInstant
      <4> QED BY <3>4, <4>1, <4>2
    <3> QED BY <2>1, <3>5
  <2> QED BY <2>2, <2>3
<1>8. n \in Nat /\ n - 1 \in Nat /\ limit \in Nat /\ Scan \in Nat BY <1>3, HistoryAssumption
<1>9. IsFiniteSet(before) /\ Cardinality(before) \in Nat /\ Cardinality(before) <= n - 1 BY <1>8, FirstFew
<1>10. W \in SUBSET table OBVIOUS
<1> HIDE DEF W, before
<1>11. IsFiniteSet(W) /\ Cardinality(W) \in Nat BY <1>10, FS_Subset, FS_CardinalityType
<1>12. scanned \in SUBSET (W \cup before) BY <1>7
<1> HIDE DEF scanned
<1>13. IsFiniteSet(W \cup before) /\ Cardinality(W \cup before) = Cardinality(W) + Cardinality(before) - Cardinality(W \cap before)
  BY <1>9, <1>11, FS_Union
<1>14. Cardinality(scanned) <= Cardinality(W \cup before) BY <1>12, <1>13, FS_Subset
<1>15. Cardinality(W \cap before) \in Nat BY <1>11, FS_Intersection, FS_CardinalityType
<1>16. Cardinality(W) > Scan - limit BY <1>5, <1>8, <1>9, <1>11, <1>13, <1>14, <1>15
<1> QED BY <1>16 DEF W, Within

Has(list, x) == \E i \in DOMAIN list : list[i] = x
IsOnce(list) == \A i, j \in DOMAIN list : i # j => list[i] # list[j]

\* Two lists with no row twice, and none in both, have none twice together.
LEMMA JoinedRows ==
    ASSUME NEW a \in Seq(Rows), NEW b \in Seq(Rows), IsOnce(a), IsOnce(b), \A x : ~(Has(a, x) /\ Has(b, x))
    PROVE  a \o b \in Seq(Rows) /\ IsOnce(a \o b) /\ \A x : Has(a \o b, x) <=> Has(a, x) \/ Has(b, x)
<1>1. Len(a) \in Nat /\ Len(b) \in Nat /\ DOMAIN a = 1..Len(a) /\ DOMAIN b = 1..Len(b) OBVIOUS
<1>2. /\ a \o b \in Seq(Rows) /\ Len(a \o b) = Len(a) + Len(b)
      /\ DOMAIN (a \o b) = 1..(Len(a) + Len(b))
      /\ \A i \in 1..(Len(a) + Len(b)) : (a \o b)[i] = IF i <= Len(a) THEN a[i] ELSE b[i - Len(a)]
  OBVIOUS
<1>3. PICK ab : ab = a \o b OBVIOUS
<1>4. \A i \in DOMAIN ab : \/ i \in DOMAIN a /\ ab[i] = a[i]
                           \/ i - Len(a) \in DOMAIN b /\ i \notin DOMAIN a /\ ab[i] = b[i - Len(a)]
  BY <1>1, <1>2, <1>3
<1>5. \A j \in DOMAIN a : j \in DOMAIN ab /\ ab[j] = a[j] BY <1>1, <1>2, <1>3
<1>6. \A j \in DOMAIN b : j + Len(a) \in DOMAIN ab /\ ab[j + Len(a)] = b[j] BY <1>1, <1>2, <1>3
<1>7. \A i \in DOMAIN a, j \in DOMAIN b : a[i] # b[j] BY DEF Has
<1>8. ASSUME NEW i \in DOMAIN ab, NEW j \in DOMAIN ab, i # j PROVE ab[i] # ab[j]
  <2>1. CASE i \in DOMAIN a /\ j \in DOMAIN a BY <1>5, <1>8, <2>1 DEF IsOnce
  <2>2. CASE i \notin DOMAIN a /\ j \notin DOMAIN a
    <3>1. i \in Nat /\ j \in Nat BY <1>1, <1>2, <1>3
    <3>2. i - Len(a) # j - Len(a) BY <1>1, <1>8, <3>1
    <3> QED BY <1>4, <2>2, <3>2 DEF IsOnce
  <2>3. CASE i \in DOMAIN a /\ j \notin DOMAIN a BY <1>4, <1>5, <1>7, <2>3
  <2>4. CASE i \notin DOMAIN a /\ j \in DOMAIN a BY <1>4, <1>5, <1>7, <2>4
  <2> QED BY <2>1, <2>2, <2>3, <2>4
<1>9. \A x : Has(ab, x) <=> Has(a, x) \/ Has(b, x) BY <1>4, <1>5, <1>6 DEF Has
<1> QED BY <1>2, <1>3, <1>8, <1>9 DEF IsOnce

Fields == {"phase", "filter", "limit", "cursor", "before", "shown", "ends", "missed", "cut"}

\* A row is shown, or one of those there is a reason not to show.
Accounted(r) == Shown(r) \/ Overtaken(r) \/ \E end \in reader.ends : Beside(r, end)

\* A reader that has more to read was shown what comes before its cursor, or at it, and no more.
IsUnderWay ==
    /\ Acceptable(reader.filter, reader.limit)
    /\ reader.cursor \in table \cup {None} /\ (reader.cursor # None => reader.cursor \in reader.ends)
    /\ \A x : Has(reader.shown, x) => reader.cursor # None /\ (x = reader.cursor \/ ShownBefore(x, reader.cursor))
    /\ \A r \in Due : Accounted(r) \/ reader.cursor = None \/ ShownBefore(reader.cursor, r)

HistoryInv ==
    /\ table \in SUBSET Rows /\ IsFiniteSet(table)
    /\ DOMAIN reader = Fields /\ reader.before \subseteq table
    /\ reader.shown \in Seq(Rows)
    /\ IsOnce(reader.shown)
    /\ reader.phase = "reading" => IsUnderWay
    /\ reader.phase = "done" => \A r \in Due : Accounted(r)

\* A reader that begins has been shown nothing.
LEMMA HistoryInitially == ASSUME HistoryInit PROVE HistoryInv
<1>1. PICK filter \in Wanted, limit \in Limits : reader = Reader(filter, limit) BY DEF HistoryInit
<1>2. table \in SUBSET Rows /\ IsFiniteSet(table) BY HistoryAssumption DEF HistoryInit
<1>3. /\ DOMAIN reader = Fields /\ reader.before = table /\ reader.shown = <<>> /\ reader.cursor = None
      /\ reader.filter = filter /\ reader.limit = limit
      /\ reader.phase = IF Acceptable(filter, limit) THEN "reading" ELSE "refused"
  BY <1>1 DEF Reader, Fields
<1>4. reader.shown \in Seq(Rows) /\ IsOnce(reader.shown) /\ \A x : ~Has(reader.shown, x) BY <1>3 DEF IsOnce, Has
<1>5. reader.phase = "reading" => IsUnderWay BY <1>3, <1>4 DEF IsUnderWay
<1>6. reader.phase # "done" BY <1>3
<1> QED BY <1>2, <1>3, <1>4, <1>5, <1>6 DEF HistoryInv

\* What is accounted for stays so as rows are committed.
LEMMA CommittingIsSeen == ASSUME HistoryInv, CommitRow PROVE HistoryInv'
<1>1. PICK x \in Rows \ table : table' = table \cup {x} BY DEF CommitRow
<1>2. reader' = reader BY DEF CommitRow
<1>3. table' \in SUBSET Rows /\ IsFiniteSet(table') /\ table \subseteq table' BY <1>1, FS_AddElement DEF HistoryInv
<1>4. ASSUME NEW s, NEW c, NEW e, Crowded(s, c, e) PROVE Crowded(s, c, e)'
  <2> DEFINE were == {t \in table : t.source = s /\ t.second \in {c.second, e.second}}
             are == {t \in table' : t.source = s /\ t.second \in {c.second, e.second}}
  <2>1. were \in SUBSET are /\ are \in SUBSET table' /\ were \in SUBSET table BY <1>3
  <2>2. Cardinality(were) > Scan - reader.limit BY <1>4 DEF Crowded, Within
  <2>3. reader.limit \in Int /\ Scan \in Int
    BY HistoryAssumption DEF HistoryInv, IsUnderWay, Acceptable, CommitRow
  <2>4. Cardinality(were) <= Cardinality(are) /\ Cardinality(were) \in Nat /\ Cardinality(are) \in Nat
    <3> HIDE DEF were, are
    <3>1. IsFiniteSet(are) BY <1>3, <2>1, FS_Subset
    <3> QED BY <2>1, <3>1, FS_Subset, FS_CardinalityType
  <2>5. Cardinality(are) > Scan - reader.limit
    <3> HIDE DEF were, are
    <3> QED BY <2>2, <2>3, <2>4
  <2> QED BY <1>2, <2>5 DEF Crowded, Within
<1>5. \A r : Accounted(r) => Accounted(r)'
  BY <1>2, <1>4 DEF Accounted, Shown, Overtaken, Filtered, Beside
<1>6. Due' = Due BY <1>2 DEF Due, Matches, Subject, OutcomeOf
<1>7. IsUnderWay => IsUnderWay' BY <1>2, <1>3, <1>5, <1>6 DEF IsUnderWay, Acceptable
<1> QED BY <1>2, <1>3, <1>5, <1>6, <1>7 DEF HistoryInv

\* A page that looked at n of the records read for it is right about r.
IsLookedAt(read, records, n, r) ==
    \/ \E i \in 1..n : records[i] = r
    \/ n < Len(records) /\ n > 0 /\ ShownBefore(records[n], r)
    \/ /\ r.source \in read /\ Truncated(r.source, reader.cursor)
       /\ \/ n = 0
          \/ n > 0 /\ ShownBefore(records[n], r)
          \/ Filtered
          \/ n > 0 /\ \E c \in reader.ends \cup {records[n]} : Crowded(r.source, c, records[n])

\* One page: every row that is due and was still to come is on it, still to come after it, or
\* one that there is a reason not to show.
LEMMA PageIsComplete ==
    ASSUME HistoryInv, IsUnderWay, NEW down \in SUBSET Chosen(reader.filter),
           NEW read, read = Chosen(reader.filter) \ down,
           NEW records, records = Merged(read, reader.cursor),
           NEW n, n = Examined(records, reader.filter, reader.limit),
           NEW r \in Due, r.source \notin down, ~Accounted(r)
    PROVE  IsLookedAt(read, records, n, r)
<1> DEFINE cursor == reader.cursor
           s == r.source
<1>1. table \in SUBSET Rows /\ IsFiniteSet(table) /\ r \in table /\ r \in Rows /\ cursor \in table \cup {None}
  BY DEF HistoryInv, IsUnderWay, Due
<1>2. s \in read
  <2>1. s \in Sources BY <1>1, HistoryAssumption
  <2>2. reader.filter.category \in {None, CategoryOf[s]} BY DEF Due
  <2> QED BY <2>1, <2>2 DEF Chosen
<1>3. PICK S : S = Projections(read, cursor) OBVIOUS
<1>4. /\ S \in SUBSET Rows /\ S \subseteq table /\ IsFiniteSet(S) /\ records = InOrder(S)
      /\ \A x \in S : x \in Scanned(x.source, cursor)
  <2>1. Merged(read, cursor) = InOrder(S) /\ S \in SUBSET Rows /\ S \subseteq table /\ IsFiniteSet(S)
    BY <1>1, <1>3, MergedRows
  <2>2. \A x \in S : x \in Scanned(x.source, cursor) BY <1>1, <1>3, MergedRows
  <2> QED BY <2>1, <2>2
<1>5. /\ records \in Seq(S) /\ Len(records) = Cardinality(S) /\ Cardinality(S) \in Nat
      /\ \A i, j \in 1..Cardinality(S) : i < j => ShownBefore(records[i], records[j])
      /\ \A x \in S : \E i \in 1..Cardinality(S) : records[i] = x
  BY <1>4, ListedInOrder
<1>6. records \in Seq(Rows) /\ reader.limit \in 1..MaxPage BY <1>4, <1>5 DEF IsUnderWay, Acceptable
<1>7. /\ n \in 0..Len(records) /\ (n = 0 => Len(records) = 0)
      /\ ((\A x \in Rows : Matches(x, reader.filter)) => n <= reader.limit)
  BY <1>6, ExaminedStops
<1>8. cursor # None => ShownBefore(cursor, r) /\ cursor \in reader.ends /\ cursor \in Rows
  BY <1>1 DEF IsUnderWay
<1>9. r \in Ranged(s, cursor)
  <2> SUFFICES ASSUME cursor # None, Later(r, cursor) PROVE FALSE BY <1>1 DEF Ranged
  <2>1. Beside(r, cursor)
    BY <1>1, <1>8, RowsAreNumbered DEF Beside, Later, ShownBefore, TextLater, SameInstant
  <2> QED BY <1>8, <2>1 DEF Accounted
<1>10. CASE r \in Scanned(s, cursor)
  <2>1. r \in Projected(s, cursor) BY <1>8, <1>10 DEF Projected
  <2>2. r \in S BY <1>2, <1>3, <2>1 DEF Projections
  <2>3. PICK i \in 1..Cardinality(S) : records[i] = r BY <1>5, <2>2
  <2>4. CASE i \in 1..n BY <2>3, <2>4 DEF IsLookedAt
  <2>5. CASE i \notin 1..n
    <3>1. n < i /\ n > 0 /\ n \in 1..Cardinality(S) /\ n < Len(records) BY <1>5, <1>7, <2>3, <2>5
    <3>2. ShownBefore(records[n], r) BY <1>5, <2>3, <3>1
    <3> QED BY <3>1, <3>2 DEF IsLookedAt
  <2> QED BY <2>4, <2>5
<1>11. CASE r \notin Scanned(s, cursor)
  <2>1. Truncated(s, cursor) BY <1>1, <1>9, <1>11, ScannedBefore
  <2>0. n = 0 \/ n > 0 BY <1>5, <1>7
  <2> SUFFICES ASSUME n > 0, ~ShownBefore(records[n], r), ~Filtered
               PROVE  \E c \in reader.ends \cup {records[n]} : Crowded(s, c, records[n])
    <3> HIDE DEF s, cursor
    <3> QED BY <1>2, <2>0, <2>1, Zenon DEF s, cursor, IsLookedAt
  <2>2. n \in 1..Len(records) /\ records[n] \in S /\ records[n] \in Rows BY <1>4, <1>5, <1>7
  <2>3. records[n] # r BY <1>4, <1>11, <2>2
  <2>4. ShownBefore(r, records[n]) BY <1>1, <2>2, <2>3, ListIsOrdered
  <2>5. \A x \in Rows : Matches(x, reader.filter) BY DEF Filtered, Matches
  <2>6. n <= reader.limit BY <1>7, <2>5
  <2>7. PICK c \in reader.ends \cup {records[n]} : cursor # None => c = cursor BY <1>8
  <2>8. PICK e : e = records[n] OBVIOUS
  <2>9. Cardinality(Within(s, c, e)) > Scan - reader.limit
    BY <1>1, <1>2, <1>6, <1>9, <1>11, <2>2, <2>4, <2>6, <2>7, <2>8, OvertakenIsCrowded
  <2> QED BY <2>7, <2>8, <2>9 DEF Crowded
<1> QED BY <1>10, <1>11

\* One page leaves a reader with what it had a right to see so far, in the order of the list.
LEMMA PageIsSound == ASSUME HistoryInv, List PROVE HistoryInv'
<1>1. IsUnderWay /\ table' = table BY DEF List, HistoryInv
<1>2. PICK down \in SUBSET Chosen(reader.filter) :
        LET page == Page(reader.filter, reader.limit, reader.cursor, down)
        IN reader' = [reader EXCEPT
               !.phase = IF page.next # None THEN "reading" ELSE IF page.more THEN "stuck" ELSE "done",
               !.cursor = page.next,
               !.shown = @ \o page.records,
               !.ends = IF page.next = None THEN @ ELSE @ \cup {page.next},
               !.missed = @ \cup down,
               !.cut = @ \cup page.truncated]
  BY DEF List
<1>3. PICK read : read = Chosen(reader.filter) \ down OBVIOUS
<1>4. PICK records : records = Merged(read, reader.cursor) OBVIOUS
<1>5. PICK n : n = Examined(records, reader.filter, reader.limit) OBVIOUS
<1>6. PICK overrun : overrun = {s \in read : Truncated(s, reader.cursor)} OBVIOUS
<1>7. PICK more : more = HasMore(overrun, n, records) OBVIOUS
<1>8. PICK P : P = {records[i] : i \in Matching(records, n, reader.filter)} OBVIOUS
<1>9. PICK next : next = IF n > 0 /\ more THEN records[n] ELSE None OBVIOUS
<1>10. PICK page : page = Page(reader.filter, reader.limit, reader.cursor, down) OBVIOUS
<1>11. page.records = InOrder(P) /\ page.truncated = overrun /\ page.more = more /\ page.next = next
  BY <1>3, <1>4, <1>5, <1>6, <1>7, <1>8, <1>9, <1>10 DEF Page
<1>12. DOMAIN reader = Fields BY DEF HistoryInv
<1>13. /\ DOMAIN reader' = Fields /\ reader'.filter = reader.filter /\ reader'.limit = reader.limit
       /\ reader'.before = reader.before
       /\ reader'.phase = (IF next # None THEN "reading" ELSE IF more THEN "stuck" ELSE "done")
       /\ reader'.cursor = next /\ reader'.shown = reader.shown \o InOrder(P)
       /\ reader'.ends = (IF next = None THEN reader.ends ELSE reader.ends \cup {next})
       /\ reader'.missed = reader.missed \cup down /\ reader'.cut = reader.cut \cup overrun
  BY <1>2, <1>10, <1>11, <1>12 DEF Fields
<1>14. PICK S : S = Projections(read, reader.cursor) OBVIOUS
<1>15. table \in SUBSET Rows /\ IsFiniteSet(table) /\ reader.cursor \in table \cup {None}
  BY <1>1 DEF HistoryInv, IsUnderWay
<1>16. /\ S \in SUBSET Rows /\ S \subseteq table /\ IsFiniteSet(S) /\ records = InOrder(S)
       /\ \A r \in S : reader.cursor # None => ShownBefore(reader.cursor, r)
  BY <1>4, <1>14, <1>15, MergedRows
<1>17. /\ records \in Seq(S) /\ Len(records) = Cardinality(S) /\ Cardinality(S) \in Nat
       /\ \A i, j \in 1..Cardinality(S) : i < j => ShownBefore(records[i], records[j])
  BY <1>16, ListedInOrder
<1>18. records \in Seq(Rows) /\ reader.limit \in 1..MaxPage BY <1>1, <1>16, <1>17 DEF IsUnderWay, Acceptable
<1>19. n \in 0..Len(records) BY <1>5, <1>18, ExaminedStops
<1>20. ASSUME NEW x \in P PROVE x \in S /\ \E i \in 1..n : x = records[i]
  <2>1. PICK i \in 1..n : x = records[i] BY <1>8 DEF Matching
  <2>2. i \in 1..Len(records) BY <1>17, <1>19
  <2> QED BY <1>17, <2>1, <2>2
<1>21. P \in SUBSET Rows /\ P \in SUBSET S BY <1>16, <1>20
<1>22. IsFiniteSet(P) BY <1>16, <1>21, FS_Subset
<1>23. PICK rows : rows = InOrder(P) OBVIOUS
<1>24. /\ rows \in Seq(P) /\ DOMAIN rows = 1..Cardinality(P)
       /\ IsOnce(rows) /\ \A x : Has(rows, x) <=> x \in P
  <2>1. /\ rows \in Seq(P) /\ Len(rows) = Cardinality(P) /\ Cardinality(P) \in Nat
        /\ \A i, j \in 1..Cardinality(P) : i < j => ShownBefore(rows[i], rows[j])
        /\ \A x \in P : \E i \in 1..Cardinality(P) : rows[i] = x
    BY <1>21, <1>22, <1>23, ListedInOrder
  <2>2. DOMAIN rows = 1..Cardinality(P) BY <2>1
  <2>3. ASSUME NEW i \in 1..Cardinality(P), NEW j \in 1..Cardinality(P), i # j PROVE rows[i] # rows[j]
    <3>1. i < j \/ j < i BY <2>1, <2>3
    <3>2. rows[i] \in Rows /\ rows[j] \in Rows BY <1>21, <2>1
    <3> QED BY <2>1, <3>1, <3>2, ListIsOrdered
  <2>4. \A i \in DOMAIN rows : rows[i] \in P BY <2>1, <2>2
  <2> QED BY <2>1, <2>2, <2>3, <2>4 DEF IsOnce, Has
<1>25. PICK shown : shown = reader.shown OBVIOUS
<1>26. /\ shown \in Seq(Rows) /\ IsOnce(shown)
       /\ \A x : Has(shown, x) => /\ reader.cursor # None /\ reader.cursor \in Rows /\ x \in Rows
                                  /\ x = reader.cursor \/ ShownBefore(x, reader.cursor)
  <2>1. \A x : Has(shown, x) => x \in Rows BY <1>25 DEF Has, HistoryInv
  <2> QED BY <1>1, <1>15, <1>25, <2>1 DEF HistoryInv, IsUnderWay
<1>27. ASSUME NEW x, Has(shown, x), NEW y \in S PROVE ShownBefore(x, y)
  BY <1>16, <1>26, <1>27, ListIsOrdered
<1>28. rows \in Seq(Rows) BY <1>21, <1>24
<1>29. \A x : ~(Has(shown, x) /\ Has(rows, x))
  BY <1>21, <1>24, <1>27, ListIsOrdered
<1>30. PICK joined : joined = shown \o rows OBVIOUS
<1>31. joined \in Seq(Rows) /\ IsOnce(joined) /\ \A x : Has(joined, x) <=> Has(shown, x) \/ x \in P
  <2>1. shown \o rows \in Seq(Rows) /\ IsOnce(shown \o rows)
        /\ \A x : Has(shown \o rows, x) <=> Has(shown, x) \/ Has(rows, x)
    BY <1>24, <1>26, <1>28, <1>29, JoinedRows
  <2> QED BY <1>24, <1>30, <2>1
<1>32. reader'.shown = joined BY <1>13, <1>23, <1>25, <1>30
<1>33. ASSUME next # None
       PROVE  /\ n > 0 /\ next = records[n] /\ next \in S /\ next \in Rows /\ next \in table
              /\ \A x \in P : x = next \/ ShownBefore(x, next)
  <2>1. n > 0 /\ next = records[n] BY <1>9, <1>33
  <2>2. n \in 1..Cardinality(S) /\ n \in Nat BY <1>17, <1>19, <2>1
  <2>3. next \in S BY <1>17, <2>1, <2>2
  <2>4. ASSUME NEW x \in P PROVE x = next \/ ShownBefore(x, next)
    <3>1. PICK i \in 1..n : x = records[i] BY <1>20, <2>4
    <3>2. i \in 1..Cardinality(S) /\ (i = n \/ i < n) BY <1>17, <2>2
    <3> QED BY <1>17, <2>1, <2>2, <3>1, <3>2
  <2> QED BY <1>16, <2>1, <2>3, <2>4
<1>34. ASSUME next # None, NEW x, Has(joined, x) PROVE x = next \/ ShownBefore(x, next)
  BY <1>27, <1>31, <1>33, <1>34
<1>35. ASSUME NEW r \in Due' PROVE r \in Due /\ r.source \notin down
  BY <1>13, <1>35 DEF Due, Matches, Subject, OutcomeOf
<1>36. \A s, c, e : Crowded(s, c, e)' <=> Crowded(s, c, e) BY <1>1, <1>13 DEF Crowded, Within
<1>37. Filtered' <=> Filtered BY <1>13 DEF Filtered
<1>38. reader.ends \subseteq reader'.ends /\ reader.cut \subseteq reader'.cut
  BY <1>13
<1>39. ASSUME NEW r, Accounted(r) PROVE Accounted(r)'
  <2>1. CASE Shown(r) BY <1>25, <1>31, <1>32, <2>1 DEF Has, Shown, Accounted
  <2>2. CASE Overtaken(r)
    <3>1. r.source \in reader'.cut BY <1>38, <2>2 DEF Overtaken
    <3>2. Filtered' \/ \E c, e \in reader'.ends : Crowded(r.source, c, e)' BY <1>36, <1>37, <1>38, <2>2 DEF Overtaken
    <3> QED BY <3>1, <3>2 DEF Accounted, Overtaken
  <2>3. CASE \E end \in reader.ends : Beside(r, end) BY <1>38, <2>3 DEF Accounted, Beside
  <2> QED BY <1>39, <2>1, <2>2, <2>3 DEF Accounted
<1>40. ASSUME NEW r \in Due'
       PROVE  Accounted(r)' \/ (next # None /\ ShownBefore(next, r)) \/ (next = None /\ more)
  <2>1. r \in Due /\ r.source \notin down BY <1>35, <1>40
  <2> SUFFICES ASSUME ~Accounted(r) PROVE Accounted(r)' \/ (next # None /\ ShownBefore(next, r)) \/ (next = None /\ more)
    BY <1>39
  <2>2. IsLookedAt(read, records, n, r)
    BY <1>1, <1>2, <1>3, <1>4, <1>5, <2>1, PageIsComplete
  <2>3. CASE \E i \in 1..n : records[i] = r
    <3>1. r \in P BY <1>8, <2>1, <2>3 DEF Matching, Due
    <3>2. Shown(r)' BY <1>31, <1>32, <3>1 DEF Shown, Has
    <3> QED BY <3>2 DEF Accounted
  <2>4. n > 0 => records[n] # None
    <3>1. n > 0 => n \in 1..Len(records) BY <1>17, <1>19
    <3> QED BY <1>18, <3>1, HistoryAssumption
  <2>5. CASE n < Len(records) /\ n > 0 /\ ShownBefore(records[n], r)
    <3>1. more BY <1>7, <2>5 DEF HasMore
    <3> QED BY <1>9, <2>4, <2>5, <3>1
  <2>6. CASE r.source \in read /\ Truncated(r.source, reader.cursor)
    <3>1. r.source \in overrun /\ more BY <1>6, <1>7, <2>6 DEF HasMore
    <3>2. CASE ~(n > 0) BY <1>9, <3>1, <3>2
    <3>3. CASE n > 0
      <4>1. next = records[n] /\ next # None BY <1>9, <2>4, <3>1, <3>3
      <4>2. reader'.ends = reader.ends \cup {records[n]} /\ r.source \in reader'.cut BY <1>13, <3>1, <4>1
      <4>3. CASE ShownBefore(records[n], r) BY <4>1, <4>3
      <4>4. CASE Filtered BY <1>37, <4>2, <4>4 DEF Accounted, Overtaken
      <4>5. CASE \E c \in reader.ends \cup {records[n]} : Crowded(r.source, c, records[n])
        <5>1. \E c, e \in reader'.ends : Crowded(r.source, c, e)' BY <1>36, <4>2, <4>5
        <5> QED BY <4>2, <5>1 DEF Accounted, Overtaken
      <4>6. CASE \E i \in 1..n : records[i] = r BY <2>3, <4>6
      <4> QED
        <5>1. \/ \E i \in 1..n : records[i] = r
              \/ ShownBefore(records[n], r) \/ Filtered
              \/ \E c \in reader.ends \cup {records[n]} : Crowded(r.source, c, records[n])
          BY <2>2, <3>3 DEF IsLookedAt
        <5> QED BY <4>3, <4>4, <4>5, <4>6, <5>1
    <3> QED BY <3>2, <3>3
  <2> QED BY <2>2, <2>3, <2>5, <2>6 DEF IsLookedAt
<1>41. reader'.phase = "reading" => IsUnderWay'
  <2> SUFFICES ASSUME reader'.phase = "reading" PROVE IsUnderWay' OBVIOUS
  <2>1. next # None BY <1>13
  <2>2. Acceptable(reader.filter, reader.limit)' BY <1>1, <1>13 DEF IsUnderWay, Acceptable
  <2>3. reader'.cursor \in table' \cup {None} /\ reader'.cursor \in reader'.ends BY <1>1, <1>13, <1>33, <2>1
  <2>4. \A x : Has(joined, x) => x = reader'.cursor \/ ShownBefore(x, reader'.cursor)
    BY <1>13, <1>34, <2>1
  <2>5. \A r \in Due' : Accounted(r)' \/ ShownBefore(reader'.cursor, r) BY <1>13, <1>40, <2>1
  <2>6. reader'.cursor # None BY <1>13, <2>1
  <2> QED BY <1>32, <2>2, <2>3, <2>4, <2>5, <2>6 DEF IsUnderWay, Has
<1>42. reader'.phase = "done" => \A r \in Due' : Accounted(r)' BY <1>13, <1>40
<1>43. table' \in SUBSET Rows /\ IsFiniteSet(table') /\ reader'.before \subseteq table' BY <1>1, <1>13 DEF HistoryInv
<1> QED BY <1>13, <1>31, <1>32, <1>41, <1>42, <1>43 DEF HistoryInv, IsOnce

\* Whatever rows there are and are committed meanwhile, and whichever sources fail on whichever
\* pages: a reader that comes to the end was shown all that it had a right to, once.
THEOREM PagesCorrect == HistorySpec => []PagesAreComplete
<1>1. HistoryInit => HistoryInv BY HistoryInitially
<1>2. HistoryInv /\ [HistoryNext]_historyVars => HistoryInv'
  <2> SUFFICES ASSUME HistoryInv, [HistoryNext]_historyVars PROVE HistoryInv' OBVIOUS
  <2>1. CASE List BY <2>1, PageIsSound
  <2>2. CASE CommitRow BY <2>2, CommittingIsSeen
  <2>3. CASE UNCHANGED historyVars
    <3>1. table' = table /\ reader' = reader BY <2>3 DEF historyVars
    <3>2. \A r : Accounted(r)' <=> Accounted(r)
      BY <3>1 DEF Accounted, Shown, Overtaken, Filtered, Crowded, Within, Beside
    <3>3. Due' = Due BY <3>1 DEF Due, Matches, Subject, OutcomeOf
    <3>4. IsUnderWay' <=> IsUnderWay BY <3>1, <3>2, <3>3 DEF IsUnderWay, Acceptable
    <3> QED BY <3>1, <3>2, <3>3, <3>4 DEF HistoryInv
  <2> QED BY <2>1, <2>2, <2>3 DEF HistoryNext
<1>3. HistoryInv => PagesAreComplete BY DEF HistoryInv, PagesAreComplete, Accounted, IsOnce
<1> QED BY <1>1, <1>2, <1>3, PTL DEF HistorySpec
=============================================================================
