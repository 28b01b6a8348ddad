---------------------------- MODULE GovernanceHistory ---------------------------
(***************************************************************************)
(* The governance history a console pages through: one list of the rows of  *)
(* several tables, newest first, by cursors.                               *)
(*                                                                         *)
(* The tables order their rows by instant and row id; the list orders their *)
(* projections by the text of the instant and by the encoded history id.   *)
(* The two orders disagree within one second, and a page that is filtered   *)
(* can end beyond the rows that a truncated source had room to return.     *)
(*                                                                         *)
(* A list is one step although it reads one table after the other: rows are *)
(* never changed, and one appended between two of the statements is read or *)
(* not as if it had been appended before or after all of them.             *)
(***************************************************************************)
EXTENDS Integers, Sequences, FiniteSets, TLC, NoValue

CONSTANTS
    Sources,    \* the tables read
    Rows,       \* rows they may hold: [source, id, second, fraction, place, column, payload, outcome]
    Paths,      \* subjects that are local paths
    Tables,     \* what they may hold when a reader begins
    Limits,     \* page sizes a reader may ask for, legal or not
    Wanted,     \* filters it may give: [category, subject, outcome]
    Scan,       \* MAX_SOURCE_SCAN
    MaxPage,    \* MAX_PAGE_SIZE
    MaxRows     \* bound: rows ever committed

VARIABLES
    table,  \* the rows committed so far, of every source
    reader  \* one reader: what it asked for, what it was shown, and where its pages ended

historyVars == <<table, reader>>

\* The sources whose rows bear the instant of an evaluation, which is kept to the second, and
\* those whose rows bear the instant at which they were made.
Evaluated ==
    {"delivery-art-readiness", "prototype-ingress-readiness", "repository-readiness", "repository-custody",
     "repository-lifecycle"}

Created ==
    {"readiness-decisions", "lifecycle-transition-readiness", "workspace-intake", "workspace-inventory",
     "workspace-inventory-lifecycle", "prototype-landing", "prototype-maturity", "prototype-closure"}

\* Every source, with its category.
CategoryOf ==
    [s \in Evaluated \cup Created |-> "readiness"]
    @@ "control-receipts" :> "receipt" @@ "ledger-events" :> "ledger" @@ "escalations" :> "escalation"
-----------------------------------------------------------------------------
(* Two orders of the same rows.                                            *)

\* An instant as a database compares it.
Later(r, t) == r.second > t.second \/ (r.second = t.second /\ r.fraction > t.fraction)
SameInstant(r, t) == r.second = t.second /\ r.fraction = t.fraction

\* ... and as text: isoformat leaves out a fraction that is zero, and "Z" sorts above ".".
TextLater(r, t) ==
    \/ r.second > t.second
    \/ r.second = t.second /\ r.fraction # t.fraction
       /\ (r.fraction = 0 \/ (t.fraction # 0 /\ r.fraction > t.fraction))

\* What a statement returns first, and what the list shows first.  The place of a history id
\* among those of one instant says nothing of the place of the row id it encodes.
StoredAfter(r, t) == Later(r, t) \/ (SameInstant(r, t) /\ r.id > t.id)
ShownBefore(r, t) == TextLater(r, t) \/ (SameInstant(r, t) /\ r.place > t.place)

\* The rows of one instant are told apart by their history ids, those of one source by their row
\* ids as well; and a page is no longer than a scan.
ASSUME HistoryAssumption ==
    /\ None \notin Rows
    /\ \A r \in Rows : r.source \in Sources /\ {r.second, r.fraction, r.id, r.place} \subseteq Nat
    /\ \A r, t \in Rows :
          SameInstant(r, t) /\ (r.place = t.place \/ (r.source = t.source /\ r.id = t.id)) => r = t
    /\ \A t \in Tables : t \subseteq Rows /\ IsFiniteSet(t)
    /\ Scan \in Nat \ {0} /\ MaxPage \in 0..Scan
-----------------------------------------------------------------------------
(* One page.                                                               *)

Chosen(filter) == {s \in Sources : filter.category = None \/ CategoryOf[s] = filter.category}

\* The rows a source's statement ranges over, and those it returns.
Ranged(s, cursor) == {r \in table : r.source = s /\ (cursor # None => ~Later(r, cursor))}
Scanned(s, cursor) ==
    {r \in Ranged(s, cursor) : Cardinality({t \in Ranged(s, cursor) : StoredAfter(t, r)}) < Scan}
Truncated(s, cursor) == Cardinality(Ranged(s, cursor)) > Scan

\* What is left of them after the cursor.
Projected(s, cursor) == {r \in Scanned(s, cursor) : cursor # None => ShownBefore(cursor, r)}

\* What a projection says a row is about, and how that ended.
Subject(r) ==
    LET said == IF r.column # None THEN r.column ELSE IF r.payload # None THEN r.payload ELSE r.source
    IN IF said \in Paths THEN "restricted-subject" ELSE said

OutcomeOf(r) == IF r.outcome = None THEN "recorded" ELSE r.outcome

Matches(r, filter) ==
    /\ filter.subject \in {None, Subject(r)}
    /\ filter.outcome \in {None, OutcomeOf(r)}

\* The rows of S as the list shows them, each after those that are shown before it.
InOrder(S) == [n \in 1..Cardinality(S) |-> CHOOSE r \in S : Cardinality({t \in S : ShownBefore(t, r)}) = n - 1]

Merged(sources, cursor) == InOrder(UNION {Projected(s, cursor) : s \in sources})

Matching(records, n, filter) == {i \in 1..n : Matches(records[i], filter)}

\* How far the merged records are looked at: until the page is full or the scan is used up.
Examined(records, filter, limit) ==
    LET Full(n) == n = Scan \/ Cardinality(Matching(records, n, filter)) = limit
    IN CHOOSE n \in 0..Len(records) : (Full(n) \/ n = Len(records)) /\ \A m \in 0..(n - 1) : ~Full(m)

\* Mutant: only what was read decides whether there is more.
ReadMore(truncated, examined, records) == examined < Len(records)

HasMore(truncated, examined, records) == examined < Len(records) \/ truncated # {}

\* The page for a cursor when the statements of the sources "down" fail: each is reported, and
\* the others are read.
Page(filter, limit, cursor, down) ==
    LET read == Chosen(filter) \ down
        records == Merged(read, cursor)
        examined == Examined(records, filter, limit)
        truncated == {s \in read : Truncated(s, cursor)}
        more == HasMore(truncated, examined, records)
    IN [records |-> InOrder({records[i] : i \in Matching(records, examined, filter)}),
        truncated |-> truncated,
        more |-> more,
        next |-> IF examined > 0 /\ more THEN records[examined] ELSE None]

Acceptable(filter, limit) == limit \in 1..MaxPage /\ filter.category \in {CategoryOf[s] : s \in Sources} \cup {None}
-----------------------------------------------------------------------------
(* A reader follows the cursors; any writer may commit rows meanwhile.     *)

\* before: the rows there were when it began; ends: the records its pages ended on; missed and
\* cut: the sources that were down, and those that were truncated, on some page.
Reader(filter, limit) ==
    [phase |-> IF Acceptable(filter, limit) THEN "reading" ELSE "refused", filter |-> filter, limit |-> limit,
     cursor |-> None, before |-> table, shown |-> <<>>, ends |-> {}, missed |-> {}, cut |-> {}]

HistoryInit ==
    /\ table \in Tables
    /\ \E filter \in Wanted, limit \in Limits : reader = Reader(filter, limit)

List ==
    /\ reader.phase = "reading"
    /\ \E down \in SUBSET Chosen(reader.filter) :
          LET page == Page(reader.filter, reader.limit, reader.cursor, down)
          IN reader' = [reader EXCEPT
                 !.phase = IF page.next # None THEN "reading" ELSE IF page.more THEN "stuck" ELSE "done",
                 !.cursor = page.next,
                 !.shown = @ \o page.records,
                 !.ends = IF page.next = None THEN @ ELSE @ \cup {page.next},
                 !.missed = @ \cup down,
                 !.cut = @ \cup page.truncated]
    /\ UNCHANGED table

\* A row's instant is the clock's or the evaluation's it records, so it may be older than others.
CommitRow ==
    /\ Cardinality(table) < MaxRows
    /\ reader.phase = "reading"
    /\ \E r \in Rows \ table : table' = table \cup {r}
    /\ UNCHANGED reader

HistoryNext == List \/ CommitRow

HistorySpec == HistoryInit /\ [][HistoryNext]_historyVars
-----------------------------------------------------------------------------
(* Properties.                                                             *)

Shown(r) == \E i \in DOMAIN reader.shown : reader.shown[i] = r

\* What a reader that follows the cursors has a right to see.
Due ==
    {r \in reader.before :
        /\ reader.filter.category \in {None, CategoryOf[r.source]}
        /\ Matches(r, reader.filter)
        /\ r.source \notin reader.missed}

\* The next statement starts at the instant of the record a page ended on; when that record has no
\* fraction, the rest of its second comes after it in the list and before it in the tables.
Beside(r, end) == r.second = end.second /\ end.fraction = 0 /\ r.fraction # 0

\* A truncated source has returned rows of the cursor's own second again, and too few others: a
\* page that looks at more than its size, because it is filtered, or the seconds that two pages
\* end in, if they hold many rows of the source, can take the list past those there was no room for.
Filtered == reader.filter.subject # None \/ reader.filter.outcome # None
Within(s, c, e) == {t \in table : t.source = s /\ t.second \in {c.second, e.second}}
Crowded(s, c, e) == Cardinality(Within(s, c, e)) > Scan - reader.limit
Overtaken(r) ==
    r.source \in reader.cut /\ (Filtered \/ \E c, e \in reader.ends : Crowded(r.source, c, e))

\* A reader that follows the cursors to the end has been shown, once each, every row that was
\* there when it began and that it asked for, of every source that no page reported unavailable,
\* except rows beside the end of a page and those of a truncated source that a filtered or
\* crowded page overtook; whatever is committed meanwhile, and whatever instant it bears.
PagesAreComplete ==
    /\ \A i, j \in DOMAIN reader.shown : i # j => reader.shown[i] # reader.shown[j]
    /\ reader.phase = "done" =>
          \A r \in Due : Shown(r) \/ Overtaken(r) \/ \E end \in reader.ends : Beside(r, end)

\* The cursors continue where the page ended, as those of a keyset do: they skip nothing.
CursorsSkipNothing == reader.phase = "done" => \A r \in Due : Shown(r)
=============================================================================
