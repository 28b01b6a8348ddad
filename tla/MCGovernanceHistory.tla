--------------------------- MODULE MCGovernanceHistory --------------------------
(* Ledger events with fractions of a second and readiness receipts without, two of each at one *)
(* instant, and a history id order that disagrees with the order of the rows.                  *)
EXTENDS GovernanceHistory

Row(source, id, second, fraction, place, subject) ==
    [source |-> source, id |-> id, second |-> second, fraction |-> fraction, place |-> place,
     column |-> subject, payload |-> "alpha", outcome |-> None]

Event(id, second, fraction, place, subject) == Row("ledger-events", id, second, fraction, place, subject)
Receipt(id, second, place, subject) == Row("repository-readiness", id, second, 0, place, subject)

MCMixedRows ==
    {Event(1, 1, 5, 4, "alpha"), Event(2, 3, 5, 1, "beta"), Event(3, 3, 5, 3, "alpha"), Event(4, 4, 0, 2, "/srv"),
     Receipt(1, 1, 6, "beta"), Receipt(2, 2, 5, None), Receipt(3, 3, 4, "beta"), Receipt(4, 4, 3, "alpha"),
     Receipt(5, 4, 1, "alpha")}

\* A second that takes two pages, before one with a record of each source that the list orders
\* otherwise than the tables.
MCCrowdedRows ==
    {Event(1, 6, 0, 2, "alpha"), Event(2, 6, 0, 1, "alpha"), Event(3, 5, 0, 3, "alpha"), Event(4, 5, 0, 1, "alpha"),
     Receipt(1, 5, 2, "alpha")}

MCRows == MCMixedRows \cup MCCrowdedRows

\* A busy source and a quiet one, no two rows in one second.
MCSparseRows ==
    {Event(n, n, 0, n, IF n = 3 THEN "alpha" ELSE "beta") : n \in 3..8} \cup {Receipt(n, n, n, "alpha") : n \in {1, 2}}

MCTables == {t \in SUBSET MCMixedRows : Cardinality(t) = 5} \cup {MCCrowdedRows}
MCSparseTables == {t \in SUBSET MCSparseRows : Cardinality(t) >= 6}

MCWanted == {[category |-> c, subject |-> s, outcome |-> None] : c \in {None, "ledger"}, s \in {None, "alpha"}}
=============================================================================
