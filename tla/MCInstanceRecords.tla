-------------------------- MODULE MCInstanceRecords -------------------------
(* Small instances of InstanceRecords: requests that share an operation key, a  *)
(* reviewed state, a provider repository or an AI decision.                     *)
EXTENDS InstanceRecords, TLC

CONSTANTS w1, w2, none

WorkerSymmetry == Permutations(Workers)

\* One row per request: key, record, expected state, value, AI decision.
Row(k, r, e, v, s) == [key |-> k, record |-> r, expected |-> e, value |-> v, suggestion |-> s]
At1(v) == [version |-> 1, value |-> v]
At2(v) == [version |-> 2, value |-> v]

\* register and other share a key; register and claim a provider repository;
\* register and suggest an AI decision; update, move and restore build on register.
Table == [
    register |-> Row("a", "x", none, "one", "ai"),
    other    |-> Row("a", "x", none, "two", none),
    update   |-> Row("b", "x", At1("one"), "two", none),
    move     |-> Row("c", "x", At1("one"), "bare", none),
    claim    |-> Row("d", "y", none, "one", none),
    suggest  |-> Row("e", "y", none, "far", "ai"),
    restore  |-> Row("f", "x", At2("two"), "one", none)]

MCKeyOf == [q \in Requests |-> Table[q].key]
MCRecordOf == [q \in Requests |-> Table[q].record]
MCExpectedOf == [q \in Requests |-> Table[q].expected]
MCValueOf == [q \in Requests |-> Table[q].value]
MCSuggestionOf == [q \in Requests |-> Table[q].suggestion]
MCProviderOf == [v \in Values |-> CASE v = "far" -> "p2" [] v = "bare" -> none [] OTHER -> "p1"]

\* The strict revision allows neither the altered input nor the update, and its Git
\* register claims record x and the provider repository of the value far.
MCAllows == [p \in Policies |-> IF p = "open" THEN Requests ELSE Requests \ {"other", "update"}]
MCEligible == [p \in Policies |-> Values \ {"two"}]
MCLegacy == [p \in Policies |-> IF p = "open" THEN {} ELSE {"x"}]
MCLegacyProviders == [p \in Policies |-> IF p = "open" THEN {} ELSE {"p2"}]
=============================================================================
