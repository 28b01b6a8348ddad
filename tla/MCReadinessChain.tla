-------------------------- MODULE MCReadinessChain --------------------------
(* Two processes across an upgrade, three requests for two subjects, and a source whose *)
(* record and rule change one at a time.                                                *)
EXTENDS ReadinessChain, TLC

Request(subject, release, expected, outcome, custody) ==
    [subject |-> subject, release |-> release, expected |-> expected, outcome |-> outcome,
     custody |-> custody]

MCRequests == {Request("alpha", "old", "v1", "ready", {1}), Request("alpha", "new", "v1", "blocked", {4}),
               Request("beta", "old", "v1", "blocked", {})}

Revision(digest, lifecycle, rule) ==
    [record |-> [digest |-> digest, lifecycle |-> lifecycle], rule |-> rule]

MCTimes == [l \in Ledgers |-> IF l = "delivery" THEN {1, 6} ELSE {1}]

MCRevisions == {Revision("v1", "active", [lifecycle |-> "active"]),
                Revision("v1", "active", None),
                Revision("v2", "retired", [lifecycle |-> "retired"])}
=============================================================================
