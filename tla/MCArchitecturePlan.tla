-------------------------- MODULE MCArchitecturePlan ------------------------
(* Small packets for ArchitecturePlan: three items in two or three Landing Units, *)
(* written down whether or not the checks accept them.                            *)
EXTENDS ArchitecturePlan, FiniteSetsExt, TLC

MCItems == 1..3

Pairs(S) == {e \in S \X S : e[1] # e[2]}

\* Item 1 has the human authority; item 2 is in a unit of its own or in that of item 1.
Layouts == {("a" :> {1} @@ "b" :> {2} @@ "c" :> {3}), ("a" :> {1, 2} @@ "c" :> {3})}

UnitOwner == [u \in {"a", "b", "c"} |->
                 CASE u = "a" -> "security" [] u = "b" -> "studio" [] u = "c" -> "fabric"]

Revisions == [o \in {"security", "studio", "fabric"} |-> "pinned"]

UpTo(n, S) == UNION {kSubset(k, S) : k \in 0..n}

\* At most two prerequisites, of which at most one is a close prerequisite.
Schedules ==
    {s \in [start : UpTo(2, Pairs(MCItems)), close : UpTo(1, Pairs(MCItems))] :
        Cardinality(s.start) + Cardinality(s.close) <= 2}

Unscheduled == [start |-> {}, close |-> {}]
Roots == [i \in MCItems |-> None]

Gate(blocks, affected) == [authority |-> 1, owner |-> "security", blocks |-> blocks,
                           affected |-> affected, evidence |-> {}]

Packet(layout, sourceless, schedule, edges, parent, gates, chains, cases, handoffs) ==
    LET unitOf(i) == CHOOSE u \in DOMAIN layout : i \in layout[u]
        owner == [i \in MCItems |-> UnitOwner[unitOf(i)]]
        sources == DOMAIN layout \ sourceless
    IN [covered |-> MCItems, owner |-> owner, parent |-> parent,
        units |-> [u \in DOMAIN layout |->
                     [items |-> layout[u], owner |-> UnitOwner[u], source |-> u \in sources]],
        startAfter |-> [i \in MCItems |-> {e[1] : e \in {f \in schedule.start : f[2] = i}}],
        closeAfter |-> [i \in MCItems |-> {e[1] : e \in {f \in schedule.close : f[2] = i}}],
        emits |-> [i \in MCItems |-> IF owner[i] = "security" /\ i = 1 THEN DOMAIN gates ELSE {}],
        sourceNodes |-> sources, sourceEdges |-> edges, gates |-> gates, chains |-> chains,
        cases |-> cases, handoffs |-> handoffs,
        allowed |-> [r \in {} |-> {}], prohibited |-> [r \in {} |-> {}],
        revisions |-> [o \in {owner[i] : i \in MCItems} |-> "pinned"]]

\* Work order, source order and a gate held by item 1.
TopologyPackets ==
    UNION {{Packet(layout, {}, schedule, edges, Roots, gates, {}, {}, {}) :
              schedule \in Schedules,
              edges \in UpTo(1, Pairs(DOMAIN layout)),
              gates \in {[g \in {"gate"} |-> Gate(blocks, affected)] :
                            blocks \in {"before_implementation", "before_source_merge"},
                            affected \in {{"c"}, DOMAIN layout}}} :
            layout \in Layouts}

\* A gate of item 1 before runtime activation of unit c or b.
ActivationPackets ==
    LET layout == "a" :> {1} @@ "b" :> {2} @@ "c" :> {3}
        chain(posture, unit, activation) ==
            [gate |-> "gate", commissioning |-> {unit}, posture |-> posture, activation |-> activation,
             owner |-> UnitOwner["b"],
             evidence |-> [repo |-> UnitOwner["b"], revision |-> "pinned", posture |-> posture]]
    IN UNION {{Packet(layout, sourceless, [start |-> start, close |-> {}], edges, Roots,
                      [g \in {"gate"} |-> Gate("before_runtime_activation", {unit})],
                      {chain(posture, unit, activation)}, {}, {}) :
                 sourceless \in {{}, {"a"}},
                 start \in UpTo(1, Pairs(MCItems)),
                 edges \in UpTo(2, Pairs(DOMAIN layout)),
                 activation \in {"a", "b"},
                 posture \in {"source-ready", "owner-source-change-required"}} :
               unit \in {"b", "c"}}

\* An evidence owner, an outcome and a parent of item 2.
CasePackets ==
    UNION {{Packet(layout, {}, schedule, {}, [Roots EXCEPT ![2] = parent],
                   [g \in {"gate"} |-> Gate("before_implementation", {})], {},
                   {[unit |-> unit, applies |-> {i}]}, {}) :
              schedule \in Schedules, parent \in {None, 3}, unit \in DOMAIN layout, i \in MCItems} :
            layout \in Layouts}

\* A handoff between the units of two items.
HandoffPackets ==
    LET layout == "a" :> {1} @@ "b" :> {2} @@ "c" :> {3}
        unitOf(i) == CHOOSE u \in DOMAIN layout : i \in layout[u]
    IN {Packet(layout, sourceless, Unscheduled, edges, Roots,
               [g \in {"gate"} |-> Gate("before_source_merge", {})], {}, {},
               {[producer |-> UnitOwner[unitOf(pair[1])], consumer |-> UnitOwner[unitOf(pair[2])],
                 producerUnit |-> unitOf(pair[1]), consumerUnit |-> unitOf(pair[2]),
                 producerItem |-> pair[1], consumerItem |-> pair[2]]}) :
          sourceless \in {{}, {"b"}},
          edges \in UpTo(2, Pairs(DOMAIN layout)), pair \in Pairs(MCItems)}

MCPlans == TopologyPackets \cup ActivationPackets \cup CasePackets \cup HandoffPackets
=============================================================================
