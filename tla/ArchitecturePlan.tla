-------------------------- MODULE ArchitecturePlan --------------------------
(***************************************************************************)
(* What the semantic checks of an Architecture Packet are for: the         *)
(* schema v6 rules of _architecture_semantic_errors in                     *)
(* delivery_art_contracts.py, and the work an accepted packet sends out.   *)
(*                                                                         *)
(* A packet divides work items among Landing Units and orders them by      *)
(* start and close prerequisites, by a source landing graph, by human      *)
(* gates and by runtime activation chains.  Each rule below is one block   *)
(* of the checks; a packet is accepted when none of them complains.        *)
(* Carrying a packet out (Start, Close, Land) is the orchestration         *)
(* service's part: the steps say what the declared orders mean.            *)
(*                                                                         *)
(* A list keyed by an id is a function here, so a repeated id, which the   *)
(* code refuses, cannot be written down.                                   *)
(***************************************************************************)
EXTENDS Naturals, FiniteSets, NoValue

CONSTANTS
    Plans \* the packets considered

VARIABLES
    plan,    \* the packet admitted to custody
    started, \* its work items that have started
    closed,  \* its work items that have closed
    landed,  \* its Landing Units that have landed
    reached  \* its work items whose outcome is reached: they and all below them have closed

vars == <<plan, started, closed, landed, reached>>
-----------------------------------------------------------------------------
(* Graph helpers.  Edges are pairs <<before, after>>.                      *)

\* _graph_is_acyclic: nodes without an incoming edge are taken out until none is left.
Acyclic(nodes, edges) ==
    LET left[rest \in SUBSET nodes] ==
            LET free == {n \in rest : \A m \in rest : <<m, n>> \notin edges}
            IN IF free = {} THEN rest ELSE left[rest \ free]
    IN left[nodes] = {}

\* _graph_has_path: a path of at least one edge.
HasPath(edges, from, to) ==
    LET nodes == UNION {{e[1], e[2]} : e \in edges}
        walk[seen \in SUBSET nodes] ==
            LET next == seen \cup {n \in nodes : \E m \in seen : <<m, n>> \in edges}
            IN IF next = seen THEN seen ELSE walk[next]
    IN to \in walk[{n \in nodes : <<from, n>> \in edges}]
-----------------------------------------------------------------------------
(* The parts of a packet p.                                                *)

Items(p) == DOMAIN p.owner     \* descendant_owner_map
Units(p) == DOMAIN p.units     \* landing_units
Gates(p) == DOMAIN p.gates     \* required_human_gates

\* A packet is a finite document, and a Landing Unit covers a work item (workItemIds of the schema).
ASSUME PlanAssumption ==
    \A p \in Plans :
        /\ IsFiniteSet(Items(p)) /\ IsFiniteSet(Units(p))
        /\ \A u \in Units(p) : p.units[u].items # {}

UnitOf(p, i) == CHOOSE u \in Units(p) : i \in p.units[u].items
SourceBacked(p) == {u \in Units(p) : p.units[u].source}
Prerequisites(p, i) == p.startAfter[i] \cup p.closeAfter[i]
StartEdges(p) == {e \in Items(p) \X Items(p) : e[1] \in p.startAfter[e[2]]}
ScheduleEdges(p) == {e \in Items(p) \X Items(p) : e[1] \in Prerequisites(p, e[2])}

\* runtime_boundaries: custody, authorship and the two prohibitions.
BoundariesAreSound(p) ==
    LET allowed(repo) == IF repo \in DOMAIN p.allowed THEN p.allowed[repo] ELSE {}
        prohibited(repo) == IF repo \in DOMAIN p.prohibited THEN p.prohibited[repo] ELSE {}
    IN DOMAIN p.allowed # {} =>
        /\ "persist" \in allowed("fabric")
        /\ {"author", "submit", "project-reference"} \subseteq allowed("orchestration")
        /\ {"persist", "project-content"} \subseteq prohibited("orchestration")
        /\ \A repo \in DOMAIN p.allowed :
              /\ "persist" \in allowed(repo) => repo = "fabric"
              /\ "project-content" \notin allowed(repo)

\* descendant_owner_map: it covers the packet, and its parent links form a forest.
OwnersAreSound(p) ==
    LET parents == {e \in Items(p) \X Items(p) : p.parent[e[1]] = e[2]}
    IN /\ Items(p) = p.covered
       /\ Items(p) = {} \/ \E i \in Items(p) : p.parent[i] = None
       /\ \A i \in Items(p) : p.parent[i] \in p.covered \cup {None}
       /\ Acyclic(Items(p), parents)

\* work_item_execution_plan.
ScheduleIsSound(p) ==
    /\ \A i \in Items(p) :
          /\ p.startAfter[i] \cap p.closeAfter[i] = {}
          /\ Prerequisites(p, i) \subseteq p.covered \ {i}
    /\ Acyclic(p.covered, StartEdges(p))
    /\ Acyclic(p.covered, ScheduleEdges(p))

\* landing_units: every item in exactly one unit, of the owner of its items.
UnitsAreSound(p) ==
    /\ UNION {p.units[u].items : u \in Units(p)} = p.covered
    /\ \A u, v \in Units(p) : u # v => p.units[u].items \cap p.units[v].items = {}
    /\ \A u \in Units(p) : \A i \in p.units[u].items \cap Items(p) : p.owner[i] = p.units[u].owner

\* source_landing_graph.
SourceGraphIsSound(p) ==
    /\ p.sourceNodes = SourceBacked(p)
    /\ p.sourceEdges \subseteq p.sourceNodes \X p.sourceNodes
    /\ Acyclic(p.sourceNodes, p.sourceEdges)

\* evidence_receipt_handoffs: between two owners, along the source landing graph.
HandoffsAreSound(p) ==
    \A h \in p.handoffs :
        /\ h.producer # h.consumer
        /\ {h.producerUnit, h.consumerUnit} \subseteq Units(p)
        /\ p.units[h.producerUnit].owner = h.producer
        /\ p.units[h.consumerUnit].owner = h.consumer
        /\ h.producerItem \in p.covered \cap p.units[h.producerUnit].items
        /\ h.consumerItem \in p.covered \cap p.units[h.consumerUnit].items
        /\ {h.producerUnit, h.consumerUnit} \subseteq p.sourceNodes =>
              HasPath(p.sourceEdges, h.producerUnit, h.consumerUnit)

\* required_human_gates.
GatesAreSound(p) ==
    \A g \in Gates(p) :
        LET gate == p.gates[g]
        IN /\ gate.authority \in p.covered
           /\ gate.owner = p.owner[gate.authority]
           /\ gate.affected \subseteq Units(p)
           /\ gate.blocks = "before_source_merge" => gate.affected \subseteq SourceBacked(p)
           /\ gate.evidence \subseteq p.covered \cap Prerequisites(p, gate.authority)

\* early_human_gate_edges: the authority's unit before each other unit the gate holds up.
EarlyGateEdges(p) ==
    UNION {{<<UnitOf(p, p.gates[g].authority), u>> :
                u \in p.gates[g].affected \ {UnitOf(p, p.gates[g].authority)}} :
              g \in {h \in Gates(p) : p.gates[h].blocks \in
                                        {"before_implementation", "before_source_merge"}}}

\* Mutant: gates are left out, as they were before the gate topology change.
WorkAndSource(p) ==
    p.sourceEdges \cup
      {e \in Units(p) \X Units(p) :
          /\ e[1] # e[2]
          /\ \E s \in ScheduleEdges(p) : s[1] \in p.units[e[1]].items /\ s[2] \in p.units[e[2]].items}

\* combined_landing_edges.
CombinedEdges(p) == WorkAndSource(p) \cup EarlyGateEdges(p)

TopologyIsSound(p) == Acyclic(Units(p), CombinedEdges(p))

\* Emission of gates: each by its authority alone; a Security item emits at least one.
EmissionIsSound(p) ==
    /\ \A i \in Items(p) : p.emits[i] \subseteq Gates(p)
    /\ \A g \in Gates(p) : {i \in Items(p) : g \in p.emits[i]} = {p.gates[g].authority}
    /\ \A i \in Items(p) : p.owner[i] = "security" => p.emits[i] # {}

\* Mutant: the activation unit is not ordered before commissioning.
ActivationUnordered(p, chain) ==
    /\ chain.activation \in SourceBacked(p) \ chain.commissioning
    /\ p.units[chain.activation].owner = chain.owner
    /\ \A i \in p.units[chain.activation].items :
          p.gates[chain.gate].authority \in Prerequisites(p, i)

\* The chain of an owner whose source has to change before the runtime is activated.
ActivationIsOrdered(p, chain) ==
    LET gate == p.gates[chain.gate]
    IN /\ ActivationUnordered(p, chain)
       /\ UnitOf(p, gate.authority) \in p.sourceNodes =>
             HasPath(p.sourceEdges, UnitOf(p, gate.authority), chain.activation)
       /\ \A u \in chain.commissioning \cap p.sourceNodes :
             HasPath(p.sourceEdges, chain.activation, u)

\* runtime_activation_chains: one for each gate before runtime activation.
ChainsAreSound(p) ==
    /\ {c.gate : c \in p.chains} = {g \in Gates(p) : p.gates[g].blocks = "before_runtime_activation"}
    /\ \A c, d \in p.chains : c # d => c.gate # d.gate
    /\ \A c \in p.chains :
          LET gate == p.gates[c.gate]
          IN /\ c.commissioning = gate.affected
             /\ c.owner \in {p.owner[i] : i \in Items(p)}
             /\ c.evidence = [repo |-> c.owner, revision |-> p.revisions[c.owner],
                              posture |-> c.posture]
             /\ c.commissioning \subseteq SourceBacked(p)
             /\ c.posture = "source-ready" /\ UnitOf(p, gate.authority) \in p.sourceNodes =>
                   \A u \in c.commissioning :
                       HasPath(p.sourceEdges, UnitOf(p, gate.authority), u)
             /\ c.posture = "owner-source-change-required" => ActivationIsOrdered(p, c)

\* The items that come after the evidence owner: along the schedule, then up to the parents.
OrderedOutcomes(p, unit) ==
    LET own == p.units[unit].items
        after == own \cup {i \in p.covered : \E o \in own : HasPath(ScheduleEdges(p), o, i)}
        parents == {e \in Items(p) \X Items(p) : p.parent[e[1]] = e[2]}
    IN after \cup {i \in Items(p) : \E j \in after : HasPath(parents, j, i)}

\* conformance_plan.cases of schemas v5 and v6.
CasesAreSound(p) ==
    \A c \in p.cases : c.unit \in Units(p) /\ c.applies \subseteq OrderedOutcomes(p, c.unit)

\* source_snapshot: one revision for each owner.
SnapshotIsSound(p) == DOMAIN p.revisions = {p.owner[i] : i \in Items(p)}

\* _architecture_semantic_errors finds nothing.
Accepted(p) ==
    /\ BoundariesAreSound(p)
    /\ OwnersAreSound(p)
    /\ ScheduleIsSound(p)
    /\ UnitsAreSound(p)
    /\ SourceGraphIsSound(p)
    /\ HandoffsAreSound(p)
    /\ GatesAreSound(p)
    /\ TopologyIsSound(p)
    /\ EmissionIsSound(p)
    /\ ChainsAreSound(p)
    /\ CasesAreSound(p)
    /\ SnapshotIsSound(p)
-----------------------------------------------------------------------------
(* Carrying out an accepted plan, in the strictest reading of its orders.  *)

Children(p, i) == {j \in Items(p) : p.parent[j] = i}

\* The authority of a gate of this kind on unit u, in another unit, has closed.
GatesOpen(u, blocks) ==
    \A g \in Gates(plan) :
        /\ plan.gates[g].blocks = blocks
        /\ u \in plan.gates[g].affected
        /\ u # UnitOf(plan, plan.gates[g].authority)
        => plan.gates[g].authority \in closed

\* A unit is worked on when the source it builds on has landed and its gates are open.
MayStart(i) ==
    /\ i \notin started
    /\ plan.startAfter[i] \subseteq closed
    /\ GatesOpen(UnitOf(plan, i), "before_implementation")
    /\ \A e \in plan.sourceEdges : e[2] = UnitOf(plan, i) => e[1] \in landed

MayClose(i) == i \in started \ closed /\ plan.closeAfter[i] \subseteq closed

MayLand(u) ==
    /\ u \notin landed
    /\ plan.units[u].items \subseteq closed
    /\ GatesOpen(u, "before_source_merge")

MayReach(i) == i \in closed \ reached /\ Children(plan, i) \subseteq reached

Start(i) ==
    /\ MayStart(i)
    /\ started' = started \cup {i}
    /\ UNCHANGED <<plan, closed, landed, reached>>

Close(i) ==
    /\ MayClose(i)
    /\ closed' = closed \cup {i}
    /\ UNCHANGED <<plan, started, landed, reached>>

Land(u) ==
    /\ MayLand(u)
    /\ landed' = landed \cup {u}
    /\ UNCHANGED <<plan, started, closed, reached>>

Reach(i) ==
    /\ MayReach(i)
    /\ reached' = reached \cup {i}
    /\ UNCHANGED <<plan, started, closed, landed>>

Finished == reached = Items(plan) /\ landed = Units(plan)

Init ==
    /\ plan \in Plans /\ Accepted(plan)
    /\ started = {} /\ closed = {} /\ landed = {} /\ reached = {}

Next ==
    \/ \E i \in Items(plan) : Start(i) \/ Close(i) \/ Reach(i)
    \/ \E u \in Units(plan) : Land(u)
    \/ Finished /\ UNCHANGED vars

Spec == Init /\ [][Next]_vars
-----------------------------------------------------------------------------
(* Properties.                                                             *)

\* An accepted packet can be carried out: whatever order its items are taken in, work, source
\* landing and human gates never all wait for one another (the combined topology check).
NeverStuck ==
    \/ Finished
    \/ \E i \in Items(plan) : MayStart(i) \/ MayClose(i) \/ MayReach(i)
    \/ \E u \in Units(plan) : MayLand(u)

\* Commissioning begins after the human authority of its runtime gate and, where the owner's
\* source has to change first, after that change has landed (the activation chains).
ActivationPrecedesCommissioning ==
    \A c \in plan.chains :
        LET authority == plan.gates[c.gate].authority
        IN \A u \in c.commissioning :
              plan.units[u].items \cap started # {} =>
                  /\ c.posture = "owner-source-change-required" =>
                        c.activation \in landed /\ authority \in closed
                  /\ c.posture = "source-ready" /\ UnitOf(plan, authority) \in SourceBacked(plan) =>
                        authority \in closed

\* No outcome is reached before its evidence owner has closed work, along the schedule and up
\* to the parents (the evidence ownership of the conformance cases).
EvidencePrecedesOutcome ==
    \A c \in plan.cases : \A i \in c.applies \cap reached : plan.units[c.unit].items \cap closed # {}

\* What one owner hands to another has landed before the other starts, when both land source
\* (the evidence handoffs).
HandoffPrecedesUse ==
    \A h \in plan.handoffs :
        /\ {h.producerUnit, h.consumerUnit} \subseteq SourceBacked(plan)
        /\ h.consumerItem \in started
        => h.producerUnit \in landed

\* The three orders a packet declares are the order things happen in.
OrderIsKept == ActivationPrecedesCommissioning /\ EvidencePrecedesOutcome /\ HandoffPrecedesUse
=============================================================================
