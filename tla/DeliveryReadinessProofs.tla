---------------------- MODULE DeliveryReadinessProofs ----------------------
(* What an accepted Architecture Packet and a finalized Review Packet promise, for packets   *)
(* of any size.  The two graph helpers are recursive functions; what they compute is shown    *)
(* first, from the well-foundedness of finite sets.                                           *)
EXTENDS DeliveryReadiness, FiniteSetTheorems, TLAPS

\* The nodes of some that none of them comes before, and the function left of Acyclic.
Free(rest, edges) == {n \in rest : \A m \in rest : <<m, n>> \notin edges}

LeftOf(nodes, edges) ==
    CHOOSE left : left = [rest \in SUBSET nodes |->
        IF Free(rest, edges) = {} THEN rest ELSE left[rest \ Free(rest, edges)]]

\* _graph_is_acyclic is that nothing is left.
LEMMA AcyclicIs == ASSUME NEW nodes, NEW edges PROVE Acyclic(nodes, edges) <=> LeftOf(nodes, edges)[nodes] = {}
BY DEF Acyclic, LeftOf, Free

\* What has no first member is never taken out.
Cyclic(S, edges) == \A n \in S : \E m \in S : <<m, n>> \in edges

\* The largest part of some nodes that has no first node.
Core(rest, edges) == UNION {S \in SUBSET rest : Cyclic(S, edges)}

\* Taking out the free nodes takes nothing of that away,
LEMMA FreeOutsideCore == ASSUME NEW rest, NEW edges PROVE Core(rest, edges) = Core(rest \ Free(rest, edges), edges)
<1>1. ASSUME NEW S \in SUBSET rest, Cyclic(S, edges) PROVE S \in SUBSET (rest \ Free(rest, edges))
  BY <1>1 DEF Cyclic, Free
<1> QED BY <1>1 DEF Core

\* and when nothing is free it is all that remains.
LEMMA NoFreeCore == ASSUME NEW rest, NEW edges, Free(rest, edges) = {} PROVE Core(rest, edges) = rest
<1>1. Cyclic(rest, edges)
  BY DEF Free, Cyclic
<1> QED BY <1>1 DEF Core

\* So there is a function that computes what is left, and left is one.
LEMMA LeftExists ==
    ASSUME NEW nodes, NEW edges, NEW rest \in SUBSET nodes
    PROVE  LeftOf(nodes, edges)[rest] =
             IF Free(rest, edges) = {} THEN rest ELSE LeftOf(nodes, edges)[rest \ Free(rest, edges)]
<1> DEFINE IsLeft(left) == left = [r \in SUBSET nodes |->
              IF Free(r, edges) = {} THEN r ELSE left[r \ Free(r, edges)]]
           core == [r \in SUBSET nodes |-> Core(r, edges)]
<1>1. IsLeft(core)
  <2>1. ASSUME NEW r \in SUBSET nodes
        PROVE Core(r, edges) = IF Free(r, edges) = {} THEN r ELSE core[r \ Free(r, edges)]
    <3>1. r \ Free(r, edges) \in SUBSET nodes
      OBVIOUS
    <3>2. core[r \ Free(r, edges)] = Core(r \ Free(r, edges), edges)
      BY <3>1
    <3> QED BY <3>2, FreeOutsideCore, NoFreeCore
  <2> QED BY <2>1
<1> HIDE DEF core
<1>2. IsLeft(LeftOf(nodes, edges))
  BY <1>1 DEF LeftOf
<1> QED BY <1>2

\* A set of sets of nodes has a smallest member.
LEMMA SmallestSet ==
    ASSUME NEW nodes, IsFiniteSet(nodes), NEW T \in SUBSET SUBSET nodes, T # {}
    PROVE  \E x \in T : \A y \in T : y \subseteq x => y = x
<1>1. FiniteSubsetsOf(nodes) = SUBSET nodes
  BY FS_FiniteSubsetsOfFinite
<1>2. IsWellFoundedOn(StrictSubsetOrdering(nodes), SUBSET nodes)
  BY <1>1, FS_StrictSubsetOrderingWellFounded
<1>3. PICK x \in T : \A y \in T : ~(<<y, x>> \in StrictSubsetOrdering(nodes))
  BY <1>2, WFMin
<1>4. ASSUME NEW y \in T, y \subseteq x, y # x PROVE FALSE
  <2>1. <<y, x>> \in StrictSubsetOrdering(nodes)
    BY <1>4 DEF StrictSubsetOrdering
  <2> QED BY <1>3, <2>1
<1> QED BY <1>4

\* Nodes that each have a predecessor among them are left.
LEMMA CyclesAreLeft ==
    ASSUME NEW nodes, IsFiniteSet(nodes), NEW edges, NEW S \in SUBSET nodes, Cyclic(S, edges)
    PROVE  S \subseteq LeftOf(nodes, edges)[nodes]
<1> DEFINE left == LeftOf(nodes, edges)
           bad == {rest \in SUBSET nodes : S \subseteq rest /\ ~(S \subseteq left[rest])}
<1>1. ASSUME NEW rest \in SUBSET nodes
      PROVE  left[rest] = IF Free(rest, edges) = {} THEN rest ELSE left[rest \ Free(rest, edges)]
  BY LeftExists
<1> HIDE DEF left
<1>2. ASSUME bad # {} PROVE FALSE
  <2>0. bad \in SUBSET SUBSET nodes
    OBVIOUS
  <2>1. PICK rest \in bad : \A y \in bad : y \subseteq rest => y = rest
    <3> HIDE DEF bad
    <3> QED BY <1>2, <2>0, SmallestSet
  <2>2. Free(rest, edges) # {}
    BY <1>1, <2>1
  <2>3. S \subseteq rest \ Free(rest, edges)
    BY <2>1 DEF Cyclic, Free
  <2>4. rest \ Free(rest, edges) \in bad
    BY <1>1, <2>1, <2>2, <2>3
  <2>5. Free(rest, edges) \subseteq rest
    BY DEF Free
  <2> QED BY <2>1, <2>2, <2>4, <2>5
<1> QED BY <1>2 DEF left

\* What the checks of the packet use an acyclic graph for: any of its nodes have a first.
LEMMA AcyclicFirst ==
    ASSUME NEW nodes, IsFiniteSet(nodes), NEW edges, Acyclic(nodes, edges), NEW S \in SUBSET nodes, S # {}
    PROVE  \E n \in S : \A m \in S : <<m, n>> \notin edges
<1> SUFFICES ASSUME Cyclic(S, edges) PROVE FALSE
  BY DEF Cyclic
<1> QED BY AcyclicIs, CyclesAreLeft

-----------------------------------------------------------------------------
(* Paths.                                                                  *)

\* The nodes of a path, and what a step of the walk adds.
Ends(edges) == UNION {{e[1], e[2]} : e \in edges}
After(seen, edges) == seen \cup {n \in Ends(edges) : \E m \in seen : <<m, n>> \in edges}

\* The function walk of HasPath.
WalkOf(edges) ==
    CHOOSE walk : walk = [seen \in SUBSET Ends(edges) |->
        IF After(seen, edges) = seen THEN seen ELSE walk[After(seen, edges)]]

\* _graph_has_path is that the walk gets there.
LEMMA PathIs == ASSUME NEW edges, NEW from, NEW to
  PROVE HasPath(edges, from, to) <=> to \in WalkOf(edges)[{n \in Ends(edges) : <<from, n>> \in edges}]
BY DEF HasPath, WalkOf, Ends, After

\* No edge leaves a set; and the smallest such set around what was seen.
Closed(S, edges) == \A m \in S, n \in Ends(edges) : <<m, n>> \in edges => n \in S

Closure(seen, edges) == {n \in Ends(edges) : \A S \in SUBSET Ends(edges) : seen \subseteq S /\ Closed(S, edges) => n \in S}

\* One step of the walk leaves the closure as it is,
LEMMA ClosureOfAfter ==
    ASSUME NEW edges, NEW seen \in SUBSET Ends(edges)
    PROVE  Closure(seen, edges) = Closure(After(seen, edges), edges)
<1>1. ASSUME NEW S \in SUBSET Ends(edges), Closed(S, edges)
      PROVE  seen \subseteq S <=> After(seen, edges) \subseteq S
  BY <1>1 DEF Closed, After
<1> QED BY <1>1 DEF Closure

\* and the walk stops at it.
LEMMA ClosureOfClosed ==
    ASSUME NEW edges, NEW seen \in SUBSET Ends(edges), After(seen, edges) = seen
    PROVE  Closure(seen, edges) = seen
<1>1. Closed(seen, edges)
  BY DEF After, Closed
<1> QED BY <1>1 DEF Closure

\* So there is a function that computes the walk, and walk is one.
LEMMA WalkExists ==
    ASSUME NEW edges, NEW seen \in SUBSET Ends(edges)
    PROVE  WalkOf(edges)[seen] =
             IF After(seen, edges) = seen THEN seen ELSE WalkOf(edges)[After(seen, edges)]
<1> DEFINE IsWalk(walk) == walk = [x \in SUBSET Ends(edges) |->
              IF After(x, edges) = x THEN x ELSE walk[After(x, edges)]]
           closure == [x \in SUBSET Ends(edges) |-> Closure(x, edges)]
<1>1. IsWalk(closure)
  <2>1. ASSUME NEW x \in SUBSET Ends(edges)
        PROVE  Closure(x, edges) = IF After(x, edges) = x THEN x ELSE closure[After(x, edges)]
    <3>1. After(x, edges) \in SUBSET Ends(edges)
      BY DEF After
    <3>2. closure[After(x, edges)] = Closure(After(x, edges), edges)
      BY <3>1
    <3> QED BY <3>2, ClosureOfAfter, ClosureOfClosed
  <2> QED BY <2>1
<1> HIDE DEF closure
<1>2. IsWalk(WalkOf(edges))
  BY <1>1 DEF WalkOf
<1> QED BY <1>2

\* A walk does not leave a set that no edge leaves.
LEMMA WalksStay ==
    ASSUME NEW edges, IsFiniteSet(Ends(edges)), NEW S \in SUBSET Ends(edges), Closed(S, edges),
           NEW seen \in SUBSET S
    PROVE  WalkOf(edges)[seen] \subseteq S
<1> DEFINE walk == WalkOf(edges)
           bad == {x \in SUBSET Ends(edges) : x \subseteq S /\ ~(walk[x] \subseteq S)}
           rest == {Ends(edges) \ x : x \in bad}
<1>1. ASSUME NEW x \in SUBSET Ends(edges)
      PROVE  walk[x] = IF After(x, edges) = x THEN x ELSE walk[After(x, edges)]
  BY WalkExists
<1> HIDE DEF walk
<1>2. ASSUME bad # {} PROVE FALSE
  <2>1. rest # {} /\ rest \in SUBSET SUBSET Ends(edges)
    BY <1>2
  <2>2. PICK r \in rest : \A y \in rest : y \subseteq r => y = r
    <3> HIDE DEF rest
    <3> QED BY <2>1, SmallestSet
  <2>3. PICK x \in bad : r = Ends(edges) \ x
    BY <2>2
  <2>4. After(x, edges) # x
    BY <1>1, <2>3
  <2>5. After(x, edges) \subseteq S /\ x \subseteq After(x, edges) /\ After(x, edges) \in SUBSET Ends(edges)
    BY <2>3 DEF Closed, After
  <2>6. After(x, edges) \in bad
    BY <1>1, <2>3, <2>4, <2>5
  <2>7. Ends(edges) \ After(x, edges) \in rest /\ Ends(edges) \ After(x, edges) \subseteq r
    BY <2>3, <2>5, <2>6
  <2>8. Ends(edges) \ After(x, edges) = Ends(edges) \ x
    BY <2>2, <2>3, <2>7
  <2> QED BY <2>3, <2>4, <2>5, <2>8
<1> QED BY <1>2 DEF walk

\* What a path is for: what holds after one edge and along edges holds at its end.
LEMMA PathStays ==
    ASSUME NEW edges, IsFiniteSet(Ends(edges)), NEW from, NEW to, HasPath(edges, from, to),
           NEW S \in SUBSET Ends(edges), Closed(S, edges),
           \A n \in Ends(edges) : <<from, n>> \in edges => n \in S
    PROVE  to \in S
<1>1. {n \in Ends(edges) : <<from, n>> \in edges} \in SUBSET S
  OBVIOUS
<1> QED BY <1>1, PathIs, WalksStay
-----------------------------------------------------------------------------
(* Carrying out an accepted packet.                                        *)

\* Edges between members of a finite set have finitely many ends.
LEMMA EndsFinite ==
    ASSUME NEW X, IsFiniteSet(X), NEW edges \in SUBSET (X \X X)
    PROVE  Ends(edges) \subseteq X /\ IsFiniteSet(Ends(edges))
<1>1. Ends(edges) \subseteq X
  BY DEF Ends
<1> QED BY <1>1, FS_Subset

\* The ends of an edge are among them.
LEMMA EdgeEnds ==
    ASSUME NEW X, NEW edges \in SUBSET (X \X X), NEW m, NEW n, <<m, n>> \in edges
    PROVE  m \in X /\ n \in X /\ m \in Ends(edges) /\ n \in Ends(edges)
<1>1. <<m, n>>[1] = m /\ <<m, n>>[2] = n
  OBVIOUS
<1>2. m \in Ends(edges) /\ n \in Ends(edges)
  BY <1>1 DEF Ends
<1> QED BY <1>1, <1>2

ParentEdges(p) == {e \in Items(p) \X Items(p) : p.parent[e[1]] = e[2]}

\* Work goes along the orders of the packet, and what has happened stays so.
WorkIsOrdered ==
    /\ \A i \in started :
          /\ plan.startAfter[i] \subseteq closed
          /\ \A e \in plan.sourceEdges : e[2] = UnitOf(plan, i) => e[1] \in landed
    /\ \A i \in closed : plan.closeAfter[i] \subseteq closed
    /\ \A u \in landed : plan.units[u].items \subseteq closed
    /\ \A i \in reached : Children(plan, i) \subseteq reached

PlanTypeOK ==
    /\ plan \in Plans /\ Accepted(plan)
    /\ started \subseteq Items(plan) /\ closed \subseteq started /\ reached \subseteq closed
    /\ landed \subseteq Units(plan)

PlanInv == PlanTypeOK /\ WorkIsOrdered

\* Before anything is started nothing is ordered yet.
LEMMA PlanInit == ASSUME Init PROVE PlanInv
BY DEF Init, PlanInv, PlanTypeOK, WorkIsOrdered

\* No step of an execution leaves the order of the work.
LEMMA PlanNext == ASSUME PlanInv, [Next]_vars PROVE PlanInv'
<1> USE DEF PlanInv, PlanTypeOK, WorkIsOrdered
<1>1. CASE UNCHANGED vars
  BY <1>1 DEF vars
<1>2. ASSUME NEW i \in Items(plan), Start(i) PROVE PlanInv'
  BY <1>2 DEF Start, MayStart
<1>3. ASSUME NEW i \in Items(plan), Close(i) PROVE PlanInv'
  BY <1>3 DEF Close, MayClose
<1>4. ASSUME NEW i \in Items(plan), Reach(i) PROVE PlanInv'
  BY <1>4 DEF Reach, MayReach
<1>5. ASSUME NEW u \in Units(plan), Land(u) PROVE PlanInv'
  BY <1>5 DEF Land, MayLand
<1> QED BY <1>1, <1>2, <1>3, <1>4, <1>5 DEF Next

\* Every item is in one Landing Unit, and the items are those the packet covers.
LEMMA UnitsPartition ==
    ASSUME NEW p, Accepted(p)
    PROVE  /\ Items(p) = p.covered
           /\ \A u \in Units(p) : p.units[u].items \subseteq Items(p)
           /\ \A i \in Items(p) : UnitOf(p, i) \in Units(p) /\ i \in p.units[UnitOf(p, i)].items
           /\ \A u \in Units(p) : \A i \in p.units[u].items : UnitOf(p, i) = u
<1>1. Items(p) = p.covered
  BY DEF Accepted, OwnersAreSound
<1>2. UNION {p.units[u].items : u \in Units(p)} = p.covered
  BY DEF Accepted, UnitsAreSound
<1>3. \A u, v \in Units(p) : u # v => p.units[u].items \cap p.units[v].items = {}
  BY DEF Accepted, UnitsAreSound
<1>4. ASSUME NEW i \in Items(p) PROVE UnitOf(p, i) \in Units(p) /\ i \in p.units[UnitOf(p, i)].items
  <2>1. \E u \in Units(p) : i \in p.units[u].items
    BY <1>1, <1>2
  <2> QED BY <2>1 DEF UnitOf
<1>5. \A u \in Units(p) : p.units[u].items \subseteq Items(p)
  BY <1>1, <1>2
<1>6. ASSUME NEW u \in Units(p), NEW i \in p.units[u].items PROVE UnitOf(p, i) = u
  BY <1>3, <1>4, <1>5
<1> QED BY <1>1, <1>4, <1>5, <1>6

\* The graphs of an accepted packet are over finite sets.
LEMMA GraphsAreFinite ==
    ASSUME NEW p \in Plans, Accepted(p)
    PROVE  /\ IsFiniteSet(Items(p)) /\ IsFiniteSet(Units(p))
           /\ p.sourceEdges \in SUBSET (Units(p) \X Units(p))
           /\ ScheduleEdges(p) \in SUBSET (Items(p) \X Items(p))
           /\ ParentEdges(p) \in SUBSET (Items(p) \X Items(p))
<1>1. p.sourceEdges \in SUBSET (Units(p) \X Units(p))
  BY DEF Accepted, SourceGraphIsSound, SourceBacked
<1> QED BY <1>1, PlanAssumption DEF ScheduleEdges, ParentEdges
-----------------------------------------------------------------------------
(* The orders are kept.                                                    *)

\* The source that a unit builds on, however far back, has landed before work on the unit starts.
LEMMA SourceLandsFirst ==
    ASSUME PlanInv, NEW u \in Units(plan), NEW v, HasPath(plan.sourceEdges, v, u),
           plan.units[u].items \cap started # {}
    PROVE  v \in landed
<1> DEFINE edges == plan.sourceEdges
           late == {n \in Ends(edges) : n \notin landed /\ \E m : <<m, n>> \in edges /\ m \notin landed}
<1>1. IsFiniteSet(Ends(edges)) /\ edges \in SUBSET (Units(plan) \X Units(plan))
  BY GraphsAreFinite, EndsFinite DEF PlanInv, PlanTypeOK
<1>2. ASSUME NEW m, NEW n, <<m, n>> \in edges, plan.units[n].items \cap started # {}
      PROVE  m \in landed
  <2>1. n \in Units(plan)
    BY <1>1, <1>2, EdgeEnds
  <2>2. PICK i \in plan.units[n].items : i \in started
    BY <1>2
  <2>3. UnitOf(plan, i) = n
    BY <2>1, <2>2, UnitsPartition DEF PlanInv, PlanTypeOK
  <2>4. <<m, n>>[1] = m /\ <<m, n>>[2] = n
    OBVIOUS
  <2> QED BY <1>2, <2>2, <2>3, <2>4 DEF PlanInv, WorkIsOrdered
<1>3. ASSUME NEW n \in landed PROVE plan.units[n].items \cap started # {}
  <2>1. plan.units[n].items # {}
    BY <1>3, PlanAssumption DEF PlanInv, PlanTypeOK
  <2> QED BY <1>3, <2>1 DEF PlanInv, PlanTypeOK, WorkIsOrdered
<1>4. ASSUME v \notin landed PROVE FALSE
  <2>1. \A n \in Ends(edges) : <<v, n>> \in edges => n \in late
    BY <1>2, <1>3, <1>4
  <2>2. Closed(late, edges)
    BY <1>2, <1>3 DEF Closed
  <2>3. late \in SUBSET Ends(edges)
    OBVIOUS
  <2> HIDE DEF late
  <2>4. u \in late
    BY <1>1, <2>1, <2>2, <2>3, PathStays
  <2> QED BY <1>2, <2>4 DEF late
<1> QED BY <1>4

\* What an item comes after in the schedule, however far back, has closed when the item has.
LEMMA ClosedAlongSchedule ==
    ASSUME PlanInv, NEW i \in closed, NEW o, HasPath(ScheduleEdges(plan), o, i)
    PROVE  o \in closed
<1> DEFINE edges == ScheduleEdges(plan)
           open == {n \in Ends(edges) : n \notin closed}
<1>1. IsFiniteSet(Ends(edges)) /\ edges \in SUBSET (Items(plan) \X Items(plan))
  BY GraphsAreFinite, EndsFinite DEF PlanInv, PlanTypeOK
<1>2. ASSUME NEW m, NEW n \in closed, <<m, n>> \in edges PROVE m \in closed
  <2>1. m \in Prerequisites(plan, n)
    BY <1>2 DEF ScheduleEdges
  <2> QED BY <2>1 DEF Prerequisites, PlanInv, PlanTypeOK, WorkIsOrdered
<1>3. ASSUME o \notin closed PROVE FALSE
  <2>1. (\A n \in Ends(edges) : <<o, n>> \in edges => n \in open) /\ Closed(open, edges)
    BY <1>2, <1>3 DEF Closed
  <2>2. open \in SUBSET Ends(edges) /\ i \notin open
    OBVIOUS
  <2> HIDE DEF open
  <2> QED BY <1>1, <2>1, <2>2, PathStays
<1> QED BY <1>3

\* What is below an item, however far down, is reached when the item is.
LEMMA ReachedBelow ==
    ASSUME PlanInv, NEW i \in reached, NEW j, HasPath(ParentEdges(plan), j, i)
    PROVE  j \in reached
<1> DEFINE edges == ParentEdges(plan)
           open == {n \in Ends(edges) : n \notin reached}
<1>1. IsFiniteSet(Ends(edges)) /\ edges \in SUBSET (Items(plan) \X Items(plan))
  BY GraphsAreFinite, EndsFinite DEF PlanInv, PlanTypeOK
<1>2. ASSUME NEW m, NEW n \in reached, <<m, n>> \in edges PROVE m \in reached
  <2>1. m \in Children(plan, n)
    BY <1>2 DEF ParentEdges, Children
  <2> QED BY <2>1 DEF PlanInv, WorkIsOrdered
<1>3. ASSUME j \notin reached PROVE FALSE
  <2>1. (\A n \in Ends(edges) : <<j, n>> \in edges => n \in open) /\ Closed(open, edges)
    BY <1>2, <1>3 DEF Closed
  <2>2. open \in SUBSET Ends(edges) /\ i \notin open
    OBVIOUS
  <2> HIDE DEF open
  <2> QED BY <1>1, <2>1, <2>2, PathStays
<1> QED BY <1>3

\* Between owners that land source, what is handed over has landed before the work it is for starts.
LEMMA HandoffOrder == ASSUME PlanInv PROVE HandoffPrecedesUse
<1> SUFFICES ASSUME NEW h \in plan.handoffs,
                    {h.producerUnit, h.consumerUnit} \subseteq SourceBacked(plan),
                    h.consumerItem \in started
             PROVE  h.producerUnit \in landed
  BY DEF HandoffPrecedesUse
<1>1. HandoffsAreSound(plan) /\ SourceGraphIsSound(plan)
  BY DEF PlanInv, PlanTypeOK, Accepted
<1>2. HasPath(plan.sourceEdges, h.producerUnit, h.consumerUnit)
  BY <1>1 DEF HandoffsAreSound, SourceGraphIsSound
<1>3. h.consumerUnit \in Units(plan) /\ h.consumerItem \in plan.units[h.consumerUnit].items
  BY <1>1 DEF HandoffsAreSound
<1> QED BY <1>2, <1>3, SourceLandsFirst

\* The evidence of an outcome is closed before the outcome is reached.
LEMMA EvidenceOrder == ASSUME PlanInv PROVE EvidencePrecedesOutcome
<1> SUFFICES ASSUME NEW c \in plan.cases, NEW i \in c.applies, i \in reached
             PROVE  plan.units[c.unit].items \cap closed # {}
  BY DEF EvidencePrecedesOutcome
<1> DEFINE own == plan.units[c.unit].items
           after == own \cup {j \in plan.covered : \E o \in own : HasPath(ScheduleEdges(plan), o, j)}
<1>1. i \in after \/ \E j \in after : HasPath(ParentEdges(plan), j, i)
  BY DEF PlanInv, PlanTypeOK, Accepted, CasesAreSound, OrderedOutcomes, ParentEdges
<1>2. PICK j \in after : j \in reached
  BY <1>1, ReachedBelow
<1>3. j \in closed
  BY <1>2 DEF PlanInv, PlanTypeOK
<1>4. j \in own \/ \E o \in own : HasPath(ScheduleEdges(plan), o, j)
  BY <1>2
<1> QED BY <1>3, <1>4, ClosedAlongSchedule

\* Human authority and source activation precede commissioning.
LEMMA ActivationOrder == ASSUME PlanInv PROVE ActivationPrecedesCommissioning
<1> SUFFICES ASSUME NEW c \in plan.chains, NEW u \in c.commissioning,
                    plan.units[u].items \cap started # {}
             PROVE  LET authority == plan.gates[c.gate].authority
                    IN /\ c.posture = "owner-source-change-required" =>
                             c.activation \in landed /\ authority \in closed
                       /\ c.posture = "source-ready" /\ UnitOf(plan, authority) \in SourceBacked(plan) =>
                             authority \in closed
  BY DEF ActivationPrecedesCommissioning
<1> DEFINE authority == plan.gates[c.gate].authority
<1>1. Accepted(plan) /\ plan \in Plans
  BY DEF PlanInv, PlanTypeOK
<1>2. /\ c.gate \in Gates(plan) /\ c.commissioning = plan.gates[c.gate].affected
      /\ c.commissioning \subseteq SourceBacked(plan)
  BY <1>1 DEF Accepted, ChainsAreSound
<1>3. authority \in Items(plan)
  BY <1>1, <1>2, UnitsPartition DEF Accepted, GatesAreSound
<1>4. u \in Units(plan) /\ u \in plan.sourceNodes /\ plan.sourceNodes = SourceBacked(plan)
  BY <1>1, <1>2 DEF Accepted, SourceGraphIsSound, SourceBacked
<1>5. ASSUME c.posture = "owner-source-change-required"
      PROVE  c.activation \in landed /\ authority \in closed
  <2>1. ActivationIsOrdered(plan, c)
    BY <1>1, <1>5 DEF Accepted, ChainsAreSound
  <2>2. HasPath(plan.sourceEdges, c.activation, u) /\ c.activation \in Units(plan)
    BY <1>4, <2>1 DEF ActivationIsOrdered, ActivationUnordered, SourceBacked
  <2>3. c.activation \in landed
    BY <1>4, <2>2, SourceLandsFirst
  <2>4. PICK i \in plan.units[c.activation].items : TRUE
    BY <1>1, <2>2, PlanAssumption
  <2>5. i \in closed /\ authority \in Prerequisites(plan, i)
    BY <2>1, <2>3, <2>4 DEF ActivationIsOrdered, ActivationUnordered, PlanInv, WorkIsOrdered
  <2>6. authority \in closed
    BY <2>5 DEF Prerequisites, PlanInv, PlanTypeOK, WorkIsOrdered
  <2> QED BY <2>3, <2>6
<1>6. ASSUME c.posture = "source-ready", UnitOf(plan, authority) \in SourceBacked(plan)
      PROVE  authority \in closed
  <2>1. HasPath(plan.sourceEdges, UnitOf(plan, authority), u)
    BY <1>1, <1>4, <1>6 DEF Accepted, ChainsAreSound
  <2>2. UnitOf(plan, authority) \in landed
    BY <1>4, <2>1, SourceLandsFirst
  <2>3. authority \in plan.units[UnitOf(plan, authority)].items
    BY <1>1, <1>3, UnitsPartition
  <2> QED BY <2>2, <2>3 DEF PlanInv, WorkIsOrdered
<1> QED BY <1>5, <1>6

\* Whatever an accepted packet says comes first does, however long the chains of its orders are:
\* the handoff, case and activation rules of _architecture_semantic_errors.
THEOREM OrderCorrect == Spec => []OrderIsKept
<1>1. Init => PlanInv
  BY PlanInit
<1>2. PlanInv /\ [Next]_vars => PlanInv'
  BY PlanNext
<1>3. PlanInv => OrderIsKept
  BY HandoffOrder, EvidenceOrder, ActivationOrder DEF OrderIsKept
<1> QED BY <1>1, <1>2, <1>3, PTL DEF Spec
-----------------------------------------------------------------------------
(* Something can always be done.                                           *)

\* Of the units that have not landed, one comes after landed units only.
LEMMA FirstUnit ==
    ASSUME PlanInv, landed # Units(plan)
    PROVE  \E u \in Units(plan) \ landed : \A v \in Units(plan) \ landed : <<v, u>> \notin CombinedEdges(plan)
<1>1. Acyclic(Units(plan), CombinedEdges(plan)) /\ IsFiniteSet(Units(plan))
  BY PlanAssumption DEF PlanInv, PlanTypeOK, Accepted, TopologyIsSound
<1>2. Units(plan) \ landed # {}
  BY DEF PlanInv, PlanTypeOK
<1> QED BY <1>1, <1>2, AcyclicFirst

\* What comes before such a unit has closed, and landed where it is source.
LEMMA BeforeFirstUnit ==
    ASSUME PlanInv, NEW u \in Units(plan) \ landed,
           \A v \in Units(plan) \ landed : <<v, u>> \notin CombinedEdges(plan)
    PROVE  /\ \A i \in plan.units[u].items :
                 Prerequisites(plan, i) \subseteq closed \cup plan.units[u].items
           /\ \A e \in plan.sourceEdges : e[2] = u => e[1] \in landed
           /\ GatesOpen(u, "before_implementation") /\ GatesOpen(u, "before_source_merge")
<1>1. Accepted(plan) /\ plan \in Plans
  BY DEF PlanInv, PlanTypeOK
<1>2. \A v \in landed : plan.units[v].items \subseteq closed
  BY DEF PlanInv, WorkIsOrdered
<1>3. ASSUME NEW i \in plan.units[u].items, NEW j \in Prerequisites(plan, i), j \notin plan.units[u].items
      PROVE  j \in closed
  <2>1. i \in Items(plan) /\ j \in Items(plan)
    BY <1>1, <1>3, UnitsPartition DEF Accepted, ScheduleIsSound
  <2>2. UnitOf(plan, j) \in Units(plan) /\ j \in plan.units[UnitOf(plan, j)].items
    BY <1>1, <2>1, UnitsPartition
  <2>3. UnitOf(plan, j) # u
    BY <1>3, <2>2
  <2>4. <<j, i>> \in ScheduleEdges(plan) /\ <<j, i>>[1] = j /\ <<j, i>>[2] = i
    BY <1>3, <2>1 DEF ScheduleEdges
  <2>5. <<UnitOf(plan, j), u>> \in WorkAndSource(plan)
    BY <2>2, <2>3, <2>4, <1>3 DEF WorkAndSource
  <2>6. UnitOf(plan, j) \in landed
    BY <2>2, <2>5 DEF CombinedEdges
  <2> QED BY <1>2, <2>2, <2>6
<1>4. ASSUME NEW e \in plan.sourceEdges, e[2] = u PROVE e[1] \in landed
  <2>1. e = <<e[1], u>> /\ e[1] \in Units(plan)
    BY <1>1, <1>4, GraphsAreFinite
  <2>2. <<e[1], u>> \in CombinedEdges(plan)
    BY <2>1 DEF CombinedEdges, WorkAndSource
  <2> QED BY <2>1, <2>2
<1>5. ASSUME NEW g \in Gates(plan), u \in plan.gates[g].affected,
             plan.gates[g].blocks \in {"before_implementation", "before_source_merge"},
             u # UnitOf(plan, plan.gates[g].authority)
      PROVE  plan.gates[g].authority \in closed
  <2> DEFINE w == UnitOf(plan, plan.gates[g].authority)
  <2>1. plan.gates[g].authority \in Items(plan)
    BY <1>1, UnitsPartition DEF Accepted, GatesAreSound
  <2>2. w \in Units(plan) /\ plan.gates[g].authority \in plan.units[w].items
    BY <1>1, <2>1, UnitsPartition
  <2>3. <<w, u>> \in EarlyGateEdges(plan)
    BY <1>5 DEF EarlyGateEdges
  <2>4. w \in landed
    BY <2>2, <2>3 DEF CombinedEdges
  <2> QED BY <1>2, <2>2, <2>4
<1>6. GatesOpen(u, "before_implementation") /\ GatesOpen(u, "before_source_merge")
  BY <1>5 DEF GatesOpen
<1> QED BY <1>3, <1>4, <1>6

\* An item of such a unit that has not closed may start or close.
LEMMA WorkGoesOn ==
    ASSUME PlanInv, NEW u \in Units(plan) \ landed,
           \A v \in Units(plan) \ landed : <<v, u>> \notin CombinedEdges(plan),
           ~(plan.units[u].items \subseteq closed)
    PROVE  \E i \in Items(plan) : MayStart(i) \/ MayClose(i)
<1> DEFINE rest == plan.units[u].items \ closed
<1>1. Accepted(plan) /\ plan \in Plans
  BY DEF PlanInv, PlanTypeOK
<1>2. rest \in SUBSET Items(plan) /\ rest # {}
  BY <1>1, UnitsPartition
<1>3. Acyclic(Items(plan), ScheduleEdges(plan)) /\ IsFiniteSet(Items(plan))
  BY <1>1, PlanAssumption, UnitsPartition DEF Accepted, ScheduleIsSound
<1> HIDE DEF rest
<1>4. PICK i \in rest : \A j \in rest : <<j, i>> \notin ScheduleEdges(plan)
  BY <1>2, <1>3, AcyclicFirst
<1>5. i \in Items(plan) /\ i \in plan.units[u].items /\ i \notin closed /\ UnitOf(plan, i) = u
  BY <1>1, <1>2, <1>4, UnitsPartition DEF rest
<1>6. Prerequisites(plan, i) \subseteq closed
  <2> SUFFICES ASSUME NEW j \in Prerequisites(plan, i), j \notin closed PROVE FALSE
    OBVIOUS
  <2>1. j \in rest
    BY <1>5, BeforeFirstUnit DEF rest
  <2>2. <<j, i>> \in ScheduleEdges(plan)
    <3>1. <<j, i>>[1] = j /\ <<j, i>>[2] = i /\ <<j, i>> \in Items(plan) \X Items(plan)
      BY <1>2, <1>5, <2>1
    <3> QED BY <3>1 DEF ScheduleEdges
  <2> QED BY <1>4, <2>1, <2>2
<1>7. CASE i \in started
  BY <1>5, <1>6, <1>7 DEF MayClose, Prerequisites
<1>8. CASE i \notin started
  <2>1. MayStart(i)
    BY <1>5, <1>6, <1>8, BeforeFirstUnit DEF MayStart, Prerequisites
  <2> QED BY <1>5, <2>1
<1> QED BY <1>7, <1>8

\* When everything has landed, what is left are outcomes, and one has nothing open below it.
LEMMA OutcomesGoOn ==
    ASSUME PlanInv, landed = Units(plan), reached # Items(plan)
    PROVE  \E i \in Items(plan) : MayReach(i)
<1> DEFINE rest == Items(plan) \ reached
<1>1. Accepted(plan) /\ plan \in Plans
  BY DEF PlanInv, PlanTypeOK
<1>2. Items(plan) \subseteq closed
  BY <1>1, UnitsPartition DEF PlanInv, WorkIsOrdered
<1>3. rest # {}
  BY DEF PlanInv, PlanTypeOK
<1>4. Acyclic(Items(plan), ParentEdges(plan)) /\ IsFiniteSet(Items(plan))
  BY <1>1, PlanAssumption DEF Accepted, OwnersAreSound, ParentEdges
<1>5. PICK i \in rest : \A j \in rest : <<j, i>> \notin ParentEdges(plan)
  <2>1. rest \in SUBSET Items(plan)
    OBVIOUS
  <2> HIDE DEF rest
  <2> QED BY <1>3, <1>4, <2>1, AcyclicFirst
<1>6. Children(plan, i) \subseteq reached
  <2> SUFFICES ASSUME NEW j \in Children(plan, i), j \notin reached PROVE FALSE
    OBVIOUS
  <2>1. j \in rest /\ plan.parent[j] = i
    BY DEF Children
  <2>2. <<j, i>> \in ParentEdges(plan)
    <3>1. <<j, i>>[1] = j /\ <<j, i>>[2] = i /\ <<j, i>> \in Items(plan) \X Items(plan)
      BY <1>5, <2>1
    <3> QED BY <2>1, <3>1 DEF ParentEdges
  <2> QED BY <1>5, <2>1, <2>2
<1> QED BY <1>2, <1>5, <1>6 DEF MayReach

\* An accepted packet of any size can be carried out from wherever it has got to: the combined
\* topology check leaves no cycle of work, source landing and human gates, and that is enough.
THEOREM NeverStuckCorrect == Spec => []NeverStuck
<1>1. Init => PlanInv
  BY PlanInit
<1>2. PlanInv /\ [Next]_vars => PlanInv'
  BY PlanNext
<1>3. PlanInv => NeverStuck
  <2> SUFFICES ASSUME PlanInv PROVE NeverStuck
    OBVIOUS
  <2>1. CASE landed # Units(plan)
    <3>1. PICK u \in Units(plan) \ landed : \A v \in Units(plan) \ landed : <<v, u>> \notin CombinedEdges(plan)
      BY <2>1, FirstUnit
    <3>2. CASE plan.units[u].items \subseteq closed
      BY <3>1, <3>2, BeforeFirstUnit DEF NeverStuck, MayLand
    <3>3. CASE ~(plan.units[u].items \subseteq closed)
      BY <3>1, <3>3, WorkGoesOn DEF NeverStuck
    <3> QED BY <3>2, <3>3
  <2>2. CASE landed = Units(plan)
    BY <2>2, OutcomesGoOn DEF NeverStuck, Finished
  <2> QED BY <2>1, <2>2
<1> QED BY <1>1, <1>2, <1>3, PTL DEF Spec
-----------------------------------------------------------------------------
(* The readiness levels add up.                                            *)

\* A decision says what was found, whenever it was asked for: subjects do not change.
DecisionsAreFound ==
    /\ decided \in [Levels -> {None, "ready", "blocked"}]
    /\ decided["implementation-ready"] = "blocked" =>
          /\ review.prior.workStart \in DOMAIN WorkStarts
          /\ Asked("implementation-ready", WorkStarts[review.prior.workStart])
               \cup WorkStartFindings(WorkStarts[review.prior.workStart]) # {}
    /\ decided["merge-ready"] = "ready" => MergeFindings(review.prior) = {}
    /\ decided["operating-ready"] = "ready" => OperatingFindings(review.final, review.prior) = {}

\* Before anything is asked for no decision says anything.
LEMMA ReviewInitFound == ASSUME ReviewInit PROVE DecisionsAreFound
BY DecisionAssumption DEF ReviewInit, DecisionsAreFound, Levels

\* A decision is ready if and only if nothing was found, and moves no other level.
LEMMA DecideFound ==
    ASSUME DecisionsAreFound, NEW level \in Levels, NEW findings, Decide(level, findings)
    PROVE  /\ review' = review /\ decided' \in [Levels -> {None, "ready", "blocked"}]
           /\ decided'[level] = Outcome(findings) /\ Outcome(findings) \in {"ready", "blocked"}
           /\ Outcome(findings) = "ready" <=> findings = {}
           /\ \A other \in Levels \ {level} : decided'[other] = decided[other]
BY DEF DecisionsAreFound, Decide, Outcome

\* Each evaluation records what it found, and no step changes what there is to find.
LEMMA ReviewNextFound == ASSUME DecisionsAreFound, [ReviewNext]_reviewVars PROVE DecisionsAreFound'
<1> DEFINE start == WorkStarts[review.prior.workStart]
<1>1. CASE UNCHANGED reviewVars
  BY <1>1 DEF reviewVars, DecisionsAreFound, Asked
<1>2. CASE DecideArchitecture
  <2>1. PICK findings : Decide("architecture-ready", findings)
    BY <1>2 DEF DecideArchitecture
  <2>2. /\ review' = review /\ decided' \in [Levels -> {None, "ready", "blocked"}]
        /\ \A other \in Levels \ {"architecture-ready"} : decided'[other] = decided[other]
    BY <2>1, DecideFound DEF Levels
  <2> QED BY <2>2 DEF DecisionsAreFound, Asked, Levels
<1>3. CASE DecideWorkStart
  <2> DEFINE findings == Asked("implementation-ready", start) \cup WorkStartFindings(start)
  <2>1. review.prior.workStart \in DOMAIN WorkStarts /\ Decide("implementation-ready", findings)
    BY <1>3 DEF DecideWorkStart
  <2>2. /\ review' = review /\ decided' \in [Levels -> {None, "ready", "blocked"}]
        /\ decided'["implementation-ready"] = "ready" <=> findings = {}
        /\ \A other \in Levels \ {"implementation-ready"} : decided'[other] = decided[other]
    <3> HIDE DEF findings
    <3> QED BY <2>1, DecideFound DEF Levels
  <2> QED BY <2>1, <2>2 DEF DecisionsAreFound, Asked, Levels
<1>4. CASE DecideMerge
  <2> DEFINE findings == Asked("merge-ready", review.prior) \cup MergeFindings(review.prior)
  <2>1. Decide("merge-ready", findings)
    BY <1>4 DEF DecideMerge
  <2>2. /\ review' = review /\ decided' \in [Levels -> {None, "ready", "blocked"}]
        /\ decided'["merge-ready"] = "ready" <=> findings = {}
        /\ \A other \in Levels \ {"merge-ready"} : decided'[other] = decided[other]
    <3> HIDE DEF findings
    <3> QED BY <2>1, DecideFound DEF Levels
  <2> QED BY <2>2 DEF DecisionsAreFound, Asked, Levels
<1>5. CASE DecideOperating
  <2> DEFINE findings == Asked("operating-ready", review.final)
                           \cup OperatingFindings(review.final, review.prior)
  <2>1. Decide("operating-ready", findings)
    BY <1>5 DEF DecideOperating
  <2>2. /\ review' = review /\ decided' \in [Levels -> {None, "ready", "blocked"}]
        /\ decided'["operating-ready"] = "ready" <=> findings = {}
        /\ \A other \in Levels \ {"operating-ready"} : decided'[other] = decided[other]
    <3> HIDE DEF findings
    <3> QED BY <2>1, DecideFound DEF Levels
  <2> QED BY <2>2 DEF DecisionsAreFound, Asked, Levels
<1> QED BY <1>1, <1>2, <1>3, <1>4, <1>5 DEF ReviewNext

\* A packet without findings before its merge rests on a work start without findings, and the
\* cases due then are satisfied.
LEMMA MergeFindingsNone ==
    ASSUME NEW p, MergeFindings(p) = {}
    PROVE  /\ p.workStart \in DOMAIN WorkStarts
           /\ WorkStartFindings(WorkStarts[p.workStart]) = {}
           /\ PhaseFindings(p, WorkStarts[p.workStart], "merge-ready") = {}
<1> DEFINE start == WorkStarts[p.workStart]
<1>1. (IF \/ p.workStart \notin DOMAIN WorkStarts
          \/ start.level # "implementation-ready"
         THEN {"work-start-binding-invalid"}
         ELSE WorkStartFindings(start) \cup PhaseFindings(p, start, "merge-ready")) = {}
  BY DEF MergeFindings
<1> QED BY <1>1

\* The work start of such a packet has its architecture, when it needs one.
LEMMA ArchitectureResolved ==
    ASSUME NEW start, WorkStartFindings(start) = {}, start.required
    PROVE  ResolvedArchitecture(start) # None
BY DEF WorkStartFindings, When

\* A packet in which a phase finds nothing satisfies every case of that phase.
LEMMA CasesSatisfied ==
    ASSUME NEW p, NEW start, NEW phase, PhaseFindings(p, start, phase) = {},
           ResolvedArchitecture(start) # None,
           NEW c \in CasesFor(ResolvedArchitecture(start), p.is.covered, phase)
    PROVE  Satisfied(p, c)
<1>1. ConformanceFindings(p, ResolvedArchitecture(start), phase) = {}
  BY DEF PhaseFindings
<1> QED BY <1>1 DEF ConformanceFindings, When

\* What made a packet merge-ready is in the one it is finalized as.
LEMMA ReviewKept ==
    ASSUME DecisionsAreFound, decided["merge-ready"] = "ready", decided["operating-ready"] = "ready"
    PROVE  ReviewSurvives
<1> DEFINE final == review.final
           prior == review.prior
           start == WorkStarts[prior.workStart]
<1>1. MergeFindings(prior) = {} /\ OperatingFindings(final, prior) = {}
  BY DEF DecisionsAreFound
<1>2. Preserved(final, prior) /\ \A r \in DOMAIN final.repos : final.repos[r].merged
  BY <1>1 DEF OperatingFindings, When
<1>3. final.is.covered = prior.is.covered /\ final.workStart = prior.workStart
  BY <1>2 DEF Preserved
<1>4. Passing(prior) \subseteq Passing(final)
  BY <1>2 DEF Preserved, Passing, Records
<1>5. ASSUME NEW c, Satisfied(prior, c) PROVE Satisfied(final, c)
  BY <1>2, <1>4, <1>5 DEF Preserved, Satisfied, Passing, Records
<1>6. \A r \in DOMAIN prior.repos : final.repos[r].merged /\ final.repos[r].head = prior.repos[r].head
  BY <1>2 DEF Preserved
<1>7. ASSUME start.required,
             NEW c \in CasesFor(ResolvedArchitecture(start), prior.is.covered, "merge-ready")
      PROVE  Satisfied(prior, c)
  BY <1>1, <1>7, MergeFindingsNone, ArchitectureResolved, CasesSatisfied
<1> QED BY <1>3, <1>4, <1>5, <1>6, <1>7 DEF ReviewSurvives

\* A ready decision rests on the ones below it, although callers may ask for them in any order
\* or not at all, and a finalized packet keeps what was reviewed: _evaluate_merge_ready and
\* _evaluate_predecessor_preservation.
THEOREM CumulativeCorrect == ReviewSpec => []ReadinessIsCumulative
<1>1. ReviewInit => DecisionsAreFound
  BY ReviewInitFound
<1>2. DecisionsAreFound /\ [ReviewNext]_reviewVars => DecisionsAreFound'
  BY ReviewNextFound
<1>3. DecisionsAreFound => ReadinessIsCumulative
  <2> SUFFICES ASSUME DecisionsAreFound PROVE ReadinessIsCumulative
    OBVIOUS
  <2>1. MergeBuildsOnStart
    BY MergeFindingsNone DEF DecisionsAreFound, MergeBuildsOnStart
  <2>2. ReviewSurvives
    <3>1. CASE decided["merge-ready"] = "ready" /\ decided["operating-ready"] = "ready"
      BY <3>1, ReviewKept
    <3>2. CASE ~(decided["merge-ready"] = "ready" /\ decided["operating-ready"] = "ready")
      BY <3>2 DEF ReviewSurvives
    <3> QED BY <3>1, <3>2
  <2> QED BY <2>1, <2>2 DEF ReadinessIsCumulative
<1> QED BY <1>1, <1>2, <1>3, PTL DEF ReviewSpec
=============================================================================
