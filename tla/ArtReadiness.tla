----------------------------- MODULE ArtReadiness ---------------------------
(***************************************************************************)
(* ART readiness: what art_readiness.py says of one planned mutation of a  *)
(* delivery board, from the context the broker compiles for it.            *)
(*                                                                         *)
(* The board is the broker's and the operators edit it; the answer is      *)
(* advice about a context, which may be old when the mutation is carried   *)
(* out.  Closing the last open leaf of a Feature leaves the Feature to be  *)
(* closed, so its narrative is looked at then, before its own closing.     *)
(*                                                                         *)
(* Every copy of an item in one context is taken to say the same.  The     *)
(* graph, the metrics and the digests of a receipt are left out: nothing   *)
(* is decided by them.                                                     *)
(***************************************************************************)
EXTENDS Naturals, FiniteSets, NoValue

CONSTANTS
    Situations, \* what the board and the delivery may be when they are first looked at
    Reviewable, \* bound: the items contexts are compiled and evaluations asked for
    Narratives, \* headings an operator may give a Feature
    Templates,  \* allowed_prefix_templates of the planning contract, or None
    Epic,       \* the delivery epic
    MaxEdits    \* bound: edits of the board

VARIABLES
    board,    \* every work item
    delivery, \* what the broker reports of it: [projection |-> dirty, quality |-> states, uncontracted]
    receipt,  \* the last evaluation when it allows its mutation, else None
    reviewed, \* Features whose last open leaf an evaluation of the board as it was let close
    edits

artVars == <<board, delivery, receipt, reviewed, edits>>

\* An item carries every field, and a context can be asked for of any item that is reviewable.
ItemFields == {"type", "status", "parent", "headings", "classification", "subject", "satisfied", "blocked",
               "lacks", "iteration"}

ASSUME SituationsAssumption ==
    \A situation \in Situations :
        LET b == situation.board IN
        /\ b = [i \in DOMAIN b |-> b[i]]
        /\ IsFiniteSet(DOMAIN b) /\ Reviewable \subseteq DOMAIN b
        /\ \A i \in DOMAIN b : DOMAIN b[i] = ItemFields

Operations == {"complete", "stale-open-close"} \* those that close an item
LeafTypes == {"Defect", "User story"}
Terminal == {"done", "retired"}
-----------------------------------------------------------------------------
(* The context of one item.                                                *)

Leaves(b, f) == {i \in DOMAIN b : b[i].parent = f /\ b[i].type \in LeafTypes}
Open(b, i) == b[i].status \notin Terminal
OpenChildren(b, f) == {i \in Leaves(b, f) : Open(b, i)}

Ancestors(b, t) ==
    LET parent == b[t].parent IN
    IF parent \notin DOMAIN b THEN {} ELSE {parent} \cup ({b[parent].parent} \cap DOMAIN b)

\* What the broker compiles about t.  Its open siblings are those at least; a generous broker
\* names the item itself, closed ones and those of other parents as well.
Context(t, generous) ==
    [target |-> t,
     chain |-> Ancestors(board, t),
     siblings |-> {i \in DOMAIN board : board[i].type \in LeafTypes /\
                      (generous \/ (i # t /\ Open(board, i) /\ board[i].parent = board[t].parent))},
     listed |-> {t, Epic} \cup Ancestors(board, t) \cup OpenChildren(board, t)
                  \cup {i \in DOMAIN board : board[i].type = "Milestone"},
     open |-> Cardinality(OpenChildren(board, t)),
     completed |-> Cardinality(Leaves(board, t) \ OpenChildren(board, t))]

\* The item that is evaluated: the one asked for when the context has it, else the context's own.
Target(c, asked) == IF asked \in c.listed \cup c.siblings THEN asked ELSE c.target
-----------------------------------------------------------------------------
(* Narratives.                                                             *)

Purposes == [enabler |-> "What This Enables", business |-> "What This Achieves"]

\* A classification that is not given is taken from the subject or the headings.
Classification(i) ==
    CASE i.classification # None -> i.classification
      [] i.classification = None /\ (i.subject = "enabler" \/ Purposes.enabler \in i.headings) -> "enabler"
      [] OTHER -> "business"

RequiredHeadings(i) ==
    {"Benefit Hypothesis", "Scope Boundaries", "Evidence Expectation", "Execution Context", "Operator work notes"}
    \cup {IF Classification(i) = "enabler" THEN Purposes.enabler ELSE Purposes.business}

MissingHeadings(i) == IF i.type # "Feature" \/ i.satisfied THEN {} ELSE RequiredHeadings(i) \ i.headings

\* Mutant: the item itself counts as a sibling that stays open.
OpenOrItself(c, t) ==
    \E i \in c.siblings :
        /\ board[i].parent = board[t].parent
        /\ board[i].type \in LeafTypes
        /\ Open(board, i)

HasOpenLeafSibling(c, t) ==
    \E i \in c.siblings \ {t} :
        /\ board[i].parent = board[t].parent
        /\ board[i].type \in LeafTypes
        /\ Open(board, i)

ParentFeature(c, t) ==
    {i \in c.chain \cup c.listed \cup c.siblings : i = board[t].parent /\ board[i].type = "Feature"}

LastChildFindings(c, t) ==
    {"parent-feature-narrative-not-closeout-ready" :
        f \in {f \in ParentFeature(c, t) :
                 /\ board[t].type \in LeafTypes
                 /\ Open(board, t)
                 /\ ~HasOpenLeafSibling(c, t)
                 /\ MissingHeadings(board[f]) # {}}}
-----------------------------------------------------------------------------
(* Findings.                                                               *)

FoundIf(condition, code) == IF condition THEN {code} ELSE {}

MetadataFields(i) == {"owner-repo", "target-pi"} \cup
             (IF i.type \in {"Epic", "Risk", "Milestone"} THEN {} ELSE {"delivery-team", "iteration"})

MissingOf ==
    [field \in {"owner-repo", "target-pi", "delivery-team", "iteration"} |->
       CASE field = "owner-repo" -> "missing-owner-repo" [] field = "target-pi" -> "missing-target-pi"
         [] field = "delivery-team" -> "missing-delivery-team" [] OTHER -> "missing-iteration"]

MetadataFindings(i) == {MissingOf[field] : field \in MetadataFields(i) \cap i.lacks}

\* An iteration is told apart by the template its label begins with.
AllowedPrefixes == IF Templates = None THEN {"<target_pi> / ", "Program-wide / "} ELSE Templates

Scheduled(i) == {"target-pi", "iteration"} \cap i.lacks = {}
IterationFindings(i) ==
    FoundIf(Scheduled(i) /\ i.status \notin Terminal /\ i.iteration \notin AllowedPrefixes,
       "target-pi-iteration-mismatch")

\* The counts are those of the context's own item, whichever item is evaluated.
StaleOpenParent(c, i) ==
    i.type = "Feature" /\ i.status \in {"ready", "in-progress"} /\ c.open = 0 /\ c.completed > 0

NarrativeFindings(c, i, operation) ==
    LET notesOnly == /\ operation = "stale-open-close" /\ StaleOpenParent(c, i)
                     /\ MissingHeadings(i) = {"Operator work notes"}
    IN FoundIf(operation \in {"complete", "stale-open-close"} /\ MissingHeadings(i) # {} /\ ~notesOnly,
          "weak-feature-narrative")

Unhealthy == {"error", "failed", "failure", "red", "unhealthy"}

DeliveryFindings ==
    FoundIf(delivery.projection, "projection-sync-required")
    \cup FoundIf(delivery.quality \cap Unhealthy # {}, "quality-pack-unhealthy")
    \cup FoundIf(delivery.uncontracted > 0, "ready-without-contract")

MilestoneFindings(c) ==
    FoundIf(\E i \in c.listed : board[i].type = "Milestone" /\ board[i].parent # Epic, "milestone-parent-drift")

ItemFindings(c, t, operation) ==
    FoundIf(board[t].blocked, "target-blocked")
    \cup MetadataFindings(board[t]) \cup IterationFindings(board[t])
    \cup NarrativeFindings(c, board[t], operation)
    \cup (IF operation = "complete" THEN LastChildFindings(c, t) ELSE {})
    \cup FoundIf(StaleOpenParent(c, board[t]), "stale-open-parent")
    \cup DeliveryFindings \cup MilestoneFindings(c)

\* A status is put in lower case before it is compared, and one that is missing raises.  The
\* siblings are looked at in the broker's order, up to the first open one.
Raises(c, t, operation) ==
    \/ Scheduled(board[t]) /\ board[t].status = None
    \/ operation = "complete" /\ board[t].type \in LeafTypes /\ board[t].status = None
    \/ /\ operation = "complete" /\ board[t].type \in LeafTypes /\ Open(board, t)
       /\ LET siblings == {i \in c.siblings \ {t} : board[i].parent = board[t].parent} IN
          /\ \E i \in siblings : board[i].status = None
          /\ \A i \in siblings : Open(board, i) => board[i].status = None
-----------------------------------------------------------------------------
(* The answer.                                                             *)

Warnings == {"stale-open-parent", "ready-without-contract", "milestone-parent-drift"}

Recommended(code) ==
    CASE code = "projection-sync-required" -> {"projection_sync"}
      [] code \in {MissingOf[field] : field \in DOMAIN MissingOf} \cup
                  {"target-pi-iteration-mismatch", "weak-feature-narrative",
                   "parent-feature-narrative-not-closeout-ready"} -> {"repair_art_metadata"}
      [] code = "stale-open-parent" -> {"stale_open_close"}
      [] code = "target-blocked" -> {"respect_blocker"}
      [] code = "quality-pack-unhealthy" -> {"record_blocker", "route_defect"}
      [] code \in {"milestone-parent-drift", "ready-without-contract"} -> {"route_risk"}

Answer(c, asked, operation) ==
    LET target == Target(c, asked)
        findings == ItemFindings(c, target, operation)
        allowed == findings \subseteq Warnings
    IN [target |-> target, operation |-> operation, allowed |-> allowed,
        outcome |-> IF ~allowed THEN "blocked" ELSE IF findings # {} THEN "review_required" ELSE "ready",
        findings |-> findings,
        actions |-> UNION {Recommended(code) : code \in findings} \cup FoundIf(allowed, "proceed_via_oos_broker")]
-----------------------------------------------------------------------------
(* The board.                                                              *)

ArtInit ==
    /\ \E situation \in Situations : board = situation.board /\ delivery = situation.delivery
    /\ receipt = None
    /\ reviewed = {}
    /\ edits = 0

\* The receipt kept is what the mutation goes by: that it may, and whether it was evaluated in
\* a context of its own item, of the board as it is.  In the context of another item neither its
\* parent nor its siblings need be there.
EvaluateItem(t, asked, operation, generous) ==
    LET c == Context(t, generous) IN
    /\ ~Raises(c, Target(c, asked), operation)
    /\ LET answer == Answer(c, asked, operation) IN
       receipt' = IF answer.outcome = "blocked" THEN None
                  ELSE [target |-> answer.target, operation |-> operation, current |-> answer.target = t]
    /\ UNCHANGED <<board, delivery, reviewed, edits>>

\* The broker carries out what was allowed; stale-open closing is for Features.
CloseItem ==
    /\ receipt # None
    /\ Open(board, receipt.target)
    /\ receipt.operation = "complete" \/ (receipt.operation = "stale-open-close" /\ board[receipt.target].type = "Feature")
    /\ LET t == receipt.target
           f == board[t].parent IN
       /\ board' = [board EXCEPT ![t].status = "done"]
       /\ reviewed' =
            IF /\ receipt.current /\ board[t].type \in LeafTypes
                  /\ f \in DOMAIN board /\ OpenChildren(board, f) = {t}
              THEN reviewed \cup {f} ELSE reviewed \ {t, f}
    /\ receipt' = None
    /\ UNCHANGED <<delivery, edits>>

\* Operators edit the board meanwhile.  What was reviewed of a Feature is so no more once the
\* Feature, or which leaves it has open, is edited.
Edited(i, r) ==
    /\ edits < MaxEdits
    /\ r # board[i]
    /\ board' = [board EXCEPT ![i] = r]
    /\ reviewed' = reviewed \ {i, board[i].parent, r.parent}
    /\ receipt' = IF receipt = None THEN None ELSE [receipt EXCEPT !.current = FALSE]
    /\ edits' = edits + 1
    /\ UNCHANGED delivery

Rewrite(i, headings) == board[i].type = "Feature" /\ Edited(i, [board[i] EXCEPT !.headings = headings])
Restate(i, status) ==
    board[i].type \in LeafTypes \cup {"Feature"} /\ Edited(i, [board[i] EXCEPT !.status = status])
Move(i, f) == board[i].type \in LeafTypes /\ board[f].type = "Feature" /\ Edited(i, [board[i] EXCEPT !.parent = f])

ArtNext ==
    \/ \E t, asked \in Reviewable, operation \in Operations, generous \in BOOLEAN :
          EvaluateItem(t, asked, operation, generous)
    \/ CloseItem
    \/ \E i \in DOMAIN board, headings \in Narratives : Rewrite(i, headings)
    \/ \E i \in DOMAIN board, status \in {"ready", "in-progress", "retired"} : Restate(i, status)
    \/ \E i, f \in DOMAIN board : Move(i, f)

ArtSpec == ArtInit /\ [][ArtNext]_artVars
-----------------------------------------------------------------------------
\* A Feature whose last open leaf was closed by an evaluation in that leaf's own context, of the
\* board as it was, can itself be closed: its own evaluation finds nothing wrong with its narrative,
\* whatever other leaves were retired, moved or closed before, and tells that it is to be closed (operator-surface.md 593-594,
\* _last_child_parent_feature_findings against _readiness_findings).
ParentIsReadyToClose ==
    \A f \in reviewed, generous \in BOOLEAN :
        board[f].type = "Feature" =>
            LET close == Answer(Context(f, generous), f, "stale-open-close") IN
            /\ "weak-feature-narrative" \notin ItemFindings(Context(f, generous), f, "complete") \cup close.findings
            /\ board[f].status \in {"ready", "in-progress"} => "stale_open_close" \in close.actions
=============================================================================
