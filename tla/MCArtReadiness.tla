---------------------------- MODULE MCArtReadiness --------------------------
(* Two Features, two leaves and a Milestone: boards with leaves under either Feature and of *)
(* every status, narratives that are whole or lack one heading, and, one at a time, every   *)
(* other thing an evaluation looks at.                                                      *)
EXTENDS ArtReadiness

Whole(purpose) ==
    {purpose, "Benefit Hypothesis", "Scope Boundaries", "Evidence Expectation", "Execution Context",
     "Operator work notes"}

MCNarratives ==
    {Whole("What This Enables"), Whole("What This Achieves"),
     Whole("What This Achieves") \ {"Operator work notes"}, Whole("What This Enables") \ {"Benefit Hypothesis"}}

Item(type, status, parent) ==
    [type |-> type, status |-> status, parent |-> parent, headings |-> Whole("What This Achieves"),
     classification |-> None, subject |-> "other", satisfied |-> FALSE, blocked |-> FALSE, lacks |-> {},
     iteration |-> "<target_pi> / "]

Board(f, a, b) ==
    [i \in {"epic", "f", "g", "a", "b", "m"} |->
       CASE i = "epic" -> Item("Epic", "in-progress", None)
         [] i = "f" -> f
         [] i = "g" -> Item("Feature", "in-progress", "epic")
         [] i = "a" -> a
         [] i = "b" -> b
         [] i = "m" -> Item("Milestone", "ready", "epic")]

Feature(headings) == [Item("Feature", "ready", "epic") EXCEPT !.headings = headings]
Leaf(type, status, parent) == Item(type, status, parent)

Plain == Board(Feature(Whole("What This Achieves")), Leaf("User story", "ready", "f"), Leaf("Defect", "ready", "f"))

MCBoards ==
    {Board(Feature(headings), Leaf("User story", "ready", p), Leaf("Defect", IF p = "f" THEN "done" ELSE "ready", "f")) :
        headings \in MCNarratives, p \in {"f", "g"}}
    \cup {[Plain EXCEPT !["a"].type = "Task"], [Plain EXCEPT !["m"].parent = "f"], [Plain EXCEPT !["a"].status = None],
          [Plain EXCEPT !["a"].blocked = TRUE], [Plain EXCEPT !["a"].lacks = {"iteration", "owner-repo"}],
          [Plain EXCEPT !["a"].iteration = "other / "], [Plain EXCEPT !["f"].satisfied = TRUE, !["f"].headings = {}],
          [Plain EXCEPT !["f"].classification = "enabler"], [Plain EXCEPT !["f"].subject = "enabler"]}

Delivery(projection, quality, uncontracted) ==
    [projection |-> projection, quality |-> quality, uncontracted |-> uncontracted]

Situation(b, d) == [board |-> b, delivery |-> d]

MCSituations ==
    {Situation(b, Delivery(FALSE, {"green"}, 0)) : b \in MCBoards}
    \cup {Situation(Plain, d) : d \in {Delivery(TRUE, {"green"}, 0), Delivery(FALSE, {"green", "failed"}, 0),
                                       Delivery(FALSE, {}, 2)}}

MCReviewable == {"f", "a", "b"}
=============================================================================
