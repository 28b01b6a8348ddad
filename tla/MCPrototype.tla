------------------------------ MODULE MCPrototype ---------------------------
(* One prototype, from each stage of its life on, and every request with at *)
(* most one part that is wrong.                                             *)
EXTENDS PrototypeLifecycle

Row(state) == [state |-> state, generated |-> TRUE]
Output(kind) == [kind |-> kind, required |-> TRUE, canonical |-> TRUE]
Plan(kinds) ==
    [request |-> "landing", prototype |-> "prototype", source |-> "canonical", mutations |-> kinds,
     outputs |-> {Output(k) : k \in kinds}]

Create ==
    [id |-> "landing", entry |-> "entry", accepted |-> TRUE, starting |-> "exploring", prototype |-> "prototype",
     profile |-> "standard", rows |-> [d \in Dimensions |-> Row("ready")], posture |-> "create-studio-source",
     source |-> "canonical", pinned |-> FALSE, digests |-> FALSE, data |-> "mock", boundary |-> "none",
     visibility |-> "private", constraints |-> {},
     plan |-> Plan({"registry-record", "prototype-docs", "prototype-source"})]

Existing ==
    [Create EXCEPT !.posture = "use-existing-studio-source", !.pinned = TRUE,
                   !.plan = Plan({"registry-record", "prototype-docs"})]

MCLandings ==
    {Create, Existing,
     [Create EXCEPT !.plan.request = "other"], [Create EXCEPT !.accepted = FALSE],
     [Create EXCEPT !.rows["data"].state = "unknown"], [Create EXCEPT !.profile = "custom"],
     [Create EXCEPT !.plan.source = "other"], [Create EXCEPT !.posture = "import-to-studio"],
     [Create EXCEPT !.data = "real-read"], [Create EXCEPT !.visibility = "public-demo"],
     [Create EXCEPT !.constraints = {[code |-> "secret", sensitive |-> TRUE]}],
     [Create EXCEPT !.plan = Plan({"registry-record", "prototype-docs"})],
     [Create EXCEPT !.plan.outputs = @ \ {Output("prototype-docs")}]}

Maturity(level) ==
    [id |-> level, level |-> level, prototype |-> "prototype", source |-> From[level], target |-> To[level],
     refs |-> {"docs"}, selected |-> IF level = "baseline" THEN {"landing"} ELSE {},
     values |-> [f \in BoundaryFields[level] |-> "given"], policy |-> "pinned", review |-> "pinned",
     packet |-> [request |-> level, prototype |-> "prototype", level |-> level, kind |-> level,
                 sections |-> [s \in PacketSections[level] |-> [ready |-> TRUE, refs |-> {"landing"}]]]]

MaturityLevels == {"candidate", "baseline"}
MCMaturities ==
    UNION {{Maturity(l), [Maturity(l) EXCEPT !.policy = "other"], [Maturity(l) EXCEPT !.refs = {"nowhere"}],
            [Maturity(l) EXCEPT !.packet.request = "other"], [Maturity(l) EXCEPT !.target = "graduated"]} : l \in MaturityLevels}
    \cup {[Maturity("baseline") EXCEPT !.values["issue-and-risk-disposition"] = "blank"],
          [Maturity("baseline") EXCEPT !.packet.sections["boundaries"].ready = FALSE],
          [Maturity("baseline") EXCEPT !.selected = {}]}

Closure(action, refs) ==
    [action |-> action, refs |-> refs, repo |-> "owner-repo", owned |-> FALSE, kind |-> "new-delivery-epic",
     reason |-> TRUE, plan |-> None]

Deliver == Closure("apply-delivery", [f \in {"accepted-baseline", "accepted-delivery", "target"} |-> f])
Graduate == Closure("graduate-source", [f \in {"accepted-delivery", "owner-acceptance"} |-> f])
Retire(basis) ==
    [Closure("retire-incubation", [f \in {"retention-plan", "runtime-plan"} |-> f]) EXCEPT !.plan = basis]
Reopen == Closure("reopen-incubation", [f \in {"prior-retirement"} |-> f])

MCClosures ==
    {Deliver, Graduate, Reopen, [Graduate EXCEPT !.owned = TRUE], [Graduate EXCEPT !.refs["accepted-delivery"] = "other"],
     [Deliver EXCEPT !.kind = "existing-item"]}
    \cup {Retire(basis) : basis \in 1..10} \cup {[Retire(2) EXCEPT !.reason = FALSE]}

MCAnswers == {"accepted", "missing", "old", "foreign", "repacked", "other"}

\* A history is made of ready steps, with what Studio has to stage before some of them.
Step(kind, q) == [kind |-> kind, request |-> q]
Staged(item) == [item EXCEPT !.packet = "packet", !.baseline = "baseline"]

Extended(h, s) ==
    LET r == Len(h.studio)
        item == h.studio[r].item
    IN IF s.kind = "edit"
         THEN [h EXCEPT !.studio = Append(@, [item |-> IF s.request = "stage" THEN Staged(item)
                                                        ELSE [item EXCEPT !.phase = "delivery-governed"],
                                              source |-> TRUE])]
         ELSE [studio |-> Append(h.studio, [item |-> Stepped(s.kind, s.request, item, r), source |-> TRUE]),
               applied |-> Append(h.applied, [name |-> Name(s.kind, s.request), reviewed |-> r, at |-> r])]

Nothing == [studio |-> <<[item |-> None, source |-> FALSE]>>, applied |-> <<>>]

Steps ==
    <<Step("landing", Create), Step("promotion", Maturity("candidate")), Step("promotion", Maturity("baseline")),
      Step("edit", "stage"), Step("closure", Deliver), Step("edit", "accept"), Step("closure", Graduate)>>

History[n \in 0..Len(Steps)] == IF n = 0 THEN Nothing ELSE Extended(History[n - 1], Steps[n])

Retired(n) == Extended(History[n], Step("closure", Retire(Len(History[n].studio))))
Reopened(n) == Extended(Retired(n), Step("closure", Reopen))

MCHistories == {History[n] : n \in {0, 1, 2, 4, 6}} \cup {Retired(n) : n \in {1, 3}} \cup {Reopened(n) : n \in {2, 6}}

=============================================================================
