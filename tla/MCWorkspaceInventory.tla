------------------------- MODULE MCWorkspaceInventory -------------------------
(* Two repositories that are one physical repository, a third one that predates intake, and  *)
(* a product that predates it; every request that takes part in their lives.                 *)
EXTENDS WorkspaceInventory, TLC

Covered == [posture |-> "covered-by-owner-repo", role |-> "product-runtime-source", cataloged |-> FALSE]

Value == [provider |-> None, class |-> "source", bindings |-> FALSE, described |-> TRUE, responsible |-> "all",
          behavior |-> Covered, owners |-> {}, aligned |-> TRUE, valid |-> TRUE]

Repository(provider) == [Value EXCEPT !.provider = provider]

Migrated(value) == [version |-> 1, value |-> value, posture |-> "active", lineage |-> "legacy-migration", entered |-> None,
                  mutation |-> [key |-> "migration", request |-> "migration"]]

Core == <<"repo", "core">>
LeftRepo == <<"repo", "left">>
RightRepo == <<"repo", "right">>
Suite == <<"product", "suite">>
Probe == <<"component", "probe">>

MCLegacy == (Core :> Migrated(Value)) @@ (Suite :> Migrated([Value EXCEPT !.owners = {"core", "left"}]))

Request(id, policy, verb, target, value) ==
    [id |-> id, key |-> id, policy |-> policy, verb |-> verb, target |-> target, value |-> value,
     classification |-> "admitted", source |-> "intake", suggestion |-> None, decided |-> TRUE, dated |-> TRUE,
     schema |-> 2, current |-> "unlisted", listing |-> "unlisted", expects |-> 0, previous |-> None]

Entering ==
    {Request("left-in", "intake", "add", LeftRepo, Repository("g1")),
     Request("right-in", "intake", "add", RightRepo, Repository("g1")),
     [Request("left-change", "intake", "update", LeftRepo, Repository("g1")) EXCEPT !.classification = "proposed"],
     Request("left-admit", "intake", "update", LeftRepo, Repository("g1")),
     [Request("probe-in", "intake", "add", Probe, [Value EXCEPT !.responsible = "none", !.behavior = None])
        EXCEPT !.classification = "out-of-scope", !.suggestion = [id |-> "s1", accepted |-> TRUE]]}

Promoting ==
    {Request("left-up", "promotion", "promote", LeftRepo, Repository("g1")),
     Request("right-up", "promotion", "promote", RightRepo, Repository("g1"))}

Living ==
    {Request("left-out", "lifecycle", "retire", LeftRepo, Value),
     [Request("left-back", "lifecycle", "restore", LeftRepo, Value) EXCEPT !.key = "left-out"],
     [Request("left-out", "lifecycle", "restore", LeftRepo, Value) EXCEPT !.key = "left-back"],
     Request("left-return", "lifecycle", "restore", LeftRepo, Value),
     Request("core-named", "lifecycle", "update", Core, Repository("g1")),
     Request("suite-pause", "lifecycle", "suspend", Suite, Value),
     Request("suite-out", "lifecycle", "retire", Suite, Value),
     Request("suite-back", "lifecycle", "restore", Suite, Value)}

Listing ==
    {[Request("list", "publication", "publish", Suite, Value) EXCEPT !.listing = "internal", !.schema = 1],
     [Request("archive", "publication", "archive", Suite, Value) EXCEPT !.listing = "archived"],
     [Request("unarchive", "publication", "restore", Suite, Value) EXCEPT
        !.current = "archived", !.expects = 2, !.previous = [version |-> 2, posture |-> "archived"]]}

\* The repositories, with the product left alone; the product; and the product with one of its source owners.
MCCampaigns ==
    {[requests |-> {r \in Entering \cup Promoting \cup Living : r.target # Suite}, merges |-> 6],
     [requests |-> {r \in Living \cup Listing : r.target = Suite}, merges |-> 4],
     [requests |-> {r \in Entering \cup Promoting \cup Living \cup Listing :
                      r.target = LeftRepo \/ r.id \in {"list", "suite-out"}}, merges |-> 4]}

Stated(owner, schema, phase) == [owner |-> owner, schema |-> schema, claimed |-> "unlisted", phase |-> phase]
MCManifests == {Stated("core", 1, "operational"), Stated("left", 1, "operational"),
                Stated("core", 2, "retired"), Stated("core", 2, "operational")}
=============================================================================
