------------------------------- MODULE MCLocal -------------------------------
(* One instance for four parts of an installation: the files that processes share            *)
(* (LocalFiles), what one validation is worth (ValidationRun), the workspace it governs       *)
(* (WorkspaceInventory), and the history a console reads (GovernanceHistory).  They share no   *)
(* variable: while one is explored, the others are ones that have ended.                     *)
EXTENDS LocalFiles, ValidationRun, MCWorkspaceInventory, MCGovernanceHistory

Symmetric == Permutations(Processes)

Plain == [class |-> "local-read-only", approved |-> FALSE, executables |-> {}, directory |-> <<>>, roots |-> {},
          allowed |-> {}, blocked |-> {}, retries |-> 0, budget |-> None, fail |-> FALSE, profile |-> "developer"]

Validator(id, tier, scopes, safe, required) ==
    [id |-> id, owner |-> "fabric", tier |-> tier, scopes |-> scopes, template |-> "plain", executable |-> "make",
     environment |-> {}, required |-> required, type |-> "command",
     reuse |-> [safe |-> safe, freshness |-> 1, invalidate |-> TRUE], authorities |-> {"guidance"}, policy |-> Plain]

Lint == Validator("lint", "smoke", {<<"component", "planner">>}, TRUE, TRUE)
Test == Validator("test", "scoped", {<<"repo", "fabric">>}, FALSE, FALSE)
Quality == [Validator("quality", "scoped", {<<"art", "*">>}, TRUE, TRUE) EXCEPT !.template = "art"]

ManifestOf(validators, status) ==
    [validators |-> validators,
     repos |-> {[id |-> "fabric", paths |-> {<<>>}, impacts |-> {<<"art", "delivery-1">>}],
                [id |-> "docs", paths |-> {<<"docs">>}, impacts |-> {}]},
     components |-> {[id |-> "planner", paths |-> {<<"core", "planning">>}, impacts |-> {}]},
     authorities |-> {[id |-> "guidance", digest |-> "d1", status |-> status]}]

Target(kind, name) == [scope |-> <<kind, name>>, path |-> <<>>]
File(path) == [scope |-> <<"changed-file", path>>, path |-> path]

Targets == {Target("workspace", "workspace"), Target("component", "planner"), Target("art", "delivery-1"),
            File(<<"core", "planning", "plan.py">>), File(<<"docs", "README.md">>)}

Reusing(status, tier, digest, captured, expires) ==
    [validator |-> "lint", status |-> status, target |-> <<"component", "planner">>, scopes |-> {}, tier |-> tier,
     digests |-> {<<"guidance", digest>>}, captured |-> captured, expires |-> expires, freshness |-> None]

Receipts == {Reusing("success", "full", "d1", 0, None), Reusing("success", "smoke", "d1", 0, None),
             Reusing("failure", "full", "d1", 1, None), Reusing("success", "full", "d2", 0, 3),
             Reusing("passed", "full", "d1", None, 2),
             [Reusing("valid", "full", "d1", 1, None) EXCEPT !.target = <<"art", "delivery-2">>,
                  !.scopes = {<<"art", "*">>}, !.validator = "quality"]}

Waivers == {{}, {[id |-> "W", validator |-> "lint", status |-> "approved", expires |-> 1]},
            {[id |-> "W", validator |-> "test", status |-> "revoked", expires |-> None],
             [id |-> None, validator |-> "lint", status |-> "active", expires |-> None]}}

Asked(manifest, target, tier, retained, waivers) ==
    [manifest |-> manifest, catalog |-> None, target |-> target, tier |-> tier, receipts |-> retained,
     waivers |-> waivers, supplied |-> {}, profile |-> "developer", approved |-> FALSE]

\* Every target at every tier; receipts and waivers; and a release under an old authority.
Planned ==
    {Asked(ManifestOf(<<Lint, Quality, Test>>, "current"), t, tier, {}, {}) : t \in Targets, tier \in DOMAIN Rank}
    \cup {Asked(ManifestOf(<<Lint, Quality>>, "current"), t, tier, retained, w) :
            t \in {Target("component", "planner"), Target("art", "delivery-1")}, tier \in {"smoke", "full"},
            retained \in {r \in SUBSET Receipts : Cardinality(r) <= 2}, w \in Waivers}
    \cup {Asked(ManifestOf(<<Lint, Test>>, "stale"), Target("workspace", "workspace"), tier, {}, {}) :
            tier \in {"full", "release"}}

\* One part of a policy or of a validator changed at a time.
Policies ==
    {Plain, [Plain EXCEPT !.class = "network"], [Plain EXCEPT !.class = "network", !.approved = TRUE],
     [Plain EXCEPT !.class = "unheard-of"], [Plain EXCEPT !.executables = {"python3"}],
     [Plain EXCEPT !.directory = None], [Plain EXCEPT !.directory = <<"docs">>, !.roots = {<<"core">>}],
     [Plain EXCEPT !.blocked = {"MODE"}], [Plain EXCEPT !.allowed = {"API_TOKEN"}],
     [Plain EXCEPT !.retries = 1], [Plain EXCEPT !.retries = 2, !.profile = "enterprise", !.budget = 1, !.fail = TRUE],
     [Plain EXCEPT !.budget = 0, !.fail = TRUE]}

Executed ==
    {[Asked(ManifestOf(<<[Lint EXCEPT !.policy = p], Test>>, "current"), Target("workspace", "workspace"), "full", {}, {})
        EXCEPT !.supplied = variables] : p \in Policies, variables \in {{}, {"MODE"}, {"API_TOKEN"}}}
    \cup {Asked(ManifestOf(<<v>>, "current"), Target("component", "planner"), "smoke", {}, {}) :
            v \in {[Lint EXCEPT !.type = "contract"], [Lint EXCEPT !.executable = None], [Lint EXCEPT !.template = "broken"],
                   [Lint EXCEPT !.required = FALSE, !.type = "contract"], [Lint EXCEPT !.environment = {"API_TOKEN"}]}}

Entry ==
    [id |-> "check", owner |-> "fabric", enabled |-> TRUE, profiles |-> {"developer"}, kind |-> "validator",
     mutates |-> FALSE, materializes |-> FALSE, executable |-> "make", template |-> "plain", shell |-> FALSE,
     directory |-> <<"fabric">>, scopes |-> {<<"component", "planner">>}, tier |-> "scoped", environment |-> {},
     type |-> "command", class |-> "local-read-only", retries |-> 0, budget |-> None, fail |-> FALSE]

Entries ==
    {Entry, [Entry EXCEPT !.enabled = FALSE], [Entry EXCEPT !.profiles = {}], [Entry EXCEPT !.kind = "support-library"],
     [Entry EXCEPT !.mutates = TRUE], [Entry EXCEPT !.template = "broken"], [Entry EXCEPT !.shell = TRUE],
     [Entry EXCEPT !.directory = None], [Entry EXCEPT !.class = "network"], [Entry EXCEPT !.environment = {"API_TOKEN"}]}

Cataloged ==
    {[Asked(None, Target("component", "planner"), tier, {}, {}) EXCEPT
        !.approved = approved,
        !.catalog = [entries |-> <<Entry, [e EXCEPT !.id = "other"]>>, repos |-> {},
                     components |-> {[id |-> "planner", paths |-> {}, impacts |-> {<<"component", "planner">>}]},
                     authorities |-> {[id |-> "catalog", digest |-> "d1", status |-> "current"]}]] :
        e \in Entries, tier \in {"scoped", "release"}, approved \in BOOLEAN}

MCValidations == Planned \cup Executed \cup Cataloged
MCRetryCap == [developer |-> 3, enterprise |-> 1]
MCDeliveries == {<<"art", "delivery-1">>, <<"art", "delivery-2">>}

FilesEnded ==
    /\ ledger = {} /\ events = <<>> /\ exports = {} /\ receipts = {} /\ written = {}
    /\ clock = MaxClock /\ calls = MaxCalls /\ raced = {} /\ cut = {}
    /\ call = [p \in Processes |-> Idle]

ValidationEnded ==
    /\ validation = Asked(ManifestOf(<<>>, "current"), Target("workspace", "workspace"), "smoke", {}, {})
    /\ now = MaxNow /\ plan = [at |-> 1, checks |-> <<>>, waived |-> {}, outcome |-> "no_matching_validators"]
    /\ attempts = <<>> /\ results = <<>> /\ receipt = "operator_review_required"

InventoryEnded ==
    /\ campaign = [requests |-> {}, merges |-> 0]
    /\ register = <<>> /\ inventory = Legacy /\ history = <<>>
    /\ evidence = [t \in Products |-> None] /\ verdicts = [t \in Products |-> None]
    /\ revision = 0 /\ kept = None

HistoryEnded == table = {} /\ reader = [phase |-> "done", shown |-> <<>>, before |-> {}]

MCInit ==
    \/ Init /\ ValidationEnded /\ InventoryEnded /\ HistoryEnded
    \/ ValidationInit /\ FilesEnded /\ InventoryEnded /\ HistoryEnded
    \/ InventoryInit /\ FilesEnded /\ ValidationEnded /\ HistoryEnded
    \/ HistoryInit /\ FilesEnded /\ ValidationEnded /\ InventoryEnded

MCNext ==
    \/ Next /\ UNCHANGED <<validationVars, inventoryVars, historyVars>>
    \/ ValidationNext /\ UNCHANGED <<localVars, inventoryVars, historyVars>>
    \/ campaign.merges # 0 /\ InventoryNext /\ UNCHANGED <<localVars, validationVars, historyVars>>
    \/ reader.phase = "reading" /\ HistoryNext /\ UNCHANGED <<localVars, validationVars, inventoryVars>>

MCSpec == MCInit /\ [][MCNext]_<<localVars, validationVars, inventoryVars, historyVars>>
=============================================================================
