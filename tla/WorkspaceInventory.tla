-------------------------- MODULE WorkspaceInventory --------------------------
(***************************************************************************)
(* What Workspace Governance records of repositories, products and         *)
(* components, the four policies that judge a change of it, and the        *)
(* projection that is read from it.  An entrant is added to the intake     *)
(* register, promoted to the inventory, and then updated, suspended,       *)
(* retired and restored; what a product's owner may publish depends on it. *)
(*                                                                         *)
(* The policies only judge.  The change itself is a reviewed merge into    *)
(* Workspace Governance at the revision that was judged, which is external *)
(* here; the judgement of a publication is kept in a ledger of this        *)
(* system, and outlives the revision.                                      *)
(*                                                                         *)
(* A request is prepared from one revision and binds what it saw of it; it *)
(* may be judged at any later one.  The digest of a document stands for    *)
(* the document.                                                           *)
(***************************************************************************)
EXTENDS Naturals, Sequences, FiniteSets, Functions, NoValue

CONSTANTS
    Campaigns,    \* [requests, merges]: what is asked in one behaviour, and the bound on its merges
    Legacy,       \* the inventory that predates intake
    Checkouts,    \* the repositories present in the workspace, with their files
    Configured,   \* the owner repositories the installation is configured with
    AssistActive, \* the governed intake assistance is active
    Manifests     \* what an owner may state: [owner, schema, claimed, phase]

VARIABLES
    campaign,  \* the campaign of this behaviour
    register,  \* the intake register, by <<kind, name>>
    inventory, \* the records in the inventory, the retired repositories included
    history,   \* the lifecycle history
    evidence,  \* the publication manifest each product's owner has committed, or None
    verdicts,  \* the latest publication readiness kept for a product
    revision,  \* merges into Workspace Governance so far
    kept       \* a request prepared earlier and not judged yet, or None

inventoryVars == <<campaign, register, inventory, history, evidence, verdicts, revision, kept>>

\* A record carries its version, and one that came by intake the version it had there; a target is
\* a kind and a name; and a legacy inventory names each physical repository once.
RecordFields == {"version", "value", "posture", "lineage", "entered", "mutation"}

ASSUME InventoryAssumption ==
    /\ None \notin Nat
    /\ Legacy = [t \in DOMAIN Legacy |-> Legacy[t]]
    /\ \A t \in DOMAIN Legacy :
         /\ t = <<t[1], t[2]>>
         /\ DOMAIN Legacy[t] = RecordFields /\ Legacy[t].version \in Nat
         /\ (Legacy[t].lineage = "workspace-intake") <=> (Legacy[t].entered # None)
    /\ \A t, u \in DOMAIN Legacy :
         t[1] = "repo" /\ u[1] = "repo" /\ Legacy[t].value.provider # None
           /\ Legacy[t].value.provider = Legacy[u].value.provider => t = u
    /\ \A c \in Campaigns : \A r \in c.requests :
         /\ r.target = <<r.target[1], r.target[2]>>
         /\ r.policy = "intake" => r.verb \in {"add", "update"}

Products == {t \in DOMAIN Legacy : t[1] = "product"}
Listed   == {"internal", "client", "public"}
At(f, t) == IF t \in DOMAIN f THEN f[t] ELSE None
With(f, t, x) == [u \in DOMAIN f \cup {t} |-> IF u = t THEN x ELSE f[u]]
Of(f, kind) == Restrict(f, {t \in DOMAIN f : t[1] = kind})
-----------------------------------------------------------------------------
(* What a revision says, and whether it can be read.                       *)

\* The events of a target, by their places in the history.
Places(t) == {i \in DOMAIN history : history[i].target = t}
IsLast(i, places) == i \in places /\ \A j \in places : j <= i
LastPlace(places) == CHOOSE i \in places : IsLast(i, places)
LastEvent(places) == IF places = {} THEN None ELSE history[LastPlace(places)]

Standing(t) == [version |-> inventory[t].version, posture |-> inventory[t].posture]

\* An event is identified by its place among those of its target.
HistoryIsSound ==
    /\ \A i, j \in DOMAIN history : i # j => history[i].key # history[j].key /\ history[i].request # history[j].request
    /\ \A i \in DOMAIN history :
         LET earlier == {j \in Places(history[i].target) : j < i} IN
         /\ history[i].sequence = Cardinality(earlier) + 1
         /\ \A j \in earlier : IsLast(j, earlier) => history[i].before = history[j].after

LineageIsSound(t) == (inventory[t].lineage = "workspace-intake") <=> (inventory[t].entered # None)

\* What the continuity projection requires before it shows anything.
IsProjectable ==
    /\ HistoryIsSound
    /\ \A t \in DOMAIN inventory : LineageIsSound(t)
    /\ DOMAIN register \cap DOMAIN inventory = {}
    /\ \A i \in DOMAIN history :
         LET t == history[i].target IN
         /\ t \in DOMAIN inventory
         /\ IsLast(i, Places(t)) => history[i].after = Standing(t)

(* One physical repository has one key, among entrants, active and retired *)
(* repositories.                                                           *)
HeldElsewhere(provider, name) ==
    \/ \E t \in DOMAIN register : t[1] = "repo" /\ t[2] # name /\ register[t].value.provider = provider
    \/ \E t \in DOMAIN inventory : t[1] = "repo" /\ t[2] # name /\ inventory[t].value.provider = provider

HeldByEntrant(provider, name) ==
    \E t \in DOMAIN register : t[1] = "repo" /\ t[2] # name /\ register[t].value.provider = provider

provider_repository_conflicts(provider, name) == HeldElsewhere(provider, name)

\* The posture an owner of product source has; it carries no control authority.
SourceOwner(value) ==
    /\ ~value.bindings /\ value.described /\ value.provider # None
    /\ value.behavior # None
    /\ value.behavior.posture = "covered-by-owner-repo" /\ value.behavior.role = "product-runtime-source"

RoutineOwner(t) == inventory[t].lineage = "workspace-intake" /\ SourceOwner(inventory[t].value)
-----------------------------------------------------------------------------
(* Intake.                                                                 *)

Direct == {"catalog-owner", "profile-gated-external-owner", "interface-contract-backed"}

BehaviorIsSound(b) ==
    /\ b.posture = "proposed-profile-gated" => b.role \in {"proposed-shared-platform-component", "context-packet-provider"}
    /\ b.posture = "build-admitted-profile-gated" => b.role \in {"shared-platform-component", "context-packet-provider"}
    /\ b.posture \in Direct => b.cataloged

InScope(r) == r.classification \in {"proposed", "admitted"}

ResponsibilitiesFit(r) ==
    /\ IF InScope(r) THEN r.value.responsible = "all" ELSE r.value.responsible = "none"
    /\ InScope(r) <=> r.value.behavior # None
    /\ r.value.behavior # None => BehaviorIsSound(r.value.behavior)

Users(r) == {t \in DOMAIN register : register[t].mutation.key = r.key}
Replays(p) == \E t \in Users(p.asked) : t = p.asked.target /\ register[t].mutation.digest = <<p.asked.id, p.at>>

RegisterIsAsExpected(p) ==
    LET r == p.asked IN
    /\ p.expected.register = register
    /\ r.verb = "add" => r.target \notin DOMAIN register /\ p.expected.record = None
    /\ r.verb = "update" => /\ r.target \in DOMAIN register
                            /\ p.expected.record = register[r.target]
                            /\ r.source = register[r.target].source

OccupiedByActive(t) == t \in DOMAIN inventory /\ ~(t[1] = "repo" /\ inventory[t].posture = "retired")
Occupied(t) == t \in DOMAIN inventory

RepositoryFits(r) ==
    LET provider == r.value.provider
        previous == IF r.target \in DOMAIN register THEN register[r.target].value.provider ELSE None IN
    /\ previous # None => provider = previous
    /\ provider # None => ~provider_repository_conflicts(provider, r.target[2])
    /\ r.classification = "admitted" => r.target[2] \in Checkouts

SuggestionFits(r, replay) ==
    r.suggestion # None =>
        /\ AssistActive /\ r.suggestion.accepted
        /\ replay \/ \A t \in DOMAIN register : register[t].suggestion # r.suggestion

IntakeIsAllowed(p) ==
    LET r == p.asked IN
    /\ r.decided /\ r.dated
    /\ Users(r) # {} => Replays(p)
    /\ Replays(p) \/ RegisterIsAsExpected(p)
    /\ ~Occupied(r.target)
    /\ r.target[1] = "repo" => RepositoryFits(r)
    /\ ResponsibilitiesFit(r)
    /\ SuggestionFits(r, Replays(p))
-----------------------------------------------------------------------------
(* Promotion from the register to the inventory.                           *)

IdentityIsFree(r) == \A t \in DOMAIN inventory : inventory[t].mutation.key # r.key /\ inventory[t].mutation.request # r.id

RegistrationFits(r, entrant) ==
    /\ r.value.class = entrant.value.class /\ r.value.bindings = entrant.value.bindings
    /\ SourceOwner(r.value)
    /\ r.value.provider = entrant.value.provider
    /\ ~provider_repository_conflicts(r.value.provider, r.target[2])

PromotionIsReady(p) ==
    LET r == p.asked IN
    /\ r.target \in DOMAIN register /\ r.target \notin DOMAIN inventory
    /\ p.expected.register = register
    /\ p.expected.inventory = Of(inventory, r.target[1])
    /\ register[r.target].status = "admitted"
    /\ r.dated /\ r.value.aligned /\ r.value.valid
    /\ r.target[1] = "repo" => RegistrationFits(r, register[r.target])
    /\ IdentityIsFree(r)
-----------------------------------------------------------------------------
(* Lifecycle of what is in the inventory.                                  *)

Transitions ==
    [update  |-> [active |-> "active", suspended |-> "suspended"],
     suspend |-> [active |-> "suspended"],
     restore |-> [suspended |-> "active", retired |-> "active"],
     retire  |-> [active |-> "retired", suspended |-> "retired"]]

NextPosture(verb, posture) == IF posture \in DOMAIN Transitions[verb] THEN Transitions[verb][posture] ELSE None

UpdateFits(t, value) ==
    LET current == inventory[t].value IN
    /\ value.valid
    /\ t[1] = "repo" =>
         /\ RoutineOwner(t) => SourceOwner(value)
         /\ current.provider # None => value.provider = current.provider
         /\ value.provider # None => ~provider_repository_conflicts(value.provider, t[2])

RestoreFits(p) ==
    LET own == Places(p.asked.target) IN
    \E i \in own :
       /\ IsLast(i, own)
       /\ history[i].action \in {"suspend", "retire"}
       /\ p.expected.prior = history[i]

KeyIsNew(r)     == \A i \in DOMAIN history : history[i].key # r.key
RequestIsNew(r) == \A i \in DOMAIN history : history[i].key # r.key /\ history[i].request # r.id

LifecycleIsReady(p) ==
    LET r == p.asked
        own == Places(r.target) IN
    /\ r.target \in DOMAIN inventory
    /\ p.expected.inventory = Of(inventory, r.target[1]) /\ p.expected.events = history
    /\ r.target[1] = "repo" /\ r.verb # "update" => RoutineOwner(r.target)
    /\ NextPosture(r.verb, inventory[r.target].posture) # None
    /\ r.dated
    /\ r.verb = "update" => UpdateFits(r.target, r.value)
    /\ \A i \in own : IsLast(i, own) => history[i].after = Standing(r.target)
    /\ r.verb = "restore" => RestoreFits(p)
    /\ RequestIsNew(r)
-----------------------------------------------------------------------------
(* Publication of a product, on the evidence its owner has committed.      *)

Publishing ==
    [publish   |-> [from |-> {"unlisted"}, to |-> Listed],
     update    |-> [from |-> Listed, to |-> Listed],
     unpublish |-> [from |-> Listed, to |-> {"unlisted"}],
     archive   |-> [from |-> {"unlisted"}, to |-> {"archived"}],
     restore   |-> [from |-> {"archived"}, to |-> {"unlisted"}]]

LifecycleStates(posture) ==
    CASE posture \in Listed      -> {"active"}
      [] posture = "archived"    -> {"retired"}
      [] posture = "unlisted"    -> {"active", "suspended", "retired"}

\* The manifest of an owner that is not configured is read only while it is registered.
OwnerIsRegistered(owner) ==
    LET t == <<"repo", owner>> IN
    /\ t \in DOMAIN inventory /\ t \notin DOMAIN register
    /\ inventory[t].posture = "active" /\ RoutineOwner(t)
    /\ ~provider_repository_conflicts(inventory[t].value.provider, owner)
    /\ owner \in Checkouts
    /\ \E product \in DOMAIN inventory :
         product[1] = "product" /\ inventory[product].posture = "active" /\ owner \in inventory[product].value.owners

ManifestIsReadable(m) == m # None /\ (m.owner \in Configured \/ OwnerIsRegistered(m.owner))

Binding(t) ==
    LET own == Places(t) IN
    IF own = {} THEN None ELSE [event |-> LastEvent(own), previous |-> LastEvent(own \ {LastPlace(own)})]

\* Findings that only a refresh can cure.
PublicationIsCurrent(p) ==
    LET t == p.asked.target
        m == p.expected.record
        r == p.asked
        product == At(inventory, t) IN
    /\ m = evidence[t]
    /\ product # None => m.version = product.version
    /\ r.schema = 2 /\ m.schema = 2 => /\ m.binding.event = LastEvent(Places(t))
                                       /\ product # None => m.binding.event.after = Standing(t)
    /\ r.verb # "restore" => r.current = m.claimed
    /\ r.expects > 0 => r.previous # None /\ r.previous.version = r.expects

RestorationFits(m) ==
    /\ m.binding # None /\ m.binding.event.action = "restore"
    /\ m.posture = "active" /\ m.claimed = "unlisted"
    /\ m.binding.previous # None
    /\ m.binding.previous.action \in {"suspend", "retire"}

PublicationIsSound(p) ==
    LET t == p.asked.target
        m == p.expected.record
        r == p.asked
        product == At(inventory, t) IN
    /\ m.sound /\ product # None
    /\ m.posture = product.posture
    /\ m.owner \in product.value.owners
    /\ r.schema = 2 => m.schema = 2 /\ m.binding # None
    /\ r.current \in Publishing[r.verb].from /\ r.listing \in Publishing[r.verb].to
    /\ r.value.valid /\ m.posture \in LifecycleStates(r.listing)
    /\ r.listing \in Listed => m.phase = "operational" /\ m.durable
    /\ r.listing = "archived" => m.phase = "retired"
    /\ r.schema = 2 /\ r.verb = "archive" => m.binding # None /\ m.binding.event.action = "retire"
    /\ r.verb = "restore" => RestorationFits(m) /\ r.previous # None /\ r.previous.posture = "archived"
    /\ r.expects = 0 => r.previous = None
    /\ r.dated

evaluate_product_publication(p) ==
    IF ~PublicationIsCurrent(p) THEN "stale" ELSE IF PublicationIsSound(p) THEN "ready" ELSE "blocked"

\* What the projection shows of the latest readiness of a product.
Unexpired(verdict) == ~verdict.expired
IsCurrent(verdict) == ~verdict.expired /\ verdict.revision = revision
Actionable(t) == verdicts[t] # None /\ IsCurrent(verdicts[t]) /\ verdicts[t].outcome = "ready"
-----------------------------------------------------------------------------
(* What the callers, the reviewers of Workspace Governance and the owners  *)
(* of products do, and the judgement of a publication.                     *)

InventoryInit ==
    /\ campaign \in Campaigns
    /\ register = <<>> /\ inventory = Legacy /\ history = <<>>
    /\ evidence = [t \in Products |-> None] /\ verdicts = [t \in Products |-> None]
    /\ revision = 0 /\ kept = None

Expected(r) ==
    LET t == r.target IN
    [register  |-> IF r.policy \in {"intake", "promotion"} THEN register ELSE None,
     inventory |-> IF r.policy \in {"promotion", "lifecycle"} THEN Of(inventory, t[1]) ELSE None,
     events    |-> IF r.policy = "lifecycle" THEN history ELSE None,
     record    |-> CASE r.policy \in {"intake", "promotion"} -> At(register, t)
                     [] r.policy = "lifecycle"   -> At(inventory, t)
                     [] r.policy = "publication" -> evidence[t],
     prior     |-> IF r.verb = "restore" /\ r.policy = "lifecycle" THEN LastEvent(Places(t)) ELSE None]

Prepared(r) == [asked |-> r, at |-> revision, expected |-> Expected(r)]

Keep(r) ==
    /\ kept' = Prepared(r)
    /\ UNCHANGED <<campaign, register, inventory, history, evidence, verdicts, revision>>

Merge ==
    /\ HistoryIsSound
    /\ revision < campaign.merges /\ revision' = revision + 1
    /\ UNCHANGED <<campaign, evidence, verdicts, kept>>

\* A replay is allowed, and changes nothing.
Enter(p) ==
    LET r == p.asked
        t == r.target IN
    /\ r.policy = "intake" /\ IntakeIsAllowed(p) /\ ~Replays(p)
    /\ register' = With(register, t,
         [status |-> r.classification, value |-> r.value, source |-> r.source, suggestion |-> r.suggestion,
          version |-> IF r.verb = "add" THEN 1 ELSE register[t].version + 1,
          mutation |-> [key |-> r.key, digest |-> <<r.id, p.at>>]])
    /\ Merge /\ UNCHANGED <<inventory, history>>

Promote(p) ==
    LET r == p.asked
        t == r.target IN
    /\ r.policy = "promotion" /\ PromotionIsReady(p)
    /\ register' = Restrict(register, DOMAIN register \ {t})
    /\ inventory' = With(inventory, t,
         [version |-> 1, value |-> r.value, posture |-> "active", lineage |-> "workspace-intake",
          entered |-> register[t].version, mutation |-> [key |-> r.key, request |-> r.id]])
    /\ Merge /\ UNCHANGED history

Change(p) ==
    LET r == p.asked
        t == r.target
        record == [inventory[t] EXCEPT !.version = @ + 1, !.posture = NextPosture(r.verb, @),
                     !.value = IF r.verb = "update" THEN r.value ELSE @, !.mutation = [key |-> r.key, request |-> r.id]] IN
    /\ r.policy = "lifecycle" /\ LifecycleIsReady(p)
    /\ inventory' = [inventory EXCEPT ![t] = record]
    /\ history' = Append(history, [target |-> t, sequence |-> Cardinality(Places(t)) + 1, action |-> r.verb, key |-> r.key,
                                 request |-> r.id, before |-> Standing(t),
                                 after |-> [version |-> record.version, posture |-> record.posture]])
    /\ Merge /\ UNCHANGED register

CommitManifest(t, m) ==
    /\ t \in DOMAIN inventory /\ \E r \in campaign.requests : r.policy = "publication" /\ r.target = t
    /\ m.schema = 2 => Binding(t) # None
    /\ evidence' = [evidence EXCEPT ![t] =
         [owner |-> m.owner, version |-> inventory[t].version, posture |-> inventory[t].posture, schema |-> m.schema,
          binding |-> IF m.schema = 2 THEN Binding(t) ELSE None, claimed |-> m.claimed, phase |-> m.phase,
          durable |-> TRUE, sound |-> TRUE]]
    /\ UNCHANGED <<campaign, register, inventory, history, verdicts, revision, kept>>

Judge(p) ==
    LET r == p.asked IN
    /\ r.policy = "publication" /\ HistoryIsSound /\ ManifestIsReadable(p.expected.record)
    /\ verdicts' = [verdicts EXCEPT ![r.target] =
         [verb |-> r.verb, listing |-> r.listing, owner |-> p.expected.record.owner, revision |-> revision,
          outcome |-> evaluate_product_publication(p), expired |-> FALSE]]
    /\ UNCHANGED <<campaign, register, inventory, history, evidence, revision, kept>>

\* Only the expiry of a verdict that is actionable is told from none.
Expire(t) ==
    /\ Actionable(t)
    /\ verdicts' = [verdicts EXCEPT ![t].expired = TRUE]
    /\ UNCHANGED <<campaign, register, inventory, history, evidence, revision, kept>>

\* A request is judged as soon as it is prepared, or after other changes.
Requested == {Prepared(r) : r \in campaign.requests} \cup ({kept} \ {None})

InventoryNext ==
    \/ \E r \in campaign.requests : Keep(r)
    \/ \E p \in Requested : Enter(p) \/ Promote(p) \/ Change(p) \/ Judge(p)
    \/ \E t \in Products, m \in Manifests : CommitManifest(t, m)
    \/ \E t \in Products : Expire(t)

InventorySpec == InventoryInit /\ [][InventoryNext]_inventoryVars
-----------------------------------------------------------------------------
(* A physical repository has one key in the workspace, whatever sequence   *)
(* of additions, promotions, retirements and updates the three policies    *)
(* let through; each of them judges one request against the revision it    *)
(* reads.                                                                  *)
RepositoriesAreDistinct ==
    LET held == [t \in {u \in DOMAIN register \cup DOMAIN inventory : u[1] = "repo"} |->
                   IF t \in DOMAIN register THEN register[t].value.provider ELSE inventory[t].value.provider] IN
    \A t, u \in DOMAIN held : held[t] # None /\ held[t] = held[u] => t = u

(* No change the policies let through leaves a revision that the services  *)
(* and the continuity projection refuse to read: no identity is both an    *)
(* entrant and in the inventory, no key or request occurs twice in the     *)
(* history, and the history ends where the records stand.                  *)
AuthorityIsReadable == IsProjectable

(* A publication the projection shows as actionable still fits the         *)
(* inventory, whatever was merged since it was judged: a listing needs an  *)
(* active product, an archived one a retired product, a restored one a     *)
(* product whose last event is its restoration, and an owner that is not   *)
(* configured is still registered.                                         *)
ActionableIsCurrent ==
    \A t \in Products : Actionable(t) =>
        /\ t \in DOMAIN inventory
        /\ inventory[t].posture \in LifecycleStates(verdicts[t].listing)
        /\ verdicts[t].verb = "restore" =>
             \E i \in Places(t) : IsLast(i, Places(t)) /\ history[i].action = "restore"
        /\ verdicts[t].owner \in Configured \/ OwnerIsRegistered(verdicts[t].owner)
=============================================================================
