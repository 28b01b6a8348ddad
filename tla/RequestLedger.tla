---------------------------- MODULE RequestLedger ---------------------------
(***************************************************************************)
(* The ten readiness services whose ledger binds one decision to an        *)
(* identity chosen by the caller: the custody and the lifecycle of a       *)
(* repository, lifecycle transitions, workspace intake, inventory and its  *)
(* lifecycle, product publication, and landing, maturity and closure of a  *)
(* prototype.                                                              *)
(*                                                                         *)
(* They have one protocol and differ in what identifies a decision, whose  *)
(* it is, what it is based on and when it can still be read.  A call       *)
(* looks its identity up, evaluates, inserts, and answers with what is in  *)
(* the table; each of the steps is a transaction or a read of its own, and *)
(* several processes serve calls.                                          *)
(*                                                                         *)
(* What a decision says is a function of the request, of the basis it was  *)
(* evaluated on and of the instant, so a record holds these three.         *)
(***************************************************************************)
EXTENDS Naturals, FiniteSets

CONSTANTS
    Servers,     \* the API processes
    Services,    \* the services considered, by name
    Submissions, \* what is asked: an evaluation, [evaluation, request, key, content], and its caller
    Actors,      \* the authenticated callers
    Bases,       \* revisions of an authority's source, and releases of the bundled policy
    Instants,    \* readings of the process clocks
    Nothing,     \* no basis, no decision, or no request yet
    MaxIssued,   \* bound: calls started
    MaxMoved     \* bound: moves of the source

\* What a row holds: the request, the basis it was evaluated on and the instant.
Record == [request : Submissions, basis : Bases \cup {Nothing}, at : Instants]

\* Nothing is no decision.
ASSUME LedgerAssumption ==
    /\ Services \subseteq {"custody", "repository", "transition", "intake", "inventory", "lifecycle",
                           "publication", "landing", "maturity", "closure"}
    /\ Nothing \notin Record

VARIABLES
    service,   \* the service this behaviour is about
    authority, \* the source revision to be read now, or Nothing while it is not fresh
    records,   \* the rows of the service's table
    serving,   \* the call each process is serving
    replies,   \* what callers were told: [to, record]
    issued,    \* calls started
    moved      \* moves of the source

ledgerVars == <<service, authority, records, serving, replies, issued, moved>>
-----------------------------------------------------------------------------
(* What the services differ in.  claims: the identities a row holds.       *)
(* owned: it is for its caller only.  basis: the policy release of the     *)
(* process, a source snapshot taken after the lookup or before it, or      *)
(* nothing.  pinned: a row is readable under its own release only.         *)
(* digest: whether the receipt's unique digest covers the evaluation id.   *)

Custody     == [claims |-> {"request"}, owned |-> FALSE, basis |-> "policy", pinned |-> TRUE, digest |-> TRUE]
Repository  == [claims |-> {"request"}, owned |-> FALSE, basis |-> "policy", pinned |-> TRUE, digest |-> TRUE]
Transition  == [claims |-> {"evaluation"}, owned |-> TRUE, basis |-> "none", pinned |-> FALSE, digest |-> TRUE]
Intake      == [claims |-> {"evaluation"}, owned |-> TRUE, basis |-> "source", pinned |-> FALSE, digest |-> TRUE]
Inventory   == [claims |-> {"evaluation"}, owned |-> TRUE, basis |-> "source", pinned |-> FALSE, digest |-> TRUE]
Lifecycle   == [claims |-> {"evaluation"}, owned |-> TRUE, basis |-> "source", pinned |-> FALSE, digest |-> TRUE]
Publication == [claims |-> {"evaluation", "own key", "own request"},
                owned |-> TRUE, basis |-> "source", pinned |-> FALSE, digest |-> TRUE]
Landing     == [claims |-> {"evaluation"}, owned |-> TRUE, basis |-> "source", pinned |-> FALSE, digest |-> FALSE]
Maturity    == [claims |-> {"evaluation"}, owned |-> TRUE, basis |-> "source", pinned |-> FALSE, digest |-> FALSE]
Closure     == [claims |-> {"evaluation"}, owned |-> TRUE, basis |-> "source first", pinned |-> FALSE, digest |-> TRUE]

Service ==
    CASE service = "custody" -> Custody       [] service = "repository" -> Repository
      [] service = "transition" -> Transition [] service = "intake" -> Intake
      [] service = "inventory" -> Inventory   [] service = "lifecycle" -> Lifecycle
      [] service = "publication" -> Publication [] service = "landing" -> Landing
      [] service = "maturity" -> Maturity     [] service = "closure" -> Closure

\* A request is [is, actor]: an evaluation and its caller.
Claim(kind, r) ==
    CASE kind = "request" -> <<"request", r.is.request>>
      [] kind = "evaluation" -> <<"evaluation", r.is.evaluation>>
      [] kind = "own key" -> <<"key", r.actor, r.is.key>>
      [] kind = "own request" -> <<"request", r.actor, r.is.request>>

Claims(r) == {Claim(kind, r) : kind \in Service.claims}

\* The identity the row is looked up by first: its primary key, or its unique request id.
Primary(r) == Claim(IF "request" \in Service.claims THEN "request" ELSE "evaluation", r)

\* What the request or evaluation digest covers.
Content(r) ==
    IF "request" \in Service.claims THEN <<r.is.request, r.is.content>> ELSE r.is

\* The digest of the artifact a record holds.
Digest(x) ==
    <<IF Service.digest THEN Primary(x.request) ELSE Nothing,
      x.request.is.request, x.request.is.key, x.request.is.content, x.basis, x.at>>

\* The checks of _reuse.
Fits(x, r) ==
    /\ Content(x.request) = Content(r)
    /\ Service.owned => x.request.actor = r.actor

Held(r) == {x \in records : Claims(x.request) \cap Claims(r) # {}}
-----------------------------------------------------------------------------
(* One call.                                                               *)

Free == [stage |-> "idle", request |-> Nothing, policy |-> Nothing, basis |-> Nothing, record |-> Nothing]

To(w, stage) == serving' = [serving EXCEPT ![w].stage = stage]

Reuse(w, x) ==
    serving' = IF Fits(x, serving[w].request)
                 THEN [serving EXCEPT ![w].stage = "answer", ![w].record = x]
                 ELSE [serving EXCEPT ![w].stage = "conflict"]

Quiet == UNCHANGED <<service, authority, records, replies, issued, moved>>

Begin(w) ==
    /\ serving[w].stage = "idle" /\ issued < MaxIssued
    /\ \E r \in Submissions, p \in Bases :
          serving' = [serving EXCEPT ![w] =
             [Free EXCEPT !.request = r,
                          !.policy = IF Service.basis = "policy" THEN p ELSE Nothing,
                          !.stage = IF Service.basis = "source first" THEN "snapshot" ELSE "lookup"]]
    /\ issued' = issued + 1
    /\ UNCHANGED <<service, authority, records, replies, moved>>

\* The first lookup; product publication tries the evaluation id before its caller's own claims.
Look(w) ==
    /\ serving[w].stage = "lookup"
    /\ LET held == Held(serving[w].request)
           first == {x \in held : Primary(x.request) = Primary(serving[w].request)}
       IN IF held = {}
            THEN To(w, IF Service.basis = "source" THEN "snapshot" ELSE "insert")
            ELSE \E x \in IF first = {} THEN held ELSE first : Reuse(w, x)
    /\ Quiet

\* The source is read at one committed revision; while it is not fresh the call is refused.
TakeSnapshot(w) ==
    /\ serving[w].stage = "snapshot"
    /\ IF authority = Nothing THEN To(w, "unavailable")
       ELSE serving' = [serving EXCEPT
               ![w].basis = authority,
               ![w].stage = IF Service.basis = "source first" THEN "lookup" ELSE "insert"]
    /\ Quiet

\* The decision as this call evaluates it.
Evaluated(w, now) ==
    [request |-> serving[w].request, at |-> now,
     basis |-> IF Service.basis = "policy" THEN serving[w].policy ELSE serving[w].basis]

\* Mutant: a request id and an idempotency key are unique among all callers.
SharedClaims(new) ==
    \E x \in records :
        \/ Claims(x.request) \cap Claims(new.request) # {}
        \/ Digest(x) = Digest(new)
        \/ "own key" \in Service.claims /\ x.request.is.key = new.request.is.key

\* Primary keys and unique constraints.
Duplicate(new) ==
    \E x \in records : Claims(x.request) \cap Claims(new.request) # {} \/ Digest(x) = Digest(new)

\* The row, its ledger event and, for a transition, its escalation are one transaction.
Store(w) ==
    /\ serving[w].stage = "insert"
    /\ \E now \in Instants :
          LET new == Evaluated(w, now)
          IN IF Duplicate(new)
               THEN /\ serving' = [serving EXCEPT ![w].stage = "recover", ![w].record = new]
                    /\ UNCHANGED records
               ELSE /\ serving' = [serving EXCEPT ![w].stage = "answer", ![w].record = new]
                    /\ records' = records \cup {new}
    /\ UNCHANGED <<service, authority, replies, issued, moved>>

\* Mutant: the loser of the race answers with its own evaluation.
RecoverOwn(w) ==
    /\ serving[w].stage = "recover"
    /\ To(w, "answer")
    /\ Quiet

\* After the rollback, what made the insertion fail; product publication looks among the rows
\* of its caller.
Recover(w) ==
    /\ serving[w].stage = "recover"
    /\ LET r == serving[w].request
           found == {x \in Held(r) : "own key" \in Service.claims => x.request.actor = r.actor}
       IN IF found = {} THEN To(w, "unpersisted") ELSE \E x \in found : Reuse(w, x)
    /\ Quiet

\* _materialize: a decision of another policy release fails its integrity check, and closure
\* looks at the source once more.
Readable(w) ==
    /\ Service.pinned => serving[w].record.basis = serving[w].policy
    /\ Service.basis = "source first" => authority # Nothing

Reply(w) ==
    /\ serving[w].stage = "answer"
    /\ IF Readable(w)
         THEN /\ replies' = replies \cup {[to |-> serving[w].request, record |-> serving[w].record]}
              /\ serving' = [serving EXCEPT ![w] = Free]
         ELSE /\ To(w, "unavailable")
              /\ UNCHANGED replies
    /\ UNCHANGED <<service, authority, records, issued, moved>>

\* read: by the token of the decision, of the caller's own rows where they have an owner.
Fetch(w) ==
    /\ serving[w].stage = "idle" /\ issued < MaxIssued
    /\ \E x \in records, a \in Actors, p \in Bases :
          /\ Service.owned => x.request.actor = a
          /\ serving' = [serving EXCEPT ![w] =
                [Free EXCEPT !.request = [is |-> x.request.is, actor |-> a], !.record = x, !.stage = "answer",
                             !.policy = IF Service.basis = "policy" THEN p ELSE Nothing]]
    /\ issued' = issued + 1
    /\ UNCHANGED <<service, authority, records, replies, moved>>

\* An error response, or a process that dies: the caller is told nothing about a decision.
Drop(w) ==
    /\ serving[w].stage # "idle"
    /\ serving' = [serving EXCEPT ![w] = Free]
    /\ Quiet

\* The trusted ref moves, or its freshness checkpoint lapses.
Shift ==
    /\ Service.basis \in {"source", "source first"} /\ moved < MaxMoved
    /\ \E s \in Bases \cup {Nothing} : s # authority /\ authority' = s
    /\ moved' = moved + 1
    /\ UNCHANGED <<service, records, serving, replies, issued>>

LedgerInit ==
    /\ service \in Services
    /\ authority \in IF Service.basis \in {"source", "source first"} THEN Bases ELSE {Nothing}
    /\ records = {} /\ replies = {} /\ issued = 0 /\ moved = 0
    /\ serving = [w \in Servers |-> Free]

LedgerNext ==
    \/ Shift
    \/ \E w \in Servers :
          \/ Begin(w) \/ Look(w) \/ TakeSnapshot(w) \/ Store(w) \/ Recover(w)
          \/ Reply(w) \/ Fetch(w) \/ Drop(w)

LedgerSpec == LedgerInit /\ [][LedgerNext]_ledgerVars
-----------------------------------------------------------------------------
(* Properties.                                                             *)

\* A conflict is told only when the identity is bound to other content or to another caller, and
\* no row is the answer to this call.
ConflictsAreReal ==
    \A w \in Servers : serving[w].stage = "conflict" =>
        /\ Held(serving[w].request) # {}
        /\ \A x \in records : ~Fits(x, serving[w].request)

\* "Could not be persisted" is left for two races: a publication whose evaluation id another
\* caller took, and a receipt of the same instant that differs in its evaluation id only.
FailuresAreExplained ==
    \A w \in Servers : serving[w].stage = "unpersisted" =>
        \E x \in records :
            LET r == serving[w].request
            IN \/ "own key" \in Service.claims /\ Primary(x.request) = Primary(r) /\ x.request.actor # r.actor
               \/ ~Service.digest /\ x.request.is # r.is /\ x.request.is.request = r.is.request

\* Every decision a caller is told is in the table, about exactly what it asked, and its own
\* where decisions have an owner.
AnswersFit ==
    \A t \in replies : t.record \in records /\ Fits(t.record, t.to)

\* Racing, repeated and re-keyed calls are refused for a reason and answered with what they asked.
CallsAreJust == ConflictsAreReal /\ FailuresAreExplained /\ AnswersFit

\* What an identity is bound to.
BoundTo(k) ==
    LET bound == {x \in records : Primary(x.request) = k}
    IN IF bound = {} THEN Nothing ELSE CHOOSE x \in bound : TRUE

Identities == {<<"request", r.is.request>> : r \in Submissions}
              \cup {<<"evaluation", r.is.evaluation>> : r \in Submissions}

Written == [k \in Identities |-> BoundTo(k)]
Told == [k \in Identities |-> {t.record : t \in {u \in replies : Primary(u.record.request) = k}}]

Log == INSTANCE WriteOnce WITH Keys <- Identities, Values <- Record, None <- Nothing, written <- Written, told <- Told

\* An identity is decided once, whoever comes first, and every caller of it is told that decision
\* although its own evaluation, on another revision or a moment later, may differ.
ImplementsWriteOnce == Log!Spec
=============================================================================
