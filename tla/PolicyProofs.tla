---------------------------- MODULE PolicyProofs ----------------------------
(***************************************************************************)
(* Proofs about the readiness policies and what is carried out on their    *)
(* answers: RepositoryActions, TransitionReadiness, WorkspaceInventory,    *)
(* ArtReadiness, PrototypeLifecycle.                                       *)
(***************************************************************************)
EXTENDS RepositoryActions, TransitionReadiness, WorkspaceInventory, ArtReadiness, PrototypeLifecycle,
        FiniteSetTheorems, TLAPS

-----------------------------------------------------------------------------
(* RepositoryActions.  A decision is about a state the repository was in.  *)
(* What is recorded of the repository changes only with its revision, what *)
(* the provider says of it only with its version, so a state whose version *)
(* is still the repository's still holds; and before a repository is in    *)
(* custody there is nothing recorded that a lost answer could take back.   *)

Repositories ==
    [provider : {"absent", "active", "archived"}, version : Nat,
     custody : {"unrecorded", "linked", "provisioned"}, owner : Owners \cup {None},
     record : {"active", "retired"}, revision : Nat, created : {0, 1}]

UnrecordedIsBlank ==
    repository.custody = "unrecorded" =>
        repository.owner = None /\ repository.record = "active" /\ repository.revision = 0

\* The state s is one r has come from, as far as its record and its provider go.
RecordAged(s, r) ==
    /\ s.revision \in Nat /\ s.revision <= r.revision
    /\ s.revision = r.revision => s.custody = r.custody /\ s.owner = r.owner /\ s.record = r.record

ProviderAged(s, r) ==
    /\ s.version \in Nat /\ s.version <= r.version
    /\ s.version = r.version => s.provider = r.provider

RecordActions == {"retire-workspace-record", "restore-workspace-record"}

\* What a decision says, whatever becomes of the repository.
IsAllowed(d) ==
    /\ d.outcome = "allowed"
    /\ d.next \in {"create-provider", "read-provider", "apply-workspace-custody"} \cup ProviderActions \cup RecordActions
    /\ ConfirmationRules(d.request.action) \subseteq d.gates \cup (d.obligations \cap {"verify-exact-operator-approval"})
    /\ d.next = "create-provider" => "create-provider-once" \in d.obligations
    /\ ~Assigns(d) => "verify-current-custody-version" \in d.obligations /\ d.request.state.custody # "unrecorded"
    /\ d.next \in ProviderActions =>
         "verify-current-provider-version" \in d.obligations /\ d.target.provider \in {"active", "archived"}
    /\ d.next = "apply-workspace-custody" => d.target.owner \in Owners /\ d.target.owner # d.request.state.owner
    /\ d.next \in RecordActions => d.target.record \in {"active", "retired"}

\* ... and what it was about.
IsOf(d, r) ==
    /\ ~Assigns(d) => RecordAged(d.request.state, r)
    /\ d.next \in ProviderActions => ProviderAged(d.request.state, r)

RepositoryInv ==
    /\ repository \in Repositories
    /\ UnrecordedIsBlank
    /\ \A d \in decisions : IsAllowed(d) /\ IsOf(d, repository)
    /\ ObligationsSuffice

\* A decision on custody that is carried out: it is allowed, after the approval it rests on.
LEMMA CustodyIsAllowed ==
    ASSUME NEW r \in CustodyRequests, CustodyDecision(r).next # "stop"
    PROVE  IsAllowed(CustodyDecision(r)) /\ Assigns(CustodyDecision(r))
<1> DEFINE d == CustodyDecision(r)
<1>1. CustodyFindings(r) = {} BY DEF CustodyDecision
<1>2. r.action \in Capabilities BY <1>1 DEF CustodyFindings, If
<1>3. d.outcome = "allowed" /\ d.next = (IF r.action = "provision-new" THEN "create-provider" ELSE "read-provider")
      /\ d.obligations = CustodyObligations(r) /\ d.request = r
  BY <1>1 DEF CustodyDecision
<1>4. ConfirmationRules(r.action) \subseteq d.gates \cup (d.obligations \cap {"verify-exact-operator-approval"})
  BY <1>2, <1>3 DEF ConfirmationRules, CustodyObligations
<1>5. d.next = "create-provider" => "create-provider-once" \in d.obligations
  BY <1>3 DEF CustodyObligations
<1> HIDE DEF d
<1>6. IsAllowed(d) /\ Assigns(d) BY <1>3, <1>4, <1>5 DEF IsAllowed, Assigns, ProviderActions, RecordActions
<1> QED BY <1>6 DEF d

\* A lifecycle decision that is carried out names the version of everything it changes.
LEMMA LifecycleIsAllowed ==
    ASSUME repository \in Repositories, NEW r \in LifecycleRequests,
           LifecycleDecision(r).next \notin {"stop", "request-correction"}
    PROVE  /\ IsAllowed(LifecycleDecision(r)) /\ ~Assigns(LifecycleDecision(r))
           /\ LifecycleDecision(r).request = r
           /\ LifecycleDecision(r).next \in ProviderActions => r.state = repository
<1> DEFINE d == LifecycleDecision(r)
<1>1. r.impact.disposition # "defer" /\ LifecycleFindings(r) = {} BY DEF LifecycleDecision
<1>2. d.outcome = "allowed" /\ d.next = (IF r.action = Transfer THEN "apply-workspace-custody" ELSE r.action)
      /\ d.target = r.target /\ d.gates = HumanGates(r) /\ d.obligations = Obligations(r) /\ d.request = r
  BY <1>1 DEF LifecycleDecision
<1>3. /\ r.action \in ProviderActions \cup RecordActions \cup {Transfer}
      /\ r.state \in {repository, [repository EXCEPT !.version = None]}
      /\ r.target \in LifecycleTargets(r.action)
      /\ repository.custody # "unrecorded"
  BY DEF LifecycleRequests, ProviderActions, RecordActions
<1>4. r.state.custody # "unrecorded" BY <1>3 DEF Repositories
<1>5. ConfirmationRules(r.action) \subseteq d.gates \cup (d.obligations \cap {"verify-exact-operator-approval"})
  BY <1>2, <1>3 DEF ConfirmationRules, HumanGates, If, Capabilities, ProviderActions, RecordActions, Transfer
<1>6. "verify-current-custody-version" \in d.obligations BY <1>2 DEF Obligations
<1>7. ASSUME r.action \in ProviderActions
      PROVE  /\ "verify-current-provider-version" \in d.obligations
             /\ r.target.provider \in {"active", "archived"}
             /\ r.state = repository
  <2>1. "verify-current-provider-version" \in d.obligations BY <1>2, <1>7 DEF Obligations
  <2>2. r.target.provider \in {"active", "archived"} BY <1>3, <1>7 DEF LifecycleTargets, NoTarget, ProviderActions, Transfer
  <2>3. r.state.version # None BY <1>1, <1>7 DEF LifecycleFindings, ProviderFindings, If
  <2>4. [repository EXCEPT !.version = None].version = None BY DEF Repositories
  <2> QED BY <1>3, <2>1, <2>2, <2>3, <2>4
<1>8. r.action = Transfer => r.target.owner \in Owners /\ r.target.owner # r.state.owner
  <2> SUFFICES ASSUME r.action = Transfer PROVE r.target.owner \in Owners /\ r.target.owner # r.state.owner OBVIOUS
  <2>1. r.target.owner # r.state.owner BY <1>1 DEF LifecycleFindings, If
  <2>2. PICK o \in Owners : r.target = [NoTarget EXCEPT !.owner = o] BY <1>3 DEF LifecycleTargets, Transfer
  <2> QED BY <2>1, <2>2 DEF NoTarget
<1>9. r.action \in RecordActions => r.target.record \in {"active", "retired"}
  BY <1>3 DEF LifecycleTargets, NoTarget, RecordActions, Transfer
<1> HIDE DEF d
<1>10. ~Assigns(d) BY <1>2, <1>3 DEF Assigns, ProviderActions, RecordActions, Transfer
<1>11. d.next = r.action \/ (d.next = "apply-workspace-custody" /\ r.action = Transfer) BY <1>2
<1>12. d.next \in ProviderActions => r.action \in ProviderActions BY <1>2 DEF ProviderActions
<1>13. d.next \in RecordActions => r.action \in RecordActions BY <1>2 DEF RecordActions
<1>14. d.next = "apply-workspace-custody" => r.action = Transfer BY <1>2, <1>3 DEF ProviderActions, RecordActions
<1>15. IsAllowed(d)
  BY <1>2, <1>3, <1>4, <1>5, <1>6, <1>7, <1>8, <1>9, <1>10, <1>11, <1>12, <1>13, <1>14 DEF IsAllowed, Assigns
<1> QED BY <1>2, <1>7, <1>10, <1>12, <1>15 DEF d

\* The repository only goes on: what was judged of it stays true of its past.
LEMMA AgedFurther ==
    ASSUME NEW s, NEW r \in Repositories, NEW q \in Repositories, RecordAged(r, q), ProviderAged(r, q)
    PROVE  /\ RecordAged(s, r) => RecordAged(s, q)
           /\ ProviderAged(s, r) => ProviderAged(s, q)
<1>1. r.revision \in Nat /\ q.revision \in Nat /\ r.version \in Nat /\ q.version \in Nat BY DEF Repositories
<1>2. RecordAged(s, r) => RecordAged(s, q)
  <2> SUFFICES ASSUME RecordAged(s, r) PROVE RecordAged(s, q) OBVIOUS
  <2>1. s.revision \in Nat /\ s.revision <= r.revision /\ r.revision <= q.revision BY DEF RecordAged
  <2>2. s.revision <= q.revision BY <1>1, <2>1
  <2>3. s.revision = q.revision => s.revision = r.revision /\ r.revision = q.revision BY <1>1, <2>1
  <2> QED BY <2>1, <2>2, <2>3 DEF RecordAged
<1>3. ProviderAged(s, r) => ProviderAged(s, q)
  <2> SUFFICES ASSUME ProviderAged(s, r) PROVE ProviderAged(s, q) OBVIOUS
  <2>1. s.version \in Nat /\ s.version <= r.version /\ r.version <= q.version BY DEF ProviderAged
  <2>2. s.version <= q.version BY <1>1, <2>1
  <2>3. s.version = q.version => s.version = r.version /\ r.version = q.version BY <1>1, <2>1
  <2> QED BY <2>1, <2>2, <2>3 DEF ProviderAged
<1> QED BY <1>2, <1>3

\* Judging adds a decision about the repository as it is, or none.
LEMMA JudgingIsSound ==
    ASSUME RepositoryInv, JudgeCustody \/ JudgeLifecycle
    PROVE  RepositoryInv'
<1>1. repository \in Repositories BY DEF RepositoryInv
<1>2. PICK d : Concluded(d) /\ (d.next \notin {"stop", "request-correction"} => IsAllowed(d) /\ IsOf(d, repository))
  <2>1. CASE JudgeCustody
    <3>1. PICK r \in CustodyRequests : Concluded(CustodyDecision(r)) BY <2>1 DEF JudgeCustody
    <3>2. CustodyDecision(r).next # "stop" => IsAllowed(CustodyDecision(r)) /\ Assigns(CustodyDecision(r))
      BY CustodyIsAllowed
    <3>3. Assigns(CustodyDecision(r)) => IsOf(CustodyDecision(r), repository) BY DEF IsOf, Assigns, ProviderActions
    <3> QED BY <3>1, <3>2, <3>3
  <2>2. CASE JudgeLifecycle
    <3>1. PICK r \in LifecycleRequests : Concluded(LifecycleDecision(r)) BY <2>2 DEF JudgeLifecycle
    <3> DEFINE d == LifecycleDecision(r)
    <3> SUFFICES ASSUME d.next \notin {"stop", "request-correction"} PROVE IsAllowed(d) /\ IsOf(d, repository)
      BY <3>1
    <3>2. IsAllowed(d) /\ ~Assigns(d) /\ d.request = r /\ (d.next \in ProviderActions => r.state = repository)
      BY <1>1, LifecycleIsAllowed
    <3>3. r.state \in {repository, [repository EXCEPT !.version = None]} BY DEF LifecycleRequests
    <3>4. RecordAged(r.state, repository)
      <4>1. /\ r.state.revision = repository.revision /\ r.state.custody = repository.custody
            /\ r.state.owner = repository.owner /\ r.state.record = repository.record
        BY <1>1, <3>3 DEF Repositories
      <4>2. repository.revision \in Nat BY <1>1 DEF Repositories
      <4> QED BY <4>1, <4>2 DEF RecordAged
    <3>5. ProviderAged(repository, repository) BY <1>1 DEF ProviderAged, Repositories
    <3> HIDE DEF d
    <3> QED BY <3>2, <3>4, <3>5 DEF IsOf
  <2> QED BY <2>1, <2>2
<1>3. decisions' = decisions \/ (decisions' = decisions \cup {d} /\ IsAllowed(d) /\ IsOf(d, repository))
  BY <1>2 DEF Concluded
<1>4. repository' = repository /\ done' = done BY <1>2 DEF Concluded
<1>5. \A e \in decisions' : IsAllowed(e) /\ IsOf(e, repository) BY <1>3 DEF RepositoryInv
<1>6. \A e \in decisions' : IsOf(e, repository) => IsOf(e, repository') BY <1>4
<1>7. ObligationsSuffice' BY <1>4 DEF RepositoryInv, ObligationsSuffice
<1>8. UnrecordedIsBlank' BY <1>4 DEF RepositoryInv, UnrecordedIsBlank
<1> QED BY <1>1, <1>4, <1>5, <1>6, <1>7, <1>8 DEF RepositoryInv

\* Carrying a decision out raises the revision of what it changes in the record and the version
\* of what it changes at the provider; a creation whose answer is lost takes back nothing.
LEMMA CarryingOutGoesOn ==
    ASSUME RepositoryInv, NEW d \in decisions, NEW answered \in BOOLEAN, CarryOut(d, answered)
    PROVE  /\ repository' \in Repositories
           /\ RecordAged(repository, repository') /\ ProviderAged(repository, repository')
           /\ UnrecordedIsBlank'
<1>1. Keeper \in Owners BY OwnersAssumption DEF Keeper
<1>2. repository \in Repositories /\ UnrecordedIsBlank /\ IsAllowed(d) /\ IsOf(d, repository) BY DEF RepositoryInv
<1>3. Fulfilled(d) /\ (Assigns(d) => repository.custody = "unrecorded") /\ (answered \/ d.next = "create-provider")
      /\ repository' = IF answered THEN CarriedOut(d)
                       ELSE [CarriedOut(d) EXCEPT !.custody = "unrecorded", !.owner = None, !.revision = 0]
  BY DEF CarryOut
<1>4. /\ repository.revision \in Nat /\ repository.version \in Nat /\ repository.created \in {0, 1}
      /\ repository.revision + 1 \in Nat /\ repository.version + 1 \in Nat
      /\ repository.revision + 1 # repository.revision /\ repository.version + 1 # repository.version
      /\ repository.revision <= repository.revision + 1 /\ repository.version <= repository.version + 1
  BY <1>2 DEF Repositories
<1>5. Assigns(d) => repository.revision = 0 /\ repository.owner = None /\ repository.record = "active"
                    /\ repository.custody = "unrecorded"
  BY <1>2, <1>3 DEF UnrecordedIsBlank
<1>6. ~Assigns(d) => repository.custody # "unrecorded"
  <2> SUFFICES ASSUME ~Assigns(d) PROVE repository.custody # "unrecorded" OBVIOUS
  <2>1. repository.revision = d.request.state.revision BY <1>2, <1>3 DEF Fulfilled, IsAllowed
  <2>2. d.request.state.custody = repository.custody /\ d.request.state.custody # "unrecorded"
    BY <1>2, <2>1 DEF IsOf, IsAllowed, RecordAged
  <2> QED BY <2>2
<1>7. CASE d.next = "create-provider"
  <2>1. repository.created = 0 BY <1>2, <1>3, <1>7 DEF Fulfilled, IsAllowed
  <2> DEFINE made == [provider |-> "active", version |-> repository.version + 1, custody |-> "provisioned",
                      owner |-> Keeper, record |-> repository.record, revision |-> repository.revision + 1,
                      created |-> 1]
             lost == [made EXCEPT !.custody = "unrecorded", !.owner = None, !.revision = 0]
  <2>2. CarriedOut(d) = made
    <3>1. CarriedOut(d) = [InCustody(d, "provisioned") EXCEPT !.provider = "active", !.version = @ + 1, !.created = @ + 1]
      BY <1>7 DEF CarriedOut, ProviderActions
    <3>2. PICK p, v, o, e, k, c : repository =
            [provider |-> p, version |-> v, custody |-> k, owner |-> o, record |-> e, revision |-> c, created |-> 0]
      <4>1. repository = [provider |-> repository.provider, version |-> repository.version,
                          custody |-> repository.custody, owner |-> repository.owner, record |-> repository.record,
                          revision |-> repository.revision, created |-> repository.created]
        BY <1>2 DEF Repositories
      <4> QED BY <2>1, <4>1
    <3>3. PICK b : b = InCustody(d, "provisioned") OBVIOUS
    <3>4. b = [provider |-> p, version |-> v, custody |-> "provisioned", owner |-> Keeper, record |-> e,
               revision |-> c + 1, created |-> 0]
      BY <3>2, <3>3 DEF InCustody
    <3>5. b.version = v /\ b.created = 0 BY <3>4
    <3>6. CarriedOut(d) = [b EXCEPT !.provider = "active", !.version = v + 1, !.created = 0 + 1]
      BY <3>1, <3>3, <3>5
    <3>7. CarriedOut(d) = [b EXCEPT !.provider = "active", !.version = v + 1, !.created = 1] BY <3>6
    <3>8. made = [provider |-> "active", version |-> v + 1, custody |-> "provisioned", owner |-> Keeper,
                  record |-> e, revision |-> c + 1, created |-> 1]
      BY <3>2
    <3> HIDE DEF made, lost
    <3> QED BY <3>4, <3>7, <3>8
  <2>3. repository' \in {made, lost} BY <1>3, <2>2
  <2>4. repository.record \in {"active", "retired"} BY <1>2 DEF Repositories
  <2>5. made \in Repositories /\ lost \in Repositories BY <1>1, <1>4, <2>4 DEF Repositories
  <2>6. Assigns(d) BY <1>7 DEF Assigns
  <2>7. ProviderAged(repository, made) /\ ProviderAged(repository, lost) BY <1>4 DEF ProviderAged
  <2>8. RecordAged(repository, made) /\ RecordAged(repository, lost) BY <1>4, <1>5, <2>6 DEF RecordAged
  <2>9. /\ made.custody # "unrecorded"
        /\ lost.owner = None /\ lost.record = repository.record /\ lost.revision = 0
    OBVIOUS
  <2> HIDE DEF made, lost
  <2>10. UnrecordedIsBlank' BY <1>5, <2>3, <2>6, <2>9 DEF UnrecordedIsBlank
  <2> QED BY <2>3, <2>5, <2>7, <2>8, <2>10
<1>8. CASE d.next = "read-provider"
  <2>1. repository' = [repository EXCEPT !.custody = "linked", !.owner = Keeper, !.revision = @ + 1]
    <3>1. CarriedOut(d) = InCustody(d, "linked") BY <1>8 DEF CarriedOut, ProviderActions
    <3> QED BY <1>3, <1>8, <3>1 DEF InCustody
  <2>2. /\ repository' \in Repositories
        /\ repository'.revision = repository.revision + 1 /\ repository'.version = repository.version
        /\ repository'.provider = repository.provider /\ repository'.custody = "linked"
    BY <1>1, <1>2, <1>4, <2>1 DEF Repositories
  <2> QED BY <1>4, <2>2 DEF RecordAged, ProviderAged, UnrecordedIsBlank
<1>9. CASE d.next = "apply-workspace-custody"
  <2>1. repository' = [repository EXCEPT !.owner = d.target.owner, !.revision = @ + 1]
    BY <1>3, <1>9 DEF CarriedOut, ProviderActions
  <2>2. ~Assigns(d) /\ d.target.owner \in Owners BY <1>2, <1>9 DEF Assigns, IsAllowed
  <2>3. /\ repository' \in Repositories
        /\ repository'.revision = repository.revision + 1 /\ repository'.version = repository.version
        /\ repository'.provider = repository.provider /\ repository'.custody = repository.custody
    BY <1>2, <1>4, <2>1, <2>2 DEF Repositories
  <2> QED BY <1>4, <1>6, <2>2, <2>3 DEF RecordAged, ProviderAged, UnrecordedIsBlank
<1>10. CASE d.next \in ProviderActions
  <2>1. repository' = [repository EXCEPT !.provider = d.target.provider, !.version = @ + 1]
    BY <1>3, <1>10 DEF CarriedOut, ProviderActions
  <2>2. ~Assigns(d) /\ d.target.provider \in {"active", "archived"}
    BY <1>2, <1>10 DEF Assigns, IsAllowed, ProviderActions
  <2>3. /\ repository' \in Repositories
        /\ repository'.version = repository.version + 1 /\ repository'.revision = repository.revision
        /\ repository'.custody = repository.custody /\ repository'.owner = repository.owner
        /\ repository'.record = repository.record
    BY <1>2, <1>4, <2>1, <2>2 DEF Repositories
  <2> QED BY <1>4, <1>6, <2>2, <2>3 DEF RecordAged, ProviderAged, UnrecordedIsBlank
<1>11. CASE d.next \in RecordActions
  <2>1. repository' = [repository EXCEPT !.record = d.target.record, !.revision = @ + 1]
    BY <1>3, <1>11 DEF CarriedOut, ProviderActions, RecordActions
  <2>2. ~Assigns(d) /\ d.target.record \in {"active", "retired"} BY <1>2, <1>11 DEF Assigns, IsAllowed, RecordActions
  <2>3. /\ repository' \in Repositories
        /\ repository'.revision = repository.revision + 1 /\ repository'.version = repository.version
        /\ repository'.provider = repository.provider /\ repository'.custody = repository.custody
    BY <1>2, <1>4, <2>1, <2>2 DEF Repositories
  <2> QED BY <1>4, <1>6, <2>2, <2>3 DEF RecordAged, ProviderAged, UnrecordedIsBlank
<1> QED BY <1>2, <1>7, <1>8, <1>9, <1>10, <1>11 DEF IsAllowed

\* A decision carried out finds what was judged still so, and does what was asked.
LEMMA CarryingOutSuffices ==
    ASSUME RepositoryInv, NEW d \in decisions, NEW answered \in BOOLEAN, CarryOut(d, answered),
           repository' \in Repositories
    PROVE  ObligationsSuffice'
<1>1. repository \in Repositories /\ IsAllowed(d) /\ IsOf(d, repository) BY DEF RepositoryInv
<1>2. Fulfilled(d) /\ (answered \/ d.next = "create-provider")
      /\ done' = [decision |-> d, before |-> repository, after |-> repository',
                  confirmed |-> d.gates \cup (d.obligations \cap {"verify-exact-operator-approval"})]
  BY DEF CarryOut
<1>3. ~Assigns(d) => /\ repository.custody = d.request.state.custody
                     /\ repository.owner = d.request.state.owner
                     /\ repository.record = d.request.state.record
  BY <1>1, <1>2 DEF Fulfilled, IsAllowed, IsOf, RecordAged
<1>4. d.next \in ProviderActions => repository.provider = d.request.state.provider
  BY <1>1, <1>2 DEF Fulfilled, IsAllowed, IsOf, ProviderAged
<1>5. d.next = "apply-workspace-custody" => repository'.owner # repository.owner
  <2> SUFFICES ASSUME d.next = "apply-workspace-custody" PROVE repository'.owner # repository.owner OBVIOUS
  <2>1. repository' = [repository EXCEPT !.owner = d.target.owner, !.revision = @ + 1]
    <3>1. repository' = CarriedOut(d) BY <1>2 DEF CarryOut
    <3> QED BY <3>1 DEF CarriedOut, ProviderActions
  <2>2. repository'.owner = d.target.owner BY <1>1, <2>1 DEF Repositories
  <2>3. d.target.owner # d.request.state.owner /\ ~Assigns(d) BY <1>1 DEF IsAllowed, Assigns
  <2> QED BY <1>3, <2>2, <2>3
<1>6. repository'.created <= 1 BY DEF Repositories
<1>7. /\ done'.decision = d /\ done'.before = repository /\ done'.after = repository'
      /\ done'.confirmed = d.gates \cup (d.obligations \cap {"verify-exact-operator-approval"})
  BY <1>2
<1>8. d.outcome = "allowed" /\ ConfirmationRules(d.request.action) \subseteq done'.confirmed
  BY <1>1, <1>7 DEF IsAllowed
<1> QED BY <1>3, <1>4, <1>5, <1>6, <1>7, <1>8 DEF ObligationsSuffice

\* Every step keeps the invariant: what is carried out, and what others do at the provider.
LEMMA RepositoryStep ==
    ASSUME RepositoryInv, RepositoryNext
    PROVE  RepositoryInv'
<1>1. CASE JudgeCustody \/ JudgeLifecycle BY <1>1, JudgingIsSound
<1>2. ASSUME repository' \in Repositories, RecordAged(repository, repository'), ProviderAged(repository, repository'),
             decisions' \subseteq decisions
      PROVE  \A d \in decisions' : IsAllowed(d) /\ IsOf(d, repository')
  <2> SUFFICES ASSUME NEW d \in decisions' PROVE IsAllowed(d) /\ IsOf(d, repository') OBVIOUS
  <2> DEFINE r == repository  q == repository'
  <2>1. IsAllowed(d) /\ IsOf(d, r) /\ r \in Repositories BY <1>2 DEF RepositoryInv
  <2>2. q \in Repositories /\ RecordAged(r, q) /\ ProviderAged(r, q) BY <1>2
  <2> HIDE DEF r, q
  <2>3. /\ RecordAged(d.request.state, r) => RecordAged(d.request.state, q)
        /\ ProviderAged(d.request.state, r) => ProviderAged(d.request.state, q)
    BY <2>1, <2>2, AgedFurther
  <2>4. IsOf(d, q) BY <2>1, <2>3 DEF IsOf
  <2> QED BY <2>1, <2>4 DEF q
<1>3. ASSUME NEW d \in decisions, NEW answered \in BOOLEAN, CarryOut(d, answered) PROVE RepositoryInv'
  <2>1. repository' \in Repositories /\ RecordAged(repository, repository') /\ ProviderAged(repository, repository')
        /\ UnrecordedIsBlank'
    BY <1>3, CarryingOutGoesOn
  <2>2. decisions' \subseteq decisions BY <1>3 DEF CarryOut
  <2>3. ObligationsSuffice' BY <1>3, <2>1, CarryingOutSuffices
  <2> QED BY <1>2, <2>1, <2>2, <2>3 DEF RepositoryInv
<1>4. ASSUME NEW state \in {"active", "archived"}, Drift(state) PROVE RepositoryInv'
  <2>1. repository' = [repository EXCEPT !.provider = state, !.version = @ + 1]
        /\ decisions' = decisions /\ done' = done
    BY <1>4 DEF Drift
  <2>2. repository \in Repositories /\ UnrecordedIsBlank /\ ObligationsSuffice BY DEF RepositoryInv
  <2>3. repository.revision \in Nat /\ repository.version \in Nat /\ repository.version + 1 \in Nat
        /\ repository.version <= repository.version + 1 /\ repository.version + 1 # repository.version
    BY <2>2 DEF Repositories
  <2>4. /\ repository' \in Repositories /\ repository'.version = repository.version + 1
        /\ repository'.revision = repository.revision /\ repository'.custody = repository.custody
        /\ repository'.owner = repository.owner /\ repository'.record = repository.record
    BY <2>1, <2>2, <2>3 DEF Repositories
  <2>5. RecordAged(repository, repository') /\ ProviderAged(repository, repository')
    BY <2>3, <2>4 DEF RecordAged, ProviderAged
  <2>6. UnrecordedIsBlank' BY <2>2, <2>4 DEF UnrecordedIsBlank
  <2>7. ObligationsSuffice' BY <2>1, <2>2 DEF ObligationsSuffice
  <2> QED BY <1>2, <2>1, <2>4, <2>5, <2>6, <2>7 DEF RepositoryInv
<1> QED BY <1>1, <1>3, <1>4 DEF RepositoryNext

\* Carrying a decision out needs no more than the decision tells: whatever requests are judged on
\* whatever owners, targets and assessments, and whatever happens between the judgement and the
\* deed, only a repository in which what was judged still holds is changed, after the
\* confirmations the contract asks for, and it is created once.
THEOREM ObligationsCorrect == RepositorySpec => []ObligationsSuffice
<1>1. RepositoryInit => RepositoryInv
  <2> SUFFICES ASSUME RepositoryInit PROVE RepositoryInv OBVIOUS
  <2>1. repository \in Repositories /\ UnrecordedIsBlank
    <3>1. Absent \in Repositories BY DEF Absent, Repositories
    <3>2. [Absent EXCEPT !.provider = "active", !.version = 1] \in Repositories BY DEF Absent, Repositories
    <3>3. Absent.custody = "unrecorded" /\ Absent.owner = None /\ Absent.record = "active" /\ Absent.revision = 0
      BY DEF Absent
    <3>4. PICK a : a = [Absent EXCEPT !.provider = "active", !.version = 1] OBVIOUS
    <3>5. a.custody = "unrecorded" /\ a.owner = None /\ a.record = "active" /\ a.revision = 0
      BY <3>4 DEF Absent
    <3>6. repository = Absent \/ repository = a BY <3>4 DEF RepositoryInit
    <3> QED BY <3>1, <3>2, <3>3, <3>4, <3>5, <3>6 DEF UnrecordedIsBlank
  <2> QED BY <2>1 DEF RepositoryInit, RepositoryInv, ObligationsSuffice
<1>2. RepositoryInv /\ [RepositoryNext]_repositoryVars => RepositoryInv'
  <2> SUFFICES ASSUME RepositoryInv, [RepositoryNext]_repositoryVars PROVE RepositoryInv' OBVIOUS
  <2>1. CASE RepositoryNext BY <2>1, RepositoryStep
  <2>2. CASE UNCHANGED repositoryVars
    BY <2>2 DEF repositoryVars, RepositoryInv, UnrecordedIsBlank, ObligationsSuffice
  <2> QED BY <2>1, <2>2
<1>3. RepositoryInv => ObligationsSuffice BY DEF RepositoryInv
<1> QED BY <1>1, <1>2, <1>3, PTL DEF RepositorySpec

-----------------------------------------------------------------------------
(* TransitionReadiness.  A projection is the transition as it is, or with  *)
(* one flaw.  A flaw is found by what is asked of every projection, or     *)
(* makes its state inconsistent; and a projection without one names the    *)
(* owner that is waited for wherever the answer takes an owner from.       *)

States == Active \cup Ended \cup ToAct \cup {"blocked"}

\* What is published of transition t, whenever that was.
Published(t, until) ==
    [state |-> t.state, route |-> Right.route, source |-> Right.source, target |-> Right.target,
     freshness |-> "current", validUntil |-> until,
     history |-> t.history, revision |-> Len(t.history), references |-> {"receipt"},
     next |-> IF t.state \in Ended THEN None ELSE [owner |-> Actor(t)],
     gate |-> IF t.state \in Active THEN t.waits ELSE None,
     blockedGate |-> IF t.state = "blocked" THEN t.waits ELSE None,
     correction |-> IF t.state = "returned" THEN t.waits ELSE None,
     recorded |-> Required(t.state)]

ProjectionIsKnown ==
    \E until :
       \/ flaws = {} /\ projection = Published(transition, until)
       \/ \E flaw \in {"unbound", "stale", "disordered", "unsafe", "incomplete"} :
            projection \in Spoiled(Published(transition, until), flaw) /\ flaws = {flaw}

\* What is asked of every projection.
SourceIsSound(p) ==
    /\ <<p.source, p.target>> = RouteDomains[p.route]
    /\ p.freshness = "current" /\ clock < p.validUntil
    /\ Ordered(p.history, p.revision)
    /\ \A r \in p.references : SafeReference(r)

SourceBlocks == [code : SourceCodes, severity : {"blocking"}, owner : {OOS}]

\* What a projection has that is not as asked.
SourceBlock(code) == <<Finding(code, "blocking", OOS)>>

\* It blocks, and OOS is to cure it.
LEMMA SourceBlockIsTyped ==
    ASSUME NEW code \in SourceCodes
    PROVE  SourceBlock(code) \in Seq(SourceBlocks) /\ SourceBlock(code) # <<>>
<1>1. PICK f : f = Finding(code, "blocking", OOS) OBVIOUS
<1>2. f \in SourceBlocks BY <1>1 DEF Finding, SourceBlocks
<1>3. <<f>> \in Seq(SourceBlocks) /\ <<f>> # <<>> BY <1>2
<1> QED BY <1>1, <1>3 DEF SourceBlock

\* A projection that is not as asked has a finding that blocks and that OOS is to cure.
LEMMA SourceIsFound ==
    ASSUME NEW p
    PROVE  SourceFindings(p) \in Seq(SourceBlocks) /\ (SourceFindings(p) = <<>> <=> SourceIsSound(p))
<1> DEFINE a == IF <<p.source, p.target>> = RouteDomains[p.route] THEN <<>> ELSE SourceBlock("route-binding-invalid")
           b == IF p.freshness = "current" /\ clock < p.validUntil THEN <<>> ELSE SourceBlock("source-not-current")
           c == IF Ordered(p.history, p.revision) THEN <<>> ELSE SourceBlock("history-order-invalid")
           d == IF \A r \in p.references : SafeReference(r) THEN <<>> ELSE SourceBlock("evidence-reference-unsafe")
<1>1. SourceFindings(p) = a \o b \o c \o d BY Zenon DEF SourceFindings, SourceBlock
<1>2. /\ <<>> \in Seq(SourceBlocks)
      /\ SourceBlock("route-binding-invalid") \in Seq(SourceBlocks) /\ SourceBlock("route-binding-invalid") # <<>>
      /\ SourceBlock("source-not-current") \in Seq(SourceBlocks) /\ SourceBlock("source-not-current") # <<>>
      /\ SourceBlock("history-order-invalid") \in Seq(SourceBlocks) /\ SourceBlock("history-order-invalid") # <<>>
      /\ SourceBlock("evidence-reference-unsafe") \in Seq(SourceBlocks) /\ SourceBlock("evidence-reference-unsafe") # <<>>
  BY SourceBlockIsTyped DEF SourceCodes
<1>3. a \in Seq(SourceBlocks) /\ (a = <<>> <=> <<p.source, p.target>> = RouteDomains[p.route]) BY <1>2
<1>4. b \in Seq(SourceBlocks) /\ (b = <<>> <=> p.freshness = "current" /\ clock < p.validUntil) BY <1>2
<1>5. c \in Seq(SourceBlocks) /\ (c = <<>> <=> Ordered(p.history, p.revision)) BY <1>2
<1>6. d \in Seq(SourceBlocks) /\ (d = <<>> <=> \A r \in p.references : SafeReference(r)) BY <1>2
<1> HIDE DEF a, b, c, d
<1>7. a \o b \o c \o d \in Seq(SourceBlocks) BY <1>3, <1>4, <1>5, <1>6
<1>8. a \o b \o c \o d = <<>> <=> a = <<>> /\ b = <<>> /\ c = <<>> /\ d = <<>>
  BY <1>3, <1>4, <1>5, <1>6
<1> QED BY <1>1, <1>3, <1>4, <1>5, <1>6, <1>7, <1>8 DEF SourceIsSound

Asked == [code : SourceCodes \cup StateCodes, severity : {"blocking", "warning"}, owner : People \cup {OOS}]
Escalations == [reason : SourceCodes \cup StateCodes \cup StateReasons, owner : People \cup {OOS}]

\* The projection p tells the state of transition t as it is.
TellsStateOf(p, t) ==
    /\ p.state = t.state
    /\ p.next = IF t.state \in Ended THEN None ELSE [owner |-> Actor(t)]
    /\ p.gate = IF t.state \in Active THEN t.waits ELSE None
    /\ p.blockedGate = IF t.state = "blocked" THEN t.waits ELSE None
    /\ p.correction = IF t.state = "returned" THEN t.waits ELSE None
    /\ p.recorded = Required(t.state)

\* The verdict v asks the owner that transition t waits for to act, if there is one; waiting for
\* one blocks only what is under way or blocked.
AsksOwnerOf(v, t) ==
    \/ t.waits = None /\ t.state \in Active \cup Ended /\ v = Consistent
    \/ /\ t.waits # None /\ t.state \notin Ended
       /\ v.finding \in Asked /\ v.escalation \in Escalations /\ v.escalation.owner = t.waits
       /\ t.state \notin ToAct => v.finding.severity = "blocking"

\* A finding about an owner is one, and so is an escalation to one.
LEMMA VerdictIsTyped ==
    ASSUME NEW code \in StateCodes, NEW severity \in {"blocking", "warning"}, NEW reason \in StateReasons,
           NEW owner \in People \cup {OOS}
    PROVE  LET v == Routed(code, severity, reason, owner) IN
           /\ v.finding \in Asked /\ v.finding.severity = severity
           /\ v.escalation \in Escalations /\ v.escalation.owner = owner
BY DEF Routed, Verdict, Finding, Escalation, Asked, Escalations

\* Whoever is waited for is a person, and the one to act is known.
TypedTransition(t) ==
    /\ t.state \in States
    /\ t.waits \in People \cup {None}
    /\ Waiting(t.state) => t.waits \in People
    /\ t.state \in Ended => t.waits = None

\* A state that is told as it is asks the owner that is waited for.
LEMMA StateIsAsked ==
    ASSUME NEW t, TypedTransition(t), NEW p, TellsStateOf(p, t), None \notin People
    PROVE  AsksOwnerOf(StateEvaluation(p), t) /\ (p.next = None <=> t.state \in Ended)
<1>1. None \notin [owner : People \cup {OOS}] BY TransitionAssumption
<1>2. p.state = t.state /\ t.waits \in People \cup {None} BY DEF TellsStateOf, TypedTransition
<1>3. CASE t.state \in Active
  <2>1. Actor(t) = OOS /\ t.state \notin Ended /\ t.state \notin ToAct BY <1>3 DEF Actor, Active, Ended, ToAct
  <2>2. p.next = [owner |-> OOS] /\ p.gate = t.waits BY <1>3, <2>1 DEF TellsStateOf
  <2>3. p.next # None BY <1>1, <2>2
  <2>4. /\ t.waits # None => StateEvaluation(p) = GateVerdict("validation-gate-blocked", t.waits)
        /\ t.waits = None => StateEvaluation(p) = Consistent
    <3> DEFINE e == GateVerdict("validation-gate-blocked", p.gate)
    <3>1. /\ p.state \in Active /\ p.state # "blocked" /\ p.state # "returned"
          /\ p.state \notin {"deferred", "rejected", "failed"}
      BY <1>2, <1>3 DEF Active
    <3>2. p.gate # None => StateEvaluation(p) = e BY <2>3, <3>1 DEF StateEvaluation
    <3>3. p.gate = None => StateEvaluation(p) = Consistent BY <2>3, <3>1 DEF StateEvaluation
    <3>4. e = GateVerdict("validation-gate-blocked", t.waits) BY <2>2
    <3> HIDE DEF e
    <3> QED BY <2>2, <3>2, <3>3, <3>4
  <2>5. t.waits # None => AsksOwnerOf(GateVerdict("validation-gate-blocked", t.waits), t)
    <3> SUFFICES ASSUME t.waits # None PROVE AsksOwnerOf(GateVerdict("validation-gate-blocked", t.waits), t) OBVIOUS
    <3>1. PICK o : o = t.waits OBVIOUS
    <3>2. o \in People \cup {OOS} BY <1>2, <3>1
    <3>3. PICK v : v = Routed("validation-gate-blocked", "blocking", "gate", o) OBVIOUS
    <3>4. v.finding \in Asked /\ v.finding.severity = "blocking" /\ v.escalation \in Escalations /\ v.escalation.owner = o
      BY <3>2, <3>3, VerdictIsTyped DEF StateCodes, StateReasons
    <3> QED BY <2>1, <3>1, <3>3, <3>4 DEF AsksOwnerOf, GateVerdict
  <2>6. t.waits = None => AsksOwnerOf(Consistent, t) BY <1>3 DEF AsksOwnerOf
  <2> QED BY <2>1, <2>3, <2>4, <2>5, <2>6
<1>4. CASE t.state \in Ended
  <2>1. t.state \notin Active \cup ToAct \cup {"blocked"} BY <1>4 DEF Active, Ended, ToAct
  <2>2. p.next = None /\ p.recorded = Required(p.state) BY <1>2, <1>4 DEF TellsStateOf
  <2>3. StateEvaluation(p) = Consistent
    <3>1. p.state \notin Active /\ p.state # "blocked" /\ p.state # "returned" /\ p.state \notin {"deferred", "rejected", "failed"}
      BY <1>2, <2>1 DEF ToAct
    <3> QED BY <2>2, <3>1 DEF StateEvaluation
  <2> QED BY <1>4, <2>2, <2>3 DEF AsksOwnerOf, TypedTransition
<1>5. CASE t.state \in ToAct \cup {"blocked"}
  <2>1. t.state \notin Active /\ t.state \notin Ended BY <1>5 DEF Active, Ended, ToAct
  <2>2. PICK o : o = t.waits OBVIOUS
  <2>3. o \in People /\ o # None BY <1>5, <2>2 DEF TypedTransition, Waiting
  <2>4. p.next = [owner |-> o] BY <2>1, <2>2 DEF TellsStateOf, Actor
  <2>5. p.next # None BY <1>1, <2>3, <2>4
  <2>6. CASE t.state = "blocked"
    <3>1. p.blockedGate = o BY <2>2, <2>6 DEF TellsStateOf
    <3>2. StateEvaluation(p) = Routed("gate-blocked", "blocking", "gate", o)
      BY <1>2, <2>1, <2>3, <2>6, <3>1 DEF StateEvaluation, GateVerdict
    <3>3. PICK v : v = Routed("gate-blocked", "blocking", "gate", o) OBVIOUS
    <3>4. v.finding \in Asked /\ v.finding.severity = "blocking" /\ v.escalation \in Escalations /\ v.escalation.owner = o
      BY <2>3, <3>3, VerdictIsTyped DEF StateCodes, StateReasons
    <3> QED BY <2>1, <2>2, <2>3, <2>5, <3>2, <3>3, <3>4 DEF AsksOwnerOf
  <2>7. CASE t.state = "returned"
    <3>1. p.correction = o BY <2>2, <2>7 DEF TellsStateOf
    <3>2. StateEvaluation(p) = Routed("source-correction-required", "warning", "correction", o)
      BY <1>2, <2>1, <2>3, <2>7, <3>1 DEF StateEvaluation
    <3>3. PICK v : v = Routed("source-correction-required", "warning", "correction", o) OBVIOUS
    <3>4. v.finding \in Asked /\ v.escalation \in Escalations /\ v.escalation.owner = o
      BY <2>3, <3>3, VerdictIsTyped DEF StateCodes, StateReasons
    <3>5. t.state \in ToAct BY <2>7 DEF ToAct
    <3> QED BY <2>1, <2>2, <2>3, <2>5, <3>2, <3>3, <3>4, <3>5 DEF AsksOwnerOf
  <2>8. CASE t.state \in {"deferred", "rejected", "failed"}
    <3>1. p.recorded = Required(p.state) BY <1>2 DEF TellsStateOf
    <3>2. p.next.owner = o BY <2>4
    <3>3. p.state \notin Active /\ p.state # "blocked" /\ p.state # "returned" /\ p.state \in {"deferred", "rejected", "failed"}
      BY <1>2, <2>1, <2>8
    <3>4. StateEvaluation(p) = Routed(p.state, "warning", p.state, o)
      BY <2>5, <3>1, <3>2, <3>3 DEF StateEvaluation
    <3>5. PICK v : v = Routed(p.state, "warning", p.state, o) OBVIOUS
    <3>6. p.state \in StateCodes /\ p.state \in StateReasons BY <3>3 DEF StateCodes, StateReasons
    <3>7. v.finding \in Asked /\ v.escalation \in Escalations /\ v.escalation.owner = o
      BY <2>3, <3>5, <3>6, VerdictIsTyped
    <3>8. t.state \in ToAct BY <2>8 DEF ToAct
    <3> QED BY <2>1, <2>2, <2>3, <2>5, <3>4, <3>5, <3>7, <3>8 DEF AsksOwnerOf
  <2> QED BY <1>5, <2>6, <2>7, <2>8 DEF ToAct
<1> QED BY <1>3, <1>4, <1>5 DEF TypedTransition, States

\* What the evaluation e of a projection p of t with the verdict v tells: it blocks when the
\* projection is not as asked or its state blocks, and escalates to the one the state asks, or to OOS.
IsRouted(e, p, v, t) ==
    /\ e.outcome \in {"blocked", "terminal", "requires-action", "ready"}
    /\ e.outcome # "blocked" => SourceIsSound(p) /\ v # Inconsistent /\ e.escalation = v.escalation
    /\ e.outcome = "ready" => t.state \in Active /\ t.waits = None
    /\ e.outcome = "terminal" => t.state \in Ended
    /\ e.outcome = "requires-action" => t.state \in ToAct
    /\ e.outcome = "blocked" =>
         /\ e.escalation # None
         /\ \/ e.escalation.owner = t.waits
            \/ e.escalation.owner = OOS /\ (~SourceIsSound(p) \/ v = Inconsistent)
    /\ e.next = p.next /\ "credential" \notin e.references

\* A projection that tells the state as it is, or one that makes it inconsistent, is routed.
LEMMA EvaluationIsRouted ==
    ASSUME NEW p, NEW t, TypedTransition(t), p.state = t.state, None \notin People,
           NEW v, v = StateEvaluation(p),
           v = Inconsistent \/ AsksOwnerOf(v, t)
    PROVE  IsRouted(Evaluation(p), p, v, t)
<1> DEFINE s == SourceFindings(p)
           f == v.finding
           all == s \o (IF f = None THEN <<>> ELSE <<f>>)
           blocked == \E i \in DOMAIN all : all[i].severity = "blocking"
           e == Evaluation(p)
<1>1. s \in Seq(SourceBlocks) /\ (s = <<>> <=> SourceIsSound(p)) BY SourceIsFound
<1>2. /\ None \notin Asked /\ None \notin Escalations BY TransitionAssumption DEF Asked, Escalations
<1>3. v.finding = None \/ v.finding \in Asked
  <2>1. PICK g : g = Finding("state-inconsistent", "blocking", OOS) OBVIOUS
  <2>2. g \in Asked BY <2>1 DEF Finding, Asked, StateCodes
  <2>3. Inconsistent.finding = g BY <2>1 DEF Inconsistent, Verdict
  <2>4. Consistent.finding = None BY DEF Consistent, Verdict
  <2> QED BY <2>2, <2>3, <2>4 DEF AsksOwnerOf
<1>4. /\ e.outcome = IF blocked THEN "blocked" ELSE IF p.state \in Ended THEN "terminal"
                     ELSE IF p.state \in ToAct THEN "requires-action" ELSE "ready"
      /\ e.escalation = IF blocked /\ v.escalation = None THEN Escalation(all[1].code, all[1].owner) ELSE v.escalation
      /\ e.next = p.next
      /\ e.references = {r \in p.references : SafeReference(r)}
  BY DEF Evaluation, Findings
<1>5. "credential" \notin e.references BY <1>4 DEF SafeReference
<1> HIDE DEF e
<1>6. ~SourceIsSound(p) => blocked /\ all[1].owner = OOS
  <2> SUFFICES ASSUME ~SourceIsSound(p) PROVE blocked /\ all[1].owner = OOS OBVIOUS
  <2>1. s # <<>> /\ 1 \in DOMAIN s /\ s[1] \in SourceBlocks BY <1>1
  <2>2. all[1] = s[1] /\ 1 \in DOMAIN all BY <1>1, <2>1
  <2> QED BY <2>1, <2>2 DEF SourceBlocks
<1>7. SourceIsSound(p) /\ f # None => (blocked <=> f.severity = "blocking") /\ all[1] = f
  <2> SUFFICES ASSUME SourceIsSound(p), f # None PROVE (blocked <=> f.severity = "blocking") /\ all[1] = f OBVIOUS
  <2>1. all = <<f>> BY <1>1
  <2>2. DOMAIN all = {1} /\ all[1] = f BY <2>1
  <2> QED BY <2>2
<1>8. SourceIsSound(p) /\ f = None => ~blocked
  <2> SUFFICES ASSUME SourceIsSound(p), f = None PROVE ~blocked OBVIOUS
  <2>1. all = <<>> BY <1>1
  <2> QED BY <2>1
<1> HIDE DEF s, f, all, blocked
<1>9. CASE v = Inconsistent
  <2>1. f # None /\ f.severity = "blocking" /\ f.owner = OOS /\ v.escalation = None
    <3>1. PICK g : g = Finding("state-inconsistent", "blocking", OOS) OBVIOUS
    <3>2. g \in Asked /\ g.severity = "blocking" /\ g.owner = OOS BY <3>1 DEF Finding, Asked, StateCodes
    <3>3. Inconsistent.finding = g /\ Inconsistent.escalation = None BY <3>1 DEF Inconsistent, Verdict
    <3> QED BY <1>2, <1>9, <3>2, <3>3 DEF f
  <2>2. blocked /\ all[1].owner = OOS BY <1>6, <1>7, <2>1
  <2>3. all[1] \in Asked
    <3>1. ~SourceIsSound(p) => all[1] \in SourceBlocks BY <1>1 DEF s, all
    <3>2. SourceBlocks \subseteq Asked BY DEF SourceBlocks, Asked
    <3> QED BY <1>3, <1>7, <2>1, <3>1, <3>2 DEF f
  <2>4. e.outcome = "blocked" /\ e.escalation = Escalation(all[1].code, all[1].owner) /\ e.next = p.next
    BY <1>4, <2>1, <2>2
  <2>5. PICK c : c = all[1].code OBVIOUS
  <2>6. e.escalation = [reason |-> c, owner |-> OOS] BY <2>2, <2>4, <2>5 DEF Escalation
  <2>7. c \in SourceCodes \cup StateCodes BY <2>3, <2>5 DEF Asked
  <2>8. e.escalation \in Escalations /\ e.escalation.owner = OOS BY <2>6, <2>7 DEF Escalations
  <2> QED BY <1>2, <1>5, <1>9, <2>4, <2>8 DEF e, IsRouted
<1>10. CASE v # Inconsistent /\ t.waits = None
  <2>1. v.finding = None /\ v.escalation = None /\ t.state \in Active \cup Ended
    BY <1>10 DEF AsksOwnerOf, Consistent, Verdict
  <2>2. t.state \notin ToAct BY <2>1 DEF Active, Ended, ToAct
  <2>3. CASE SourceIsSound(p)
    <3>1. ~blocked BY <1>8, <2>1, <2>3 DEF f
    <3>2. /\ e.outcome = (IF p.state \in Ended THEN "terminal" ELSE "ready") /\ e.escalation = None
          /\ e.next = p.next
      BY <1>4, <2>1, <2>2, <3>1
    <3> QED BY <1>5, <1>10, <2>1, <2>3, <3>2 DEF e, IsRouted
  <2>4. CASE ~SourceIsSound(p)
    <3>1. blocked /\ all[1].owner = OOS BY <1>6, <2>4
    <3>2. e.outcome = "blocked" /\ e.escalation = Escalation(all[1].code, OOS) /\ e.next = p.next
      BY <1>4, <2>1, <3>1
    <3>3. all[1] \in SourceBlocks BY <1>1, <2>4 DEF s, all
    <3>4. PICK c : c = all[1].code OBVIOUS
    <3>5. c \in SourceCodes BY <3>3, <3>4 DEF SourceBlocks
    <3>6. e.escalation = [reason |-> c, owner |-> OOS] BY <3>2, <3>4 DEF Escalation
    <3>7. e.escalation \in Escalations /\ e.escalation.owner = OOS BY <3>5, <3>6 DEF Escalations
    <3> QED BY <1>2, <1>5, <2>4, <3>2, <3>7 DEF e, IsRouted
  <2> QED BY <2>3, <2>4
<1>11. CASE v # Inconsistent /\ t.waits # None
  <2>1. /\ t.state \notin Ended /\ v.finding \in Asked /\ v.escalation \in Escalations
        /\ v.escalation.owner = t.waits
        /\ t.state \notin ToAct => v.finding.severity = "blocking"
    BY <1>11 DEF AsksOwnerOf
  <2>2. f # None /\ v.escalation # None BY <1>2, <2>1 DEF f
  <2>3. e.escalation = v.escalation /\ e.next = p.next BY <1>4, <2>2
  <2>4. CASE blocked
    <3>1. e.outcome = "blocked" BY <1>4, <2>4
    <3> QED BY <1>5, <2>1, <2>2, <2>3, <3>1 DEF e, IsRouted
  <2>5. CASE ~blocked
    <3>1. SourceIsSound(p) /\ f.severity # "blocking" BY <1>6, <1>7, <2>2, <2>5
    <3>2. t.state \in ToAct BY <2>1, <3>1 DEF f
    <3>3. e.outcome = "requires-action" BY <1>4, <2>1, <2>5, <3>2
    <3> QED BY <1>5, <1>11, <2>3, <3>1, <3>2, <3>3 DEF e, IsRouted
  <2> QED BY <2>4, <2>5
<1> QED BY <1>9, <1>10, <1>11

\* A transition as OOS moves it, and the entries of its history.
TransitionIsKnown ==
    /\ TypedTransition(transition)
    /\ transition.history \in Seq(Nat) /\ transition.history # <<>>
    /\ \A i \in DOMAIN transition.history : transition.history[i] = i

TransitionInv == TransitionIsKnown /\ ProjectionIsKnown /\ WorkIsRouted

\* A projection without a flaw is as asked while it lasts.
LEMMA ProperIsSound ==
    ASSUME TransitionIsKnown, NEW until, projection = Published(transition, until)
    PROVE  TellsStateOf(projection, transition) /\ (clock < projection.validUntil => SourceIsSound(projection))
<1> DEFINE h == transition.history
<1>1. TellsStateOf(projection, transition) BY DEF TellsStateOf, Published
<1>2. /\ projection.route = Right.route /\ projection.source = Right.source /\ projection.target = Right.target
      /\ projection.freshness = "current" /\ projection.references = {"receipt"}
      /\ projection.history = h /\ projection.revision = Len(h)
  BY DEF Published
<1>3. RouteDomains[Right.route] = <<Right.source, Right.target>> BY TransitionAssumption DEF Right
<1>4. Ordered(h, Len(h))
  <2>1. h \in Seq(Nat) /\ h # <<>> /\ \A i \in DOMAIN h : h[i] = i BY DEF TransitionIsKnown
  <2>2. Len(h) \in DOMAIN h BY <2>1
  <2> HIDE DEF h
  <2> QED BY <2>1, <2>2 DEF Ordered
<1>5. \A r \in projection.references : SafeReference(r) BY <1>2 DEF SafeReference
<1> QED BY <1>1, <1>2, <1>3, <1>4, <1>5 DEF SourceIsSound

\* One with a flaw is not as asked, or makes its state inconsistent.
LEMMA FlawIsFound ==
    ASSUME TransitionIsKnown, NEW until, NEW flaw \in {"unbound", "stale", "disordered", "unsafe", "incomplete"},
           projection \in Spoiled(Published(transition, until), flaw)
    PROVE  /\ projection.state = transition.state
           /\ \/ StateEvaluation(projection) = Inconsistent
              \/ TellsStateOf(projection, transition) /\ ~SourceIsSound(projection)
<1>1. PICK p : p = Published(transition, until) OBVIOUS
<1>2. PICK q : q = projection OBVIOUS
<1>3. q \in Spoiled(p, flaw) BY <1>1, <1>2
<1>4. TellsStateOf(p, transition) BY <1>1 DEF TellsStateOf, Published
<1>5. PICK s, ro, so, ta, fr, va, hi, re, rf, ne, ga, bl, co, rc :
         p = [state |-> s, route |-> ro, source |-> so, target |-> ta, freshness |-> fr, validUntil |-> va,
              history |-> hi, revision |-> re, references |-> rf, next |-> ne, gate |-> ga, blockedGate |-> bl,
              correction |-> co, recorded |-> rc]
  <2>1. p = [state |-> p.state, route |-> p.route, source |-> p.source, target |-> p.target,
             freshness |-> p.freshness, validUntil |-> p.validUntil, history |-> p.history,
             revision |-> p.revision, references |-> p.references, next |-> p.next, gate |-> p.gate,
             blockedGate |-> p.blockedGate, correction |-> p.correction, recorded |-> p.recorded]
    BY <1>1 DEF Published
  <2> QED BY <2>1
<1>6. CASE flaw = "unbound"
  <2>1. PICK b \in Routes : RouteDomains[b.route] # <<b.source, b.target>>
                           /\ q = [p EXCEPT !.route = b.route, !.source = b.source, !.target = b.target]
    BY <1>3, <1>6 DEF Spoiled
  <2>2. PICK x, y, z : x = b.route /\ y = b.source /\ z = b.target OBVIOUS
  <2>3. q = [state |-> s, route |-> x, source |-> y, target |-> z, freshness |-> fr, validUntil |-> va,
              history |-> hi, revision |-> re, references |-> rf, next |-> ne, gate |-> ga, blockedGate |-> bl,
              correction |-> co, recorded |-> rc]
    BY <1>5, <2>1, <2>2
  <2>4. TellsStateOf(q, transition) BY <1>4, <1>5, <2>3 DEF TellsStateOf
  <2>5. ~SourceIsSound(q) BY <2>1, <2>2, <2>3 DEF SourceIsSound
  <2> QED BY <1>2, <2>4, <2>5 DEF TellsStateOf
<1>7. CASE flaw = "stale"
  <2>1. q = [p EXCEPT !.freshness = "stale"] BY <1>3, <1>7 DEF Spoiled
  <2>2. TellsStateOf(q, transition) BY <1>4, <1>5, <2>1 DEF TellsStateOf
  <2>3. ~SourceIsSound(q) BY <1>5, <2>1 DEF SourceIsSound
  <2> QED BY <1>2, <2>2, <2>3 DEF TellsStateOf
<1>8. CASE flaw = "disordered"
  <2>1. hi = transition.history /\ re = Len(hi) BY <1>1, <1>5 DEF Published
  <2>2. hi \in Seq(Nat) /\ hi # <<>> /\ \A i \in DOMAIN hi : hi[i] = i BY <2>1 DEF TransitionIsKnown
  <2>3. q = [p EXCEPT !.history = hi \o <<1>>] \/ q = [p EXCEPT !.revision = re - 1]
    BY <1>3, <1>5, <1>8 DEF Spoiled
  <2>4. CASE q = [p EXCEPT !.history = hi \o <<1>>]
    <3>1. TellsStateOf(q, transition) BY <1>4, <1>5, <2>4 DEF TellsStateOf
    <3>2. q.history = hi \o <<1>> BY <1>5, <2>4
    <3>3. PICK g : g = hi \o <<1>> OBVIOUS
    <3>4. /\ 1 \in DOMAIN g /\ Len(hi) + 1 \in DOMAIN g /\ 1 < Len(hi) + 1
          /\ g[1] = 1 /\ g[Len(hi) + 1] = 1
      BY <2>2, <3>3
    <3>5. ~Ordered(g, q.revision) BY <3>4 DEF Ordered
    <3>6. ~SourceIsSound(q) BY <3>2, <3>3, <3>5 DEF SourceIsSound
    <3> QED BY <1>2, <3>1, <3>6 DEF TellsStateOf
  <2>5. CASE q = [p EXCEPT !.revision = re - 1]
    <3>1. TellsStateOf(q, transition) BY <1>4, <1>5, <2>5 DEF TellsStateOf
    <3>2. q.history = hi /\ q.revision = Len(hi) - 1 BY <1>5, <2>1, <2>5
    <3>3. Len(hi) \in DOMAIN hi /\ hi[Len(hi)] = Len(hi) BY <2>2
    <3>4. ~(hi[Len(hi)] <= Len(hi) - 1) BY <2>2, <3>3
    <3>5. ~SourceIsSound(q) BY <3>2, <3>4 DEF SourceIsSound, Ordered
    <3> QED BY <1>2, <3>1, <3>5 DEF TellsStateOf
  <2> QED BY <2>3, <2>4, <2>5
<1>9. CASE flaw = "unsafe"
  <2>1. q = [p EXCEPT !.references = rf \cup {"credential"}] BY <1>3, <1>5, <1>9 DEF Spoiled
  <2>2. TellsStateOf(q, transition) BY <1>4, <1>5, <2>1 DEF TellsStateOf
  <2>3. ~SourceIsSound(q) BY <1>5, <2>1 DEF SourceIsSound, SafeReference
  <2> QED BY <1>2, <2>2, <2>3 DEF TellsStateOf
<1>10. CASE flaw = "incomplete"
  <2>1. p.state = s /\ s = transition.state /\ s \in States BY <1>4, <1>5 DEF TellsStateOf, TransitionIsKnown, TypedTransition
  <2>2. rc = Required(s) BY <1>4, <1>5, <2>1 DEF TellsStateOf
  <2>3. \/ \E r \in Required(s) : q = [p EXCEPT !.recorded = rc \ {r}]
        \/ s \in Active \cup {"deferred", "rejected", "failed"} /\ q = [p EXCEPT !.next = None]
        \/ s \in Ended /\ q = [p EXCEPT !.next = [owner |-> OOS]]
        \/ s = "blocked" /\ q = [p EXCEPT !.blockedGate = None]
        \/ s = "returned" /\ q = [p EXCEPT !.correction = None]
    BY <1>3, <1>5, <1>10, <2>1 DEF Spoiled
  <2>4. CASE \E r \in Required(s) : q = [p EXCEPT !.recorded = rc \ {r}]
    <3>1. PICK r \in Required(s) : q = [p EXCEPT !.recorded = rc \ {r}] BY <2>4
    <3>2. q.state = s /\ r \notin q.recorded BY <1>5, <3>1
    <3>3. ~(Required(q.state) \subseteq q.recorded) BY <3>1, <3>2
    <3>4. s \in {"deferred", "rejected", "failed"} \cup Ended
      <4>1. s \notin Active /\ s # "blocked" /\ s # "returned" BY <3>1 DEF Required, Active
      <4> QED BY <2>1, <4>1 DEF States, ToAct
    <3>5. StateEvaluation(q) = Inconsistent
      <4>1. s \notin Active /\ s # "blocked" /\ s # "returned" BY <3>4 DEF Active, Ended
      <4> QED BY <3>2, <3>3, <4>1 DEF StateEvaluation
    <3> QED BY <1>2, <2>1, <3>2, <3>5
  <2>5. CASE s \in Active \cup {"deferred", "rejected", "failed"} /\ q = [p EXCEPT !.next = None]
    <3>1. q.state = s /\ q.next = None BY <1>5, <2>5
    <3>2. s # "blocked" /\ s # "returned" BY <2>5 DEF Active
    <3>3. s \in Active => s \notin {"deferred", "rejected", "failed"} BY DEF Active
    <3>4. CASE s \in Active
      <4>1. StateEvaluation(q) = Inconsistent BY <3>1, <3>2, <3>3, <3>4 DEF StateEvaluation
      <4> QED BY <1>2, <2>1, <3>1, <4>1
    <3>5. CASE s \notin Active
      <4>1. s \in {"deferred", "rejected", "failed"} BY <2>5, <3>5
      <4>2. StateEvaluation(q) = Inconsistent BY <3>1, <3>2, <3>5, <4>1 DEF StateEvaluation
      <4> QED BY <1>2, <2>1, <3>1, <4>2
    <3> QED BY <3>4, <3>5
  <2>6. CASE s \in Ended /\ q = [p EXCEPT !.next = [owner |-> OOS]]
    <3>1. q.state = s /\ q.next = [owner |-> OOS] BY <1>5, <2>6
    <3>2. q.next # None
      <4>1. [owner |-> OOS] \in [owner : People \cup {OOS}] OBVIOUS
      <4> QED BY <3>1, <4>1, TransitionAssumption
    <3>3. s \notin Active /\ s # "blocked" /\ s # "returned" /\ s \notin {"deferred", "rejected", "failed"}
      BY <2>6 DEF Active, Ended
    <3>4. StateEvaluation(q) = Inconsistent BY <3>1, <3>2, <3>3 DEF StateEvaluation
    <3> QED BY <1>2, <2>1, <3>1, <3>4
  <2>7. CASE s = "blocked" /\ q = [p EXCEPT !.blockedGate = None]
    <3>1. q.state = s /\ q.blockedGate = None BY <1>5, <2>7
    <3>2. StateEvaluation(q) = Inconsistent BY <2>7, <3>1 DEF StateEvaluation, Active
    <3> QED BY <1>2, <2>1, <3>1, <3>2
  <2>8. CASE s = "returned" /\ q = [p EXCEPT !.correction = None]
    <3>1. q.state = s /\ q.correction = None BY <1>5, <2>8
    <3>2. /\ q.state \notin Active /\ q.state # "blocked" /\ q.state = "returned"
          /\ q.state \notin {"deferred", "rejected", "failed"}
      BY <2>8, <3>1 DEF Active
    <3>3. StateEvaluation(q) = Inconsistent BY <3>1, <3>2 DEF StateEvaluation
    <3> QED BY <1>2, <2>1, <3>1, <3>3
  <2> QED BY <2>3, <2>4, <2>5, <2>6, <2>7, <2>8
<1> QED BY <1>6, <1>7, <1>8, <1>9, <1>10

\* What is published of a transition is known.
LEMMA PublishingIsKnown ==
    ASSUME NEW t, Publish(t)
    PROVE  transition' = t /\ ProjectionIsKnown'
<1>1. transition' = t BY DEF Publish
<1>2. \A u : u = clock + 1 => Projected(t, Right) = Published(t, u) BY DEF Projected, Published
<1>3. PICK u : u = clock + 1 OBVIOUS
<1>4. \/ flaws' = {} /\ projection' = Published(t, u)
      \/ \E flaw \in {"unbound", "stale", "disordered", "unsafe", "incomplete"} :
           projection' \in Spoiled(Published(t, u), flaw) /\ flaws' = {flaw}
  BY <1>2, <1>3 DEF Publish
<1> QED BY <1>1, <1>4 DEF ProjectionIsKnown

\* An answer about a known projection sends the work to who can do it.
LEMMA EvaluatingIsRouted ==
    ASSUME TransitionInv, Evaluate
    PROVE  WorkIsRouted'
<1> DEFINE t == transition
           p == projection
           v == StateEvaluation(projection)
           e == Evaluation(projection)
           all == flaws \cup Expired
<1>1. answer' = [told |-> e, of |-> p, flaws |-> all, waits |-> t.waits, state |-> t.state] BY DEF Evaluate
<1>2. TransitionIsKnown /\ ProjectionIsKnown /\ TypedTransition(t) /\ None \notin People
  BY TransitionAssumption DEF TransitionInv, TransitionIsKnown
<1>3. /\ p.state = t.state
      /\ \/ v = Inconsistent /\ all # {}
         \/ TellsStateOf(p, t) /\ (all = {} <=> SourceIsSound(p))
  <2>1. PICK until : \/ flaws = {} /\ projection = Published(transition, until)
                     \/ \E flaw \in {"unbound", "stale", "disordered", "unsafe", "incomplete"} :
                          projection \in Spoiled(Published(transition, until), flaw) /\ flaws = {flaw}
    BY <1>2 DEF ProjectionIsKnown
  <2>2. CASE flaws = {} /\ projection = Published(transition, until)
    <3>1. TellsStateOf(p, t) /\ (clock < p.validUntil => SourceIsSound(p)) BY <1>2, <2>2, ProperIsSound
    <3>2. SourceIsSound(p) => clock < p.validUntil BY DEF SourceIsSound
    <3>3. all = {} <=> clock < p.validUntil BY <2>2 DEF Expired
    <3> QED BY <3>1, <3>2, <3>3 DEF TellsStateOf
  <2>3. CASE \E flaw \in {"unbound", "stale", "disordered", "unsafe", "incomplete"} :
               projection \in Spoiled(Published(transition, until), flaw) /\ flaws = {flaw}
    <3>1. PICK flaw \in {"unbound", "stale", "disordered", "unsafe", "incomplete"} :
            projection \in Spoiled(Published(transition, until), flaw) /\ flaws = {flaw}
      BY <2>3
    <3>2. p.state = t.state /\ (v = Inconsistent \/ (TellsStateOf(p, t) /\ ~SourceIsSound(p)))
      BY <1>2, <3>1, FlawIsFound
    <3>3. all # {} BY <3>1
    <3> QED BY <3>2, <3>3
  <2> QED BY <2>1, <2>2, <2>3
<1>4. v = Inconsistent \/ (AsksOwnerOf(v, t) /\ (p.next = None <=> t.state \in Ended))
  BY <1>2, <1>3, StateIsAsked
<1>5. IsRouted(e, p, v, t) BY <1>2, <1>3, <1>4, EvaluationIsRouted
<1>6. v # Inconsistent => (all = {} <=> SourceIsSound(p)) BY <1>3
<1>7. v = Inconsistent => all # {}
  <2>1. CASE v = Inconsistent /\ TellsStateOf(p, t)
    <3>1. AsksOwnerOf(v, t) BY <1>2, <2>1, StateIsAsked
    <3>2. PICK g : g = Finding("state-inconsistent", "blocking", OOS) OBVIOUS
    <3>3. g \in Asked BY <3>2 DEF Finding, Asked, StateCodes
    <3>4. v.finding = g /\ v.escalation = None BY <2>1, <3>2 DEF Inconsistent, Verdict
    <3>5. None \notin Asked /\ None \notin Escalations BY TransitionAssumption DEF Asked, Escalations
    <3>6. Consistent.finding = None BY DEF Consistent, Verdict
    <3> QED BY <3>1, <3>3, <3>4, <3>5, <3>6 DEF AsksOwnerOf
  <2> QED BY <1>3, <2>1
<1>8. e.outcome \in {"ready", "terminal"} => e.escalation = None
  <2> SUFFICES ASSUME e.outcome \in {"ready", "terminal"} PROVE e.escalation = None OBVIOUS
  <2>1. v # Inconsistent /\ e.escalation = v.escalation BY <1>5 DEF IsRouted
  <2>2. t.waits = None BY <1>2, <1>5 DEF IsRouted, TypedTransition
  <2>3. v = Consistent BY <1>4, <2>1, <2>2 DEF AsksOwnerOf
  <2> QED BY <2>1, <2>3 DEF Consistent, Verdict
<1>9. e.outcome = "requires-action" => e.escalation.owner = t.waits
  <2> SUFFICES ASSUME e.outcome = "requires-action" PROVE e.escalation.owner = t.waits OBVIOUS
  <2>1. v # Inconsistent /\ e.escalation = v.escalation /\ t.state \in ToAct BY <1>5 DEF IsRouted
  <2>2. t.state \notin Active \cup Ended BY <2>1 DEF Active, Ended, ToAct
  <2> QED BY <1>4, <2>1, <2>2 DEF AsksOwnerOf
<1>10. e.outcome = "ready" => t.state \notin Ended BY <1>5 DEF IsRouted, Active, Ended
<1>11. /\ answer'.told = e /\ answer'.flaws = all /\ answer'.waits = t.waits /\ answer'.state = t.state BY <1>1
<1> HIDE DEF t, p, v, e, all
<1>12. /\ e.outcome = "ready" => all = {} /\ t.waits = None /\ e.next # None
       /\ e.outcome = "terminal" => all = {} /\ t.state \in Ended /\ e.next = None
       /\ e.outcome = "requires-action" => all = {} /\ t.state \in ToAct
  BY <1>4, <1>5, <1>6, <1>10 DEF IsRouted
<1>13. e.outcome \in {"blocked", "requires-action"} =>
          e.escalation.owner \in {t.waits} \cup (IF all = {} THEN {} ELSE {OOS})
  BY <1>5, <1>6, <1>7, <1>9 DEF IsRouted
<1>14. "credential" \notin e.references BY <1>5 DEF IsRouted
<1> QED BY <1>8, <1>11, <1>12, <1>13, <1>14 DEF WorkIsRouted

\* Every step keeps what is known of the transition and its projection.
LEMMA TransitionStep ==
    ASSUME TransitionInv, TransitionNext
    PROVE  TransitionInv'
<1>1. TransitionIsKnown /\ ProjectionIsKnown /\ WorkIsRouted BY DEF TransitionInv
<1>2. CASE Evaluate
  <2>1. WorkIsRouted' BY <1>2, EvaluatingIsRouted
  <2>2. transition' = transition /\ projection' = projection /\ flaws' = flaws BY <1>2 DEF Evaluate
  <2> QED BY <1>1, <2>1, <2>2 DEF TransitionInv, TransitionIsKnown, ProjectionIsKnown
<1>3. ASSUME NEW state \in States, NEW owner \in People \cup {None}, Advance(state, owner)
      PROVE  TransitionInv'
  <2> DEFINE h == transition.history
  <2>1. PICK g : g = Append(h, Len(h) + 1) OBVIOUS
  <2>2. PICK t : t = [state |-> state, waits |-> owner, history |-> g] OBVIOUS
  <2>3. Publish(t) /\ answer' = answer BY <1>3, <2>1, <2>2 DEF Advance
  <2>4. transition' = t /\ ProjectionIsKnown' BY <2>3, PublishingIsKnown
  <2>5. t.state = state /\ t.waits = owner /\ t.history = g BY <2>2
  <2>6. TypedTransition(t) BY <1>3, <2>5, TransitionAssumption DEF Advance, TypedTransition
  <2>7. h \in Seq(Nat) /\ \A i \in DOMAIN h : h[i] = i BY <1>1 DEF TransitionIsKnown
  <2> HIDE DEF h
  <2>8. g \in Seq(Nat) /\ g # <<>> /\ \A i \in DOMAIN g : g[i] = i BY <2>1, <2>7
  <2>9. TransitionIsKnown' BY <2>4, <2>5, <2>6, <2>8 DEF TransitionIsKnown
  <2>10. WorkIsRouted' BY <1>1, <2>3 DEF WorkIsRouted
  <2> QED BY <2>4, <2>9, <2>10 DEF TransitionInv
<1>4. CASE Republish
  <2>1. PICK t : t = transition OBVIOUS
  <2>2. Publish(t) /\ answer' = answer BY <1>4, <2>1 DEF Republish
  <2>3. transition' = transition /\ ProjectionIsKnown' BY <2>1, <2>2, PublishingIsKnown
  <2> QED BY <1>1, <2>2, <2>3 DEF TransitionInv, TransitionIsKnown, WorkIsRouted
<1>5. CASE Tick
  <2>1. transition' = transition /\ projection' = projection /\ flaws' = flaws /\ answer' = answer
    BY <1>5 DEF Tick
  <2> QED BY <1>1, <2>1 DEF TransitionInv, TransitionIsKnown, ProjectionIsKnown, WorkIsRouted
<1> QED BY <1>2, <1>3, <1>4, <1>5 DEF TransitionNext, States

\* Whatever owners there are, however long a transition goes on and whatever is wrong with what is
\* published of it, an answer sends the work to the owner that is waited for or, for a projection
\* that is flawed or expired, to the orchestration service; and only a proper projection of a
\* transition that waits for nobody is ready.
THEOREM RoutingCorrect == TransitionSpec => []WorkIsRouted
<1>1. TransitionInit => TransitionInv
  <2> SUFFICES ASSUME TransitionInit PROVE TransitionInv OBVIOUS
  <2>1. PICK t : t = [state |-> "prepared", waits |-> None, history |-> <<1>>] OBVIOUS
  <2>2. transition = t /\ t.state = "prepared" /\ t.waits = None /\ t.history = <<1>> BY <2>1 DEF TransitionInit
  <2>3. TypedTransition(t) BY <2>2 DEF TypedTransition, States, Active, Ended, ToAct, Waiting
  <2>4. t.history \in Seq(Nat) /\ t.history # <<>> /\ \A i \in DOMAIN t.history : t.history[i] = i BY <2>2
  <2>5. TransitionIsKnown BY <2>2, <2>3, <2>4 DEF TransitionIsKnown
  <2>6. PICK u : u = clock + 1 OBVIOUS
  <2>7. projection = Published(transition, u) BY <2>6 DEF TransitionInit, Projected, Published
  <2>8. ProjectionIsKnown BY <2>7 DEF TransitionInit, ProjectionIsKnown
  <2>9. WorkIsRouted BY DEF TransitionInit, WorkIsRouted
  <2> QED BY <2>5, <2>8, <2>9 DEF TransitionInv
<1>2. TransitionInv /\ [TransitionNext]_transitionVars => TransitionInv'
  <2> SUFFICES ASSUME TransitionInv, [TransitionNext]_transitionVars PROVE TransitionInv' OBVIOUS
  <2>1. CASE TransitionNext BY <2>1, TransitionStep
  <2>2. CASE UNCHANGED transitionVars
    BY <2>2 DEF transitionVars, TransitionInv, TransitionIsKnown, ProjectionIsKnown, WorkIsRouted
  <2> QED BY <2>1, <2>2
<1>3. TransitionInv => WorkIsRouted BY DEF TransitionInv
<1> QED BY <1>1, <1>2, <1>3, PTL DEF TransitionSpec
-----------------------------------------------------------------------------
(* WorkspaceInventory.  One merge changes one target, and a change of what *)
(* is in the inventory comes with its event.  Evidence is of the version   *)
(* its owner committed it at, so while the version is the product's the    *)
(* event it binds is the product's last; and a verdict is of the revision  *)
(* it was given at, so what it found holds until the next merge.           *)

IsPair(t) == t = <<t[1], t[2]>>

IsRecord(e) == DOMAIN e = RecordFields
IsVerdict(v) == DOMAIN v = {"verb", "listing", "owner", "revision", "outcome", "expired"}

RecordsAreTyped ==
    /\ revision \in Nat /\ campaign \in Campaigns
    /\ kept # None => kept.asked \in campaign.requests
    /\ \A t \in DOMAIN register : IsPair(t) /\ register[t].version \in Nat
    /\ inventory = [t \in DOMAIN inventory |-> inventory[t]]
    /\ \A t \in DOMAIN inventory : IsPair(t) /\ IsRecord(inventory[t]) /\ inventory[t].version \in Nat
    /\ history \in Seq({history[i] : i \in DOMAIN history})

\* The last event of a target is one of them.
LastIsKnown == \A i \in DOMAIN history : LET own == Places(history[i].target) IN \E j \in own : IsLast(j, own)

EvidenceIsKnown ==
    /\ evidence = [t \in Products |-> evidence[t]]
    /\ \A t \in Products : evidence[t] # None =>
         /\ t \in DOMAIN inventory
         /\ evidence[t].version \in Nat /\ evidence[t].version <= inventory[t].version
         /\ evidence[t].binding # None /\ evidence[t].version = inventory[t].version =>
              \E i \in Places(t) : IsLast(i, Places(t)) /\ evidence[t].binding.event = history[i]

\* What a verdict that says ready found of its product.
FitsInventory(v, t) ==
    /\ t \in DOMAIN inventory
    /\ inventory[t].posture \in LifecycleStates(v.listing)
    /\ v.verb = "restore" => \E i \in Places(t) : IsLast(i, Places(t)) /\ history[i].action = "restore"
    /\ v.owner \in Configured \/ OwnerIsRegistered(v.owner)

VerdictsAreKnown ==
    /\ verdicts = [t \in Products |-> verdicts[t]]
    /\ \A t \in Products : verdicts[t] # None =>
         /\ IsVerdict(verdicts[t]) /\ verdicts[t].revision \in Nat /\ verdicts[t].revision <= revision
         /\ verdicts[t].revision = revision /\ verdicts[t].outcome = "ready" => FitsInventory(verdicts[t], t)

\* The provider of a target, whichever of the two it is in.
Provider(reg, inv, t) == IF t \in DOMAIN reg THEN reg[t].value.provider ELSE inv[t].value.provider

ProvidersAreDistinct(reg, inv) ==
    \A t, u \in DOMAIN reg \cup DOMAIN inv :
       t[1] = "repo" /\ u[1] = "repo" /\ Provider(reg, inv, t) # None
         /\ Provider(reg, inv, t) = Provider(reg, inv, u) => t = u

InventoryInv ==
    /\ RecordsAreTyped
    /\ IsProjectable /\ LastIsKnown
    /\ ProvidersAreDistinct(register, inventory)
    /\ EvidenceIsKnown /\ VerdictsAreKnown

\* The providers of all targets are those of the repositories among them.
LEMMA DistinctProviders == RepositoriesAreDistinct <=> ProvidersAreDistinct(register, inventory)
<1> DEFINE repos == {u \in DOMAIN register \cup DOMAIN inventory : u[1] = "repo"}
           held == [t \in repos |-> Provider(register, inventory, t)]
<1>1. RepositoriesAreDistinct <=> \A t, u \in repos : held[t] # None /\ held[t] = held[u] => t = u
  BY Zenon DEF RepositoriesAreDistinct, Provider
<1>2. \A t \in repos : held[t] = Provider(register, inventory, t) OBVIOUS
<1> QED BY <1>1, <1>2 DEF ProvidersAreDistinct

\* A change of one target keeps providers distinct, if that target keeps its provider or gets one
\* that no other repository has.
LEMMA OneProviderChanges ==
    ASSUME NEW reg, NEW inv, NEW reg2, NEW inv2, NEW t, IsPair(t),
           ProvidersAreDistinct(reg, inv),
           \A u \in DOMAIN reg \cup DOMAIN inv : IsPair(u),
           DOMAIN reg2 \cup DOMAIN inv2 = DOMAIN reg \cup DOMAIN inv \cup {t},
           \A u \in DOMAIN reg \cup DOMAIN inv : u # t => Provider(reg2, inv2, u) = Provider(reg, inv, u),
           \/ t[1] # "repo"
           \/ Provider(reg2, inv2, t) = None
           \/ t \in DOMAIN reg \cup DOMAIN inv /\ Provider(reg2, inv2, t) = Provider(reg, inv, t)
           \/ \A u \in DOMAIN reg \cup DOMAIN inv :
                u[1] = "repo" /\ u[2] # t[2] => Provider(reg, inv, u) # Provider(reg2, inv2, t)
    PROVE  ProvidersAreDistinct(reg2, inv2)
<1> DEFINE all == DOMAIN reg \cup DOMAIN inv
           P(u) == Provider(reg, inv, u)
           Q(u) == Provider(reg2, inv2, u)
<1>1. \A u \in all : u # t /\ u[1] = t[1] => u[2] # t[2] BY DEF IsPair
<1>2. \A u, w \in all : u[1] = "repo" /\ w[1] = "repo" /\ P(u) # None /\ P(u) = P(w) => u = w
  BY DEF ProvidersAreDistinct
<1>3. \A u \in all : u # t => Q(u) = P(u) OBVIOUS
<1>4. \/ t[1] # "repo" \/ Q(t) = None \/ (t \in all /\ Q(t) = P(t))
      \/ \A u \in all : u[1] = "repo" /\ u[2] # t[2] => P(u) # Q(t)
  OBVIOUS
<1>5. DOMAIN reg2 \cup DOMAIN inv2 = all \cup {t} OBVIOUS
<1> HIDE DEF all, P, Q
<1>6. \A u, w \in all \cup {t} : u[1] = "repo" /\ w[1] = "repo" /\ Q(u) # None /\ Q(u) = Q(w) => u = w
  <2> SUFFICES ASSUME NEW u \in all \cup {t}, NEW w \in all \cup {t},
                      u[1] = "repo", w[1] = "repo", Q(u) # None, Q(u) = Q(w), u # w
               PROVE  FALSE
    OBVIOUS
  <2>1. CASE u # t /\ w # t BY <1>2, <1>3, <2>1
  <2>2. CASE u = t
    <3>1. w \in all /\ w # t /\ Q(w) = P(w) /\ w[2] # t[2] BY <1>1, <1>3, <2>2
    <3> QED BY <1>2, <1>4, <2>2, <3>1
  <2>3. CASE w = t
    <3>1. u \in all /\ u # t /\ Q(u) = P(u) /\ u[2] # t[2] BY <1>1, <1>3, <2>3
    <3> QED BY <1>2, <1>4, <2>3, <3>1
  <2> QED BY <2>1, <2>2, <2>3
<1> QED BY <1>5, <1>6 DEF ProvidersAreDistinct, Q

\* Without a conflict the provider is no other repository's.
LEMMA NoConflict ==
    ASSUME NEW provider, NEW name, ~provider_repository_conflicts(provider, name)
    PROVE  \A u \in DOMAIN register \cup DOMAIN inventory :
              u[1] = "repo" /\ u[2] # name => Provider(register, inventory, u) # provider
BY DEF provider_repository_conflicts, HeldElsewhere, Provider

\* What is judged was asked.
LEMMA RequestedIsAsked ==
    ASSUME RecordsAreTyped, NEW p \in Requested
    PROVE  p.asked \in campaign.requests /\ IsPair(p.asked.target)
<1>1. campaign \in Campaigns BY DEF RecordsAreTyped
<1>2. p.asked \in campaign.requests BY DEF Requested, Prepared, RecordsAreTyped
<1> QED BY <1>1, <1>2, InventoryAssumption DEF IsPair

\* An entrant that is added or updated is not in the inventory, and has a repository of its own.
LEMMA EnteringIsSound ==
    ASSUME InventoryInv, NEW p \in Requested, Enter(p)
    PROVE  InventoryInv'
<1> DEFINE r == p.asked
           t == p.asked.target
<1>1. RecordsAreTyped /\ IsProjectable /\ LastIsKnown /\ EvidenceIsKnown /\ VerdictsAreKnown
      /\ ProvidersAreDistinct(register, inventory)
  BY DEF InventoryInv
<1>2. r \in campaign.requests /\ IsPair(t) BY <1>1, RequestedIsAsked
<1>3. PICK x : /\ register' = With(register, t, x)
               /\ x.value = r.value
               /\ x.version = IF r.verb = "add" THEN 1 ELSE register[t].version + 1
  BY DEF Enter
<1>4. /\ IntakeIsAllowed(p) /\ ~Replays(p)
      /\ inventory' = inventory /\ history' = history /\ campaign' = campaign /\ evidence' = evidence
      /\ verdicts' = verdicts /\ kept' = kept /\ revision' = revision + 1
  BY DEF Enter, Merge
<1> HIDE DEF r, t
<1>5. DOMAIN register' = {t} \cup DOMAIN register /\ register'[t] = x
      /\ \A u \in DOMAIN register : u # t => register'[u] = register[u]
  BY <1>3 DEF With
<1>6. t \notin DOMAIN inventory /\ RegisterIsAsExpected(p) /\ (t[1] = "repo" => RepositoryFits(r))
  BY <1>4 DEF IntakeIsAllowed, Occupied, r, t
<1>7. revision \in Nat /\ revision' \in Nat /\ revision < revision' BY <1>1, <1>4 DEF RecordsAreTyped
<1>8. x.version \in Nat
  <2>1. r.verb # "add" => t \in DOMAIN register /\ register[t].version \in Nat
    <3>1. r.verb \in {"add", "update"}
      <4>1. r.policy = "intake" BY DEF Enter, r
      <4>2. campaign \in Campaigns BY <1>1 DEF RecordsAreTyped
      <4> QED BY <1>2, <4>1, <4>2, InventoryAssumption
    <3> QED BY <1>1, <1>6, <3>1 DEF RegisterIsAsExpected, RecordsAreTyped, r, t
  <2> QED BY <1>3, <2>1
<1>9. RecordsAreTyped'
  BY <1>1, <1>2, <1>4, <1>5, <1>7, <1>8 DEF RecordsAreTyped
<1>10. IsProjectable' /\ LastIsKnown'
  <2>1. HistoryIsSound' /\ LastIsKnown' BY <1>1, <1>4 DEF IsProjectable, HistoryIsSound, Places, LastIsKnown
  <2>2. \A u \in DOMAIN inventory' : LineageIsSound(u)' BY <1>1, <1>4 DEF IsProjectable, LineageIsSound
  <2>3. DOMAIN register' \cap DOMAIN inventory' = {} BY <1>1, <1>4, <1>5, <1>6 DEF IsProjectable
  <2>4. (\A i \in DOMAIN history :
            LET u == history[i].target IN u \in DOMAIN inventory /\ (IsLast(i, Places(u)) => history[i].after = Standing(u)))'
    BY <1>1, <1>4 DEF IsProjectable, Places, Standing
  <2> QED BY <2>1, <2>2, <2>3, <2>4 DEF IsProjectable
<1>11. EvidenceIsKnown' BY <1>1, <1>4 DEF EvidenceIsKnown, Places
<1>12. VerdictsAreKnown' BY <1>1, <1>4, <1>7 DEF VerdictsAreKnown
<1>13. ProvidersAreDistinct(register', inventory')
  <2>1. \A u \in DOMAIN register \cup DOMAIN inventory : IsPair(u) BY <1>1 DEF RecordsAreTyped
  <2>2. DOMAIN register' \cup DOMAIN inventory' = DOMAIN register \cup DOMAIN inventory \cup {t} BY <1>4, <1>5
  <2>3. \A u \in DOMAIN register \cup DOMAIN inventory :
           u # t => Provider(register', inventory', u) = Provider(register, inventory, u)
    BY <1>4, <1>5 DEF Provider
  <2>4. Provider(register', inventory', t) = r.value.provider BY <1>3, <1>5 DEF Provider
  <2>5. \/ t[1] # "repo" \/ r.value.provider = None
        \/ \A u \in DOMAIN register \cup DOMAIN inventory :
             u[1] = "repo" /\ u[2] # t[2] => Provider(register, inventory, u) # r.value.provider
    <3> SUFFICES ASSUME t[1] = "repo", r.value.provider # None
                 PROVE  \A u \in DOMAIN register \cup DOMAIN inventory :
                           u[1] = "repo" /\ u[2] # t[2] => Provider(register, inventory, u) # r.value.provider
      OBVIOUS
    <3>1. ~provider_repository_conflicts(r.value.provider, t[2]) BY <1>6 DEF RepositoryFits, r, t
    <3> QED BY <3>1, NoConflict
  <2>6. \/ t[1] # "repo" \/ Provider(register', inventory', t) = None
        \/ \A u \in DOMAIN register \cup DOMAIN inventory :
             u[1] = "repo" /\ u[2] # t[2] => Provider(register, inventory, u) # Provider(register', inventory', t)
    BY <2>4, <2>5
  <2> QED BY <1>1, <1>2, <2>1, <2>2, <2>3, <2>6, OneProviderChanges
<1> QED BY <1>9, <1>10, <1>11, <1>12, <1>13 DEF InventoryInv

\* What is promoted leaves the register for the inventory, with its provider and its lineage.
LEMMA PromotingIsSound ==
    ASSUME InventoryInv, NEW p \in Requested, Promote(p)
    PROVE  InventoryInv'
<1> DEFINE r == p.asked
           t == p.asked.target
<1>1. RecordsAreTyped /\ IsProjectable /\ LastIsKnown /\ EvidenceIsKnown /\ VerdictsAreKnown
      /\ ProvidersAreDistinct(register, inventory)
  BY DEF InventoryInv
<1>2. r \in campaign.requests /\ IsPair(t) BY <1>1, RequestedIsAsked
<1>3. PICK x : /\ inventory' = With(inventory, t, x)
               /\ x = [version |-> 1, value |-> r.value, posture |-> "active", lineage |-> "workspace-intake",
                       entered |-> register[t].version, mutation |-> [key |-> r.key, request |-> r.id]]
  BY DEF Promote
<1>4. /\ PromotionIsReady(p)
      /\ register' = Restrict(register, DOMAIN register \ {t})
      /\ history' = history /\ campaign' = campaign /\ evidence' = evidence
      /\ verdicts' = verdicts /\ kept' = kept /\ revision' = revision + 1
  BY DEF Promote, Merge
<1> HIDE DEF r, t
<1>5. DOMAIN inventory' = {t} \cup DOMAIN inventory /\ inventory'[t] = x
      /\ \A u \in DOMAIN inventory : u # t => inventory'[u] = inventory[u]
  BY <1>3 DEF With
<1>6. DOMAIN register' = DOMAIN register \ {t} /\ \A u \in DOMAIN register' : register'[u] = register[u]
  BY <1>4 DEF Restrict
<1>7. t \notin DOMAIN inventory /\ t \in DOMAIN register /\ (t[1] = "repo" => RegistrationFits(r, register[t]))
  BY <1>4 DEF PromotionIsReady, r, t
<1>8. inventory' = [u \in DOMAIN inventory' |-> inventory'[u]] BY <1>3 DEF With
<1>9. revision \in Nat /\ revision' \in Nat /\ revision < revision' BY <1>1, <1>4 DEF RecordsAreTyped
<1>10. /\ IsRecord(x) /\ x.version \in Nat /\ x.lineage = "workspace-intake" /\ x.entered # None
       /\ x.value = r.value
  <2>1. register[t].version \in Nat BY <1>1, <1>7 DEF RecordsAreTyped
  <2>2. None \notin Nat BY InventoryAssumption
  <2> QED BY <1>3, <2>1, <2>2 DEF IsRecord, RecordFields
<1>11. \A u \in DOMAIN inventory' : IsPair(u) /\ IsRecord(inventory'[u]) /\ inventory'[u].version \in Nat
  <2> SUFFICES ASSUME NEW u \in DOMAIN inventory'
               PROVE  IsPair(u) /\ IsRecord(inventory'[u]) /\ inventory'[u].version \in Nat
    OBVIOUS
  <2>1. CASE u = t BY <1>2, <1>5, <1>10, <2>1
  <2>2. CASE u # t BY <1>1, <1>5, <2>2 DEF RecordsAreTyped
  <2> QED BY <2>1, <2>2
<1>12. RecordsAreTyped'
  BY <1>1, <1>4, <1>6, <1>8, <1>9, <1>11 DEF RecordsAreTyped
<1>13. \A i \in DOMAIN history : history[i].target # t BY <1>1, <1>7 DEF IsProjectable
<1>14. IsProjectable' /\ LastIsKnown'
  <2>1. HistoryIsSound' /\ LastIsKnown' BY <1>1, <1>4 DEF IsProjectable, HistoryIsSound, Places, LastIsKnown
  <2>2. \A u \in DOMAIN inventory' : LineageIsSound(u)'
    <3> SUFFICES ASSUME NEW u \in DOMAIN inventory' PROVE LineageIsSound(u)' OBVIOUS
    <3>1. CASE u = t BY <1>5, <1>10, <3>1 DEF LineageIsSound
    <3>2. CASE u # t BY <1>1, <1>5, <3>2 DEF IsProjectable, LineageIsSound
    <3> QED BY <3>1, <3>2
  <2>3. DOMAIN register' \cap DOMAIN inventory' = {} BY <1>1, <1>5, <1>6 DEF IsProjectable
  <2>4. \A i \in DOMAIN history : history[i].target \in DOMAIN inventory' /\ inventory'[history[i].target] = inventory[history[i].target]
    BY <1>1, <1>5, <1>13 DEF IsProjectable
  <2>5. (\A i \in DOMAIN history :
            LET u == history[i].target IN u \in DOMAIN inventory /\ (IsLast(i, Places(u)) => history[i].after = Standing(u)))'
    BY <1>1, <1>4, <2>4 DEF IsProjectable, Places, Standing
  <2> QED BY <2>1, <2>2, <2>3, <2>5 DEF IsProjectable
<1>15. EvidenceIsKnown'
  <2>1. \A u \in DOMAIN inventory : u \in DOMAIN inventory' /\ inventory'[u] = inventory[u] BY <1>5, <1>7
  <2> QED BY <1>1, <1>4, <2>1 DEF EvidenceIsKnown, Places
<1>16. VerdictsAreKnown' BY <1>1, <1>4, <1>9 DEF VerdictsAreKnown
<1>17. ProvidersAreDistinct(register', inventory')
  <2>1. \A u \in DOMAIN register \cup DOMAIN inventory : IsPair(u) BY <1>1 DEF RecordsAreTyped
  <2>2. DOMAIN register' \cup DOMAIN inventory' = DOMAIN register \cup DOMAIN inventory \cup {t} BY <1>5, <1>6
  <2>3. \A u \in DOMAIN register \cup DOMAIN inventory :
           u # t => Provider(register', inventory', u) = Provider(register, inventory, u)
    BY <1>5, <1>6 DEF Provider
  <2>4. Provider(register', inventory', t) = r.value.provider BY <1>5, <1>6, <1>10 DEF Provider
  <2>5. t[1] = "repo" => Provider(register, inventory, t) = r.value.provider
    BY <1>7 DEF RegistrationFits, Provider
  <2> QED BY <1>1, <1>2, <1>7, <2>1, <2>2, <2>3, <2>4, <2>5, OneProviderChanges
<1> QED BY <1>12, <1>14, <1>15, <1>16, <1>17 DEF InventoryInv

\* The change r of target t adds the n-th event, and the record is where that event ends.
EventIsAdded(r, t, n) ==
    /\ t \in DOMAIN inventory /\ n \in Nat /\ DOMAIN history = 1..(n - 1) /\ DOMAIN history' = 1..n
    /\ \A i \in DOMAIN history : history'[i] = history[i]
    /\ history' \in Seq({history'[i] : i \in DOMAIN history'})
    /\ Places(t)' = Places(t) \cup {n}
    /\ \A u : u # t => Places(u)' = Places(u)
    /\ history'[n].target = t /\ history'[n].key = r.key /\ history'[n].request = r.id
    /\ history'[n].sequence = Cardinality(Places(t)) + 1
    /\ history'[n].before = Standing(t) /\ history'[n].after = Standing(t)'
    /\ history'[n].action = r.verb
    /\ DOMAIN inventory' = DOMAIN inventory
    /\ inventory' = [u \in DOMAIN inventory' |-> inventory'[u]]
    /\ \A u \in DOMAIN inventory : u # t => inventory'[u] = inventory[u]
    /\ IsRecord(inventory'[t]) /\ inventory'[t].version = inventory[t].version + 1
    /\ inventory'[t].lineage = inventory[t].lineage /\ inventory'[t].entered = inventory[t].entered
    /\ inventory'[t].value = IF r.verb = "update" THEN r.value ELSE inventory[t].value

\* A change adds its event to those of its target.
LEMMA ChangingAddsEvent ==
    ASSUME InventoryInv, NEW p \in Requested, Change(p)
    PROVE  EventIsAdded(p.asked, p.asked.target, Len(history) + 1)
<1> DEFINE r == p.asked
           t == p.asked.target
           n == Len(history) + 1
           record == [inventory[t] EXCEPT !.version = @ + 1, !.posture = NextPosture(r.verb, @),
                      !.value = IF r.verb = "update" THEN r.value ELSE @, !.mutation = [key |-> r.key, request |-> r.id]]
           seen == {history[i] : i \in DOMAIN history}
<1>1. PICK e : /\ e = [target |-> t, sequence |-> Cardinality(Places(t)) + 1, action |-> r.verb, key |-> r.key,
                       request |-> r.id, before |-> Standing(t),
                       after |-> [version |-> record.version, posture |-> record.posture]]
               /\ history' = Append(history, e)
  BY DEF Change
<1>2. t \in DOMAIN inventory /\ inventory' = [inventory EXCEPT ![t] = record]
  BY DEF Change, LifecycleIsReady
<1>3. /\ inventory = [u \in DOMAIN inventory |-> inventory[u]] /\ IsRecord(inventory[t])
      /\ inventory[t].version \in Nat /\ history \in Seq(seen)
  BY <1>2 DEF InventoryInv, RecordsAreTyped
<1>4. /\ DOMAIN inventory' = DOMAIN inventory /\ inventory'[t] = record
      /\ \A u \in DOMAIN inventory : u # t => inventory'[u] = inventory[u]
      /\ inventory' = [u \in DOMAIN inventory' |-> inventory'[u]]
  BY <1>2, <1>3
<1>5. DOMAIN inventory[t] = RecordFields BY <1>3 DEF IsRecord
<1>6. PICK b : b = inventory[t] OBVIOUS
<1>7. /\ DOMAIN record = RecordFields /\ record.version = b.version + 1
      /\ record.lineage = b.lineage /\ record.entered = b.entered
      /\ record.value = IF r.verb = "update" THEN r.value ELSE b.value
  BY <1>5, <1>6 DEF RecordFields
<1> HIDE DEF record
<1>8. /\ IsRecord(record) /\ record.version = inventory[t].version + 1
      /\ record.lineage = inventory[t].lineage /\ record.entered = inventory[t].entered
      /\ record.value = IF r.verb = "update" THEN r.value ELSE inventory[t].value
  BY <1>6, <1>7 DEF IsRecord
<1>9. /\ e.target = t /\ e.key = r.key /\ e.request = r.id /\ e.action = r.verb /\ e.before = Standing(t)
      /\ e.sequence = Cardinality(Places(t)) + 1
      /\ e.after = [version |-> record.version, posture |-> record.posture]
  BY <1>1
<1>10. e.after = Standing(t)' BY <1>4, <1>9 DEF Standing
<1> HIDE DEF r, t
<1>11. /\ n \in Nat /\ DOMAIN history = 1..(n - 1) /\ DOMAIN history' = 1..n
       /\ \A i \in DOMAIN history : history'[i] = history[i]
       /\ history'[n] = e
  <2> HIDE DEF seen
  <2> QED BY <1>1, <1>3
<1>12. history' \in Seq({history'[i] : i \in DOMAIN history'})
  <2>1. PICK s : s = {history'[i] : i \in DOMAIN history'} OBVIOUS
  <2>2. \A i \in DOMAIN history : history[i] \in s
    <3>1. \A i \in 1..(n - 1) : i \in 1..n BY <1>11
    <3> HIDE DEF n
    <3> QED BY <1>11, <2>1, <3>1
  <2>3. e \in s
    <3>1. n \in DOMAIN history' BY <1>11
    <3> QED BY <1>11, <2>1, <3>1
  <2>4. history \in Seq(s) BY <1>3, <2>2
  <2>5. history' \in Seq(s) BY <1>1, <2>3, <2>4
  <2> QED BY <2>1, <2>5
<1>13. \A u : Places(u)' = IF u = t THEN Places(u) \cup {n} ELSE Places(u)
  <2> SUFFICES ASSUME NEW u PROVE Places(u)' = IF u = t THEN Places(u) \cup {n} ELSE Places(u) OBVIOUS
  <2>1. Places(u)' = {i \in 1..n : history'[i].target = u} BY <1>11 DEF Places
  <2>2. Places(u) = {i \in 1..(n - 1) : history'[i].target = u} BY <1>11 DEF Places
  <2>3. 1..n = 1..(n - 1) \cup {n} BY <1>11
  <2>4. history'[n].target = t BY <1>9, <1>11
  <2> HIDE DEF n
  <2> QED BY <2>1, <2>2, <2>3, <2>4
<1>14. Places(t)' = Places(t) \cup {n} /\ \A u : u # t => Places(u)' = Places(u) BY <1>13
<1> HIDE DEF n
<1> QED BY <1>2, <1>4, <1>8, <1>9, <1>10, <1>11, <1>12, <1>14 DEF r, t, n, EventIsAdded

\* The added event continues those of its target, under a key and for a request of its own.
LEMMA AddedEventIsSound ==
    ASSUME HistoryIsSound, LastIsKnown, NEW r, NEW t, NEW n, EventIsAdded(r, t, n),
           RequestIsNew(r),
           \A i \in Places(t) : IsLast(i, Places(t)) => history[i].after = Standing(t)
    PROVE  HistoryIsSound' /\ LastIsKnown' /\ IsLast(n, Places(t)')
<1>1. /\ n \in Nat /\ DOMAIN history = 1..(n - 1) /\ DOMAIN history' = 1..n
      /\ \A i \in DOMAIN history : history'[i] = history[i]
      /\ Places(t)' = Places(t) \cup {n} /\ \A u : u # t => Places(u)' = Places(u)
  BY DEF EventIsAdded
<1>2. /\ history'[n].target = t /\ history'[n].key = r.key /\ history'[n].request = r.id
      /\ history'[n].sequence = Cardinality(Places(t)) + 1
      /\ history'[n].before = Standing(t)
  BY DEF EventIsAdded
<1>3. \A u : Places(u) \subseteq 1..(n - 1) BY <1>1 DEF Places
<1>4. \A i \in 1..n : i = n \/ (i \in 1..(n - 1) /\ i < n) BY <1>1
<1>5. \A i, j \in 1..n : i # j => history'[i].key # history'[j].key /\ history'[i].request # history'[j].request
  <2>1. \A i \in 1..(n - 1) : history'[i].key # r.key /\ history'[i].request # r.id
    BY <1>1 DEF RequestIsNew
  <2>2. \A i, j \in 1..(n - 1) : i # j => history'[i].key # history'[j].key /\ history'[i].request # history'[j].request
    BY <1>1 DEF HistoryIsSound
  <2> QED BY <1>2, <1>4, <2>1, <2>2
<1>6. ASSUME NEW u, NEW i \in 1..(n - 1) PROVE {j \in Places(u)' : j < i} = {j \in Places(u) : j < i}
  <2>1. \A j \in Places(u)' : j < i => j # n BY <1>1, <1>3
  <2>2. Places(u)' = Places(u) \/ Places(u)' = Places(u) \cup {n} BY <1>1
  <2> QED BY <2>1, <2>2
<1>7. {j \in Places(t)' : j < n} = Places(t)
  <2>1. \A j \in Places(t) : j < n BY <1>1, <1>3
  <2>2. ~(n < n) BY <1>1
  <2> QED BY <1>1, <2>1, <2>2
<1>8. ASSUME NEW i \in 1..n
      PROVE  (LET earlier == {j \in Places(history[i].target) : j < i} IN
              /\ history[i].sequence = Cardinality(earlier) + 1
              /\ \A j \in earlier : IsLast(j, earlier) => history[i].before = history[j].after)'
  <2>0. PICK u : u = history'[i].target OBVIOUS
  <2>1. CASE i = n
    <3>1. PICK own : own = Places(t) OBVIOUS
    <3>2. {j \in Places(u)' : j < i} = own BY <1>2, <1>7, <2>0, <2>1, <3>1
    <3>3. \A j \in own : j \in 1..(n - 1) /\ history'[j] = history[j] BY <1>1, <1>3, <3>1
    <3>4. \A j \in own : IsLast(j, own) => history'[i].before = history'[j].after BY <1>2, <2>1, <3>1, <3>3
    <3>5. history'[i].sequence = Cardinality(own) + 1 BY <1>2, <2>1, <3>1
    <3> QED BY <2>0, <3>2, <3>4, <3>5
  <2>2. CASE i # n
    <3>1. i \in 1..(n - 1) /\ history'[i] = history[i] BY <1>1, <1>4, <2>2
    <3>2. PICK own : own = {j \in Places(history[i].target) : j < i} OBVIOUS
    <3>3. {j \in Places(u)' : j < i} = own BY <1>6, <2>0, <3>1, <3>2
    <3>4. \A j \in own : j \in 1..(n - 1) /\ history'[j] = history[j] BY <1>1, <1>3, <3>2
    <3>5. /\ history[i].sequence = Cardinality(own) + 1
          /\ \A j \in own : IsLast(j, own) => history[i].before = history[j].after
      BY <1>1, <3>1, <3>2 DEF HistoryIsSound
    <3> QED BY <2>0, <3>1, <3>3, <3>4, <3>5
  <2> QED BY <2>1, <2>2
<1>9. HistoryIsSound' BY <1>1, <1>5, <1>8 DEF HistoryIsSound
<1>10. IsLast(n, Places(t)')
  <2>1. \A j \in Places(t)' : j <= n BY <1>1, <1>3
  <2> QED BY <1>1, <2>1 DEF IsLast
<1>11. LastIsKnown'
  <2>1. ASSUME NEW i \in 1..n
        PROVE  (LET own == Places(history[i].target) IN \E j \in own : IsLast(j, own))'
    <3>1. PICK u : u = history'[i].target OBVIOUS
    <3>2. CASE u = t BY <1>1, <1>10, <3>1, <3>2
    <3>3. CASE u # t
      <4>1. i \in 1..(n - 1) /\ history'[i] = history[i] BY <1>1, <1>2, <1>4, <3>1, <3>3
      <4>2. PICK own : own = Places(u) OBVIOUS
      <4>3. \E j \in own : IsLast(j, own) BY <1>1, <3>1, <4>1, <4>2 DEF LastIsKnown
      <4>4. Places(u)' = own BY <1>1, <3>3, <4>2
      <4> QED BY <3>1, <4>3, <4>4
    <3> QED BY <3>2, <3>3
  <2> QED BY <1>1, <2>1 DEF LastIsKnown
<1> QED BY <1>9, <1>10, <1>11

\* What is changed keeps its history, its lineage and a provider that is its own; evidence of the
\* version before is of that version, and no verdict is of the new revision.
LEMMA ChangingIsSound ==
    ASSUME InventoryInv, NEW p \in Requested, Change(p)
    PROVE  InventoryInv'
<1>1. RecordsAreTyped /\ IsProjectable /\ HistoryIsSound /\ LastIsKnown /\ EvidenceIsKnown /\ VerdictsAreKnown
      /\ ProvidersAreDistinct(register, inventory)
  BY DEF InventoryInv, IsProjectable
<1>2. PICK r, t, n : r = p.asked /\ t = p.asked.target /\ n = Len(history) + 1 OBVIOUS
<1>3. EventIsAdded(r, t, n) BY <1>2, ChangingAddsEvent
<1>4. r \in campaign.requests /\ IsPair(t) BY <1>1, <1>2, RequestedIsAsked
<1>5. /\ LifecycleIsReady(p)
      /\ register' = register /\ campaign' = campaign /\ evidence' = evidence
      /\ verdicts' = verdicts /\ kept' = kept /\ revision' = revision + 1
  BY DEF Change, Merge
<1>6. /\ RequestIsNew(r)
      /\ \A i \in Places(t) : IsLast(i, Places(t)) => history[i].after = Standing(t)
      /\ r.verb = "update" => UpdateFits(t, r.value)
  BY <1>2, <1>5 DEF LifecycleIsReady
<1>7. /\ t \in DOMAIN inventory /\ DOMAIN inventory' = DOMAIN inventory
      /\ inventory' = [u \in DOMAIN inventory' |-> inventory'[u]]
      /\ \A u \in DOMAIN inventory : u # t => inventory'[u] = inventory[u]
      /\ IsRecord(inventory'[t]) /\ inventory'[t].version = inventory[t].version + 1
      /\ inventory'[t].lineage = inventory[t].lineage /\ inventory'[t].entered = inventory[t].entered
      /\ inventory'[t].value = IF r.verb = "update" THEN r.value ELSE inventory[t].value
  BY <1>3 DEF EventIsAdded
<1>8. /\ n \in Nat /\ DOMAIN history = 1..(n - 1) /\ DOMAIN history' = 1..n
      /\ \A i \in DOMAIN history : history'[i] = history[i]
      /\ history' \in Seq({history'[i] : i \in DOMAIN history'})
      /\ Places(t)' = Places(t) \cup {n} /\ \A u : u # t => Places(u)' = Places(u)
      /\ history'[n].target = t /\ history'[n].after = Standing(t)'
  BY <1>3 DEF EventIsAdded
<1>9. HistoryIsSound' /\ LastIsKnown' /\ IsLast(n, Places(t)') BY <1>1, <1>3, <1>6, AddedEventIsSound
<1>10. revision \in Nat /\ revision' \in Nat /\ revision < revision' BY <1>1, <1>5 DEF RecordsAreTyped
<1>11. inventory[t].version \in Nat /\ inventory'[t].version \in Nat /\ inventory[t].version < inventory'[t].version
  BY <1>1, <1>7 DEF RecordsAreTyped
<1>12. RecordsAreTyped'
  <2>1. \A u \in DOMAIN inventory' : IsPair(u) /\ IsRecord(inventory'[u]) /\ inventory'[u].version \in Nat
    <3> SUFFICES ASSUME NEW u \in DOMAIN inventory
                 PROVE  IsPair(u) /\ IsRecord(inventory'[u]) /\ inventory'[u].version \in Nat
      BY <1>7
    <3>1. CASE u = t BY <1>4, <1>7, <1>11, <3>1
    <3>2. CASE u # t BY <1>1, <1>7, <3>2 DEF RecordsAreTyped
    <3> QED BY <3>1, <3>2
  <2> QED BY <1>1, <1>5, <1>7, <1>8, <1>10, <2>1 DEF RecordsAreTyped
<1>13. IsProjectable'
  <2>1. \A u \in DOMAIN inventory' : LineageIsSound(u)'
    <3> SUFFICES ASSUME NEW u \in DOMAIN inventory PROVE LineageIsSound(u)' BY <1>7
    <3>1. LineageIsSound(u) BY <1>1 DEF IsProjectable
    <3>2. inventory'[u].lineage = inventory[u].lineage /\ inventory'[u].entered = inventory[u].entered BY <1>7
    <3> QED BY <3>1, <3>2 DEF LineageIsSound
  <2>2. DOMAIN register' \cap DOMAIN inventory' = {} BY <1>1, <1>5, <1>7 DEF IsProjectable
  <2>3. ASSUME NEW i \in 1..n
        PROVE  (LET u == history[i].target IN u \in DOMAIN inventory /\ (IsLast(i, Places(u)) => history[i].after = Standing(u)))'
    <3>1. PICK u : u = history'[i].target OBVIOUS
    <3>2. CASE i = n
      <4>1. u = t /\ history'[i].after = Standing(u)' BY <1>8, <3>1, <3>2
      <4> QED BY <1>7, <3>1, <4>1
    <3>3. CASE i # n
      <4>1. i \in DOMAIN history /\ i < n /\ history'[i] = history[i] BY <1>8, <3>3
      <4>2. u \in DOMAIN inventory /\ (IsLast(i, Places(u)) => history[i].after = Standing(u))
        BY <1>1, <3>1, <4>1 DEF IsProjectable
      <4>3. CASE u = t
        <5>1. n \in Places(u)' /\ ~(n <= i) BY <1>8, <4>1, <4>3
        <5>2. ~IsLast(i, Places(u)') BY <5>1 DEF IsLast
        <5> QED BY <1>7, <3>1, <4>2, <5>2
      <4>4. CASE u # t
        <5>1. PICK own : own = Places(u) OBVIOUS
        <5>2. Places(u)' = own BY <1>8, <4>4, <5>1
        <5>3. Standing(u)' = Standing(u) BY <1>7, <4>2, <4>4 DEF Standing
        <5> QED BY <1>7, <3>1, <4>1, <4>2, <5>1, <5>2, <5>3
      <4> QED BY <4>3, <4>4
    <3> QED BY <3>2, <3>3
  <2> QED BY <1>8, <1>9, <2>1, <2>2, <2>3 DEF IsProjectable
<1>14. EvidenceIsKnown'
  <2>1. ASSUME NEW u \in Products, evidence[u] # None
        PROVE  /\ u \in DOMAIN inventory'
               /\ evidence[u].version \in Nat /\ evidence[u].version <= inventory'[u].version
               /\ evidence[u].binding # None /\ evidence[u].version = inventory'[u].version =>
                    \E i \in Places(u)' : IsLast(i, Places(u)') /\ evidence[u].binding.event = history'[i]
    <3>1. /\ u \in DOMAIN inventory
          /\ evidence[u].version \in Nat /\ evidence[u].version <= inventory[u].version
          /\ evidence[u].binding # None /\ evidence[u].version = inventory[u].version =>
               \E i \in Places(u) : IsLast(i, Places(u)) /\ evidence[u].binding.event = history[i]
      BY <1>1, <2>1 DEF EvidenceIsKnown
    <3>2. CASE u = t
      <4>1. evidence[u].version <= inventory'[u].version /\ evidence[u].version # inventory'[u].version
        BY <1>11, <3>1, <3>2
      <4> QED BY <1>7, <3>1, <4>1
    <3>3. CASE u # t
      <4>1. PICK own : own = Places(u) OBVIOUS
      <4>2. Places(u)' = own BY <1>8, <3>3, <4>1
      <4>3. inventory'[u] = inventory[u] BY <1>7, <3>1, <3>3
      <4>4. \A i \in own : history'[i] = history[i] BY <1>8, <4>1 DEF Places
      <4> QED BY <1>7, <3>1, <4>1, <4>2, <4>3, <4>4
    <3> QED BY <3>2, <3>3
  <2> QED BY <1>1, <1>5, <2>1 DEF EvidenceIsKnown
<1>15. VerdictsAreKnown' BY <1>1, <1>5, <1>10 DEF VerdictsAreKnown
<1>16. ProvidersAreDistinct(register', inventory')
  <2>1. \A u \in DOMAIN register \cup DOMAIN inventory : IsPair(u) BY <1>1 DEF RecordsAreTyped
  <2>2. DOMAIN register' \cup DOMAIN inventory' = DOMAIN register \cup DOMAIN inventory \cup {t} BY <1>5, <1>7
  <2>3. \A u \in DOMAIN register \cup DOMAIN inventory :
           u # t => Provider(register', inventory', u) = Provider(register, inventory, u)
    BY <1>5, <1>7 DEF Provider
  <2>4. t \notin DOMAIN register BY <1>1, <1>7 DEF IsProjectable
  <2>5. /\ Provider(register', inventory', t) = inventory'[t].value.provider
        /\ Provider(register, inventory, t) = inventory[t].value.provider
    BY <1>5, <2>4 DEF Provider
  <2>6. \/ t[1] # "repo" \/ Provider(register', inventory', t) = None
        \/ Provider(register', inventory', t) = Provider(register, inventory, t)
        \/ \A u \in DOMAIN register \cup DOMAIN inventory :
             u[1] = "repo" /\ u[2] # t[2] => Provider(register, inventory, u) # Provider(register', inventory', t)
    <3>1. CASE r.verb # "update" BY <1>7, <2>5, <3>1
    <3>2. CASE r.verb = "update" /\ t[1] = "repo" /\ r.value.provider # None
      <4>1. ~provider_repository_conflicts(r.value.provider, t[2]) BY <1>6, <3>2 DEF UpdateFits
      <4>2. Provider(register', inventory', t) = r.value.provider BY <1>7, <2>5, <3>2
      <4> QED BY <4>1, <4>2, NoConflict
    <3>3. CASE r.verb = "update" /\ r.value.provider = None BY <1>7, <2>5, <3>3
    <3> QED BY <3>1, <3>2, <3>3
  <2> QED BY <1>1, <1>4, <1>7, <2>1, <2>2, <2>3, <2>6, OneProviderChanges
<1> QED BY <1>9, <1>12, <1>13, <1>14, <1>15, <1>16 DEF InventoryInv

\* A step that leaves the records alone.
LEMMA RecordsStay ==
    ASSUME InventoryInv,
           UNCHANGED <<campaign, register, inventory, history, revision>>,
           kept' # None => kept'.asked \in campaign.requests
    PROVE  /\ RecordsAreTyped' /\ IsProjectable' /\ LastIsKnown' /\ ProvidersAreDistinct(register, inventory)'
           /\ \A v, t : FitsInventory(v, t)' <=> FitsInventory(v, t)
           /\ \A t : Places(t)' = Places(t)
<1>1. RecordsAreTyped /\ IsProjectable /\ LastIsKnown /\ ProvidersAreDistinct(register, inventory)
  BY DEF InventoryInv
<1>2. /\ campaign' = campaign /\ register' = register /\ inventory' = inventory /\ history' = history
      /\ revision' = revision
  OBVIOUS
<1>3. \A t : Places(t)' = Places(t) BY <1>2 DEF Places
<1>4. RecordsAreTyped' BY <1>1, <1>2 DEF RecordsAreTyped
<1>5. IsProjectable' /\ LastIsKnown'
  <2>1. HistoryIsSound' /\ LastIsKnown'
    <3>1. HistoryIsSound BY <1>1 DEF IsProjectable
    <3>2. HistoryIsSound' BY <1>2, <3>1 DEF HistoryIsSound, Places
    <3>3. LastIsKnown' BY <1>1, <1>2 DEF Places, LastIsKnown
    <3> QED BY <3>2, <3>3
  <2>2. \A u \in DOMAIN inventory' : LineageIsSound(u)' BY <1>1, <1>2 DEF IsProjectable, LineageIsSound
  <2>3. DOMAIN register' \cap DOMAIN inventory' = {} BY <1>1, <1>2 DEF IsProjectable
  <2>4. (\A i \in DOMAIN history :
            LET u == history[i].target IN u \in DOMAIN inventory /\ (IsLast(i, Places(u)) => history[i].after = Standing(u)))'
    BY <1>1, <1>2 DEF IsProjectable, Places, Standing
  <2> QED BY <2>1, <2>2, <2>3, <2>4 DEF IsProjectable
<1>6. ProvidersAreDistinct(register, inventory)' BY <1>1, <1>2
<1>7. \A v, t : FitsInventory(v, t)' <=> FitsInventory(v, t)
  BY <1>2 DEF FitsInventory, Places, OwnerIsRegistered, provider_repository_conflicts, HeldElsewhere, RoutineOwner
<1> QED BY <1>3, <1>4, <1>5, <1>6, <1>7

\* A verdict that says ready is of a product as its owner's evidence has it.
LEMMA ReadyFits ==
    ASSUME EvidenceIsKnown, NEW p, NEW t \in Products, t = p.asked.target,
           evaluate_product_publication(p) = "ready", ManifestIsReadable(p.expected.record)
    PROVE  /\ t \in DOMAIN inventory /\ inventory[t].posture \in LifecycleStates(p.asked.listing)
           /\ p.asked.verb = "restore" => \E i \in Places(t) : IsLast(i, Places(t)) /\ history[i].action = "restore"
           /\ p.expected.record.owner \in Configured \/ OwnerIsRegistered(p.expected.record.owner)
<1>1. PublicationIsCurrent(p) /\ PublicationIsSound(p) BY DEF evaluate_product_publication
<1>2. PICK m : m = p.expected.record OBVIOUS
<1>3. m # None /\ (m.owner \in Configured \/ OwnerIsRegistered(m.owner)) BY <1>2 DEF ManifestIsReadable
<1>4. At(inventory, t) # None BY <1>1 DEF PublicationIsSound
<1>5. t \in DOMAIN inventory /\ At(inventory, t) = inventory[t] BY <1>4 DEF At
<1>6. m = evidence[t] /\ m.version = inventory[t].version BY <1>1, <1>2, <1>4, <1>5 DEF PublicationIsCurrent
<1>7. m.posture = inventory[t].posture /\ m.posture \in LifecycleStates(p.asked.listing)
  BY <1>1, <1>2, <1>5 DEF PublicationIsSound
<1>8. ASSUME p.asked.verb = "restore"
      PROVE  \E i \in Places(t) : IsLast(i, Places(t)) /\ history[i].action = "restore"
  <2>1. m.binding # None /\ m.binding.event.action = "restore"
    BY <1>1, <1>2, <1>8 DEF PublicationIsSound, RestorationFits
  <2>2. PICK i \in Places(t) : IsLast(i, Places(t)) /\ m.binding.event = history[i]
    BY <1>3, <1>6, <2>1 DEF EvidenceIsKnown
  <2> QED BY <2>1, <2>2
<1> QED BY <1>2, <1>3, <1>5, <1>7, <1>8

\* A verdict is of the revision it was given at.
LEMMA GivingIsSound ==
    ASSUME InventoryInv, NEW p \in Requested, Judge(p)
    PROVE  InventoryInv'
<1>1. /\ UNCHANGED <<campaign, register, inventory, history, revision>>
      /\ kept' = kept /\ evidence' = evidence /\ revision' = revision
  BY DEF Judge
<1>2. EvidenceIsKnown /\ VerdictsAreKnown /\ revision \in Nat /\ (kept' # None => kept'.asked \in campaign.requests)
  BY <1>1 DEF InventoryInv, RecordsAreTyped
<1>3. /\ RecordsAreTyped' /\ IsProjectable' /\ LastIsKnown' /\ ProvidersAreDistinct(register, inventory)'
      /\ \A v, t : FitsInventory(v, t)' <=> FitsInventory(v, t)
      /\ \A t : Places(t)' = Places(t)
  BY <1>1, <1>2, RecordsStay
<1>4. EvidenceIsKnown' BY <1>1, <1>2, <1>3 DEF EvidenceIsKnown
<1>5. PICK v, t : /\ t = p.asked.target
                  /\ v = [verb |-> p.asked.verb, listing |-> p.asked.listing, owner |-> p.expected.record.owner,
                          revision |-> revision, outcome |-> evaluate_product_publication(p), expired |-> FALSE]
                  /\ verdicts' = [verdicts EXCEPT ![t] = v] /\ ManifestIsReadable(p.expected.record)
  BY DEF Judge
<1>6. /\ IsVerdict(v) /\ v.revision = revision
      /\ v.verb = p.asked.verb /\ v.listing = p.asked.listing /\ v.owner = p.expected.record.owner
      /\ v.outcome = evaluate_product_publication(p)
  BY <1>5 DEF IsVerdict
<1>7. t \in Products /\ v.outcome = "ready" => FitsInventory(v, t)
  BY <1>2, <1>5, <1>6, ReadyFits DEF FitsInventory
<1>8. \A u \in Products : verdicts'[u] # None =>
         /\ IsVerdict(verdicts'[u]) /\ verdicts'[u].revision \in Nat /\ verdicts'[u].revision <= revision
         /\ verdicts'[u].revision = revision /\ verdicts'[u].outcome = "ready" => FitsInventory(verdicts'[u], u)
  <2> SUFFICES ASSUME NEW u \in Products, verdicts'[u] # None
               PROVE  /\ IsVerdict(verdicts'[u]) /\ verdicts'[u].revision \in Nat /\ verdicts'[u].revision <= revision
                      /\ verdicts'[u].revision = revision /\ verdicts'[u].outcome = "ready" => FitsInventory(verdicts'[u], u)
    OBVIOUS
  <2>1. verdicts'[u] = IF u = t THEN v ELSE verdicts[u] BY <1>2, <1>5 DEF VerdictsAreKnown
  <2>2. CASE u = t BY <1>2, <1>6, <1>7, <2>1, <2>2
  <2>3. CASE u # t BY <1>2, <2>1, <2>3 DEF VerdictsAreKnown
  <2> QED BY <2>2, <2>3
<1>9. verdicts' = [u \in Products |-> verdicts'[u]] BY <1>2, <1>5 DEF VerdictsAreKnown
<1>10. \A u \in Products : FitsInventory(verdicts'[u], u) => FitsInventory(verdicts[u], u)'
  <2> SUFFICES ASSUME NEW u \in Products, FitsInventory(verdicts'[u], u) PROVE FitsInventory(verdicts[u], u)' OBVIOUS
  <2>1. PICK w : w = verdicts'[u] OBVIOUS
  <2>2. FitsInventory(w, u)' BY <1>3, <2>1
  <2> QED BY <2>1, <2>2
<1>11. VerdictsAreKnown' BY <1>1, <1>8, <1>9, <1>10 DEF VerdictsAreKnown
<1> QED BY <1>3, <1>4, <1>11 DEF InventoryInv

\* Evidence is of the version its owner committed it at, and of the last event then.
LEMMA CommittingIsSound ==
    ASSUME InventoryInv, NEW t \in Products, NEW m \in Manifests, CommitManifest(t, m)
    PROVE  InventoryInv'
<1>1. /\ UNCHANGED <<campaign, register, inventory, history, revision>>
      /\ kept' = kept /\ verdicts' = verdicts /\ revision' = revision
      /\ inventory' = inventory /\ history' = history
  BY DEF CommitManifest
<1>2. /\ EvidenceIsKnown /\ VerdictsAreKnown /\ LastIsKnown
      /\ kept' # None => kept'.asked \in campaign.requests
  BY <1>1 DEF InventoryInv, RecordsAreTyped
<1>3. /\ RecordsAreTyped' /\ IsProjectable' /\ LastIsKnown' /\ ProvidersAreDistinct(register, inventory)'
      /\ \A v, u : FitsInventory(v, u)' <=> FitsInventory(v, u)
      /\ \A u : Places(u)' = Places(u)
  BY <1>1, <1>2, RecordsStay
<1>4. PICK x : /\ evidence' = [evidence EXCEPT ![t] = x]
               /\ x.version = inventory[t].version
               /\ x.binding = IF m.schema = 2 THEN Binding(t) ELSE None
  <2>1. PICK x : /\ evidence' = [evidence EXCEPT ![t] = x]
                 /\ x = [owner |-> m.owner, version |-> inventory[t].version, posture |-> inventory[t].posture,
                         schema |-> m.schema, binding |-> IF m.schema = 2 THEN Binding(t) ELSE None,
                         claimed |-> m.claimed, phase |-> m.phase, durable |-> TRUE, sound |-> TRUE]
    BY Zenon DEF CommitManifest
  <2>2. x.version = inventory[t].version BY <2>1
  <2>3. x.binding = IF m.schema = 2 THEN Binding(t) ELSE None BY <2>1
  <2> QED BY <2>1, <2>2, <2>3
<1>5. t \in DOMAIN inventory /\ inventory[t].version \in Nat
  BY DEF CommitManifest, InventoryInv, RecordsAreTyped
<1>6. x.binding # None => \E i \in Places(t) : IsLast(i, Places(t)) /\ x.binding.event = history[i]
  <2> SUFFICES ASSUME x.binding # None
               PROVE  \E i \in Places(t) : IsLast(i, Places(t)) /\ x.binding.event = history[i]
    OBVIOUS
  <2>1. PICK own : own = Places(t) OBVIOUS
  <2>2. x.binding = Binding(t) /\ Binding(t) # None BY <1>4
  <2>3. own # {} /\ x.binding.event = LastEvent(own) BY <2>1, <2>2 DEF Binding
  <2>4. x.binding.event = history[LastPlace(own)] BY <2>3 DEF LastEvent
  <2>5. PICK i \in own : TRUE BY <2>3
  <2>6. i \in DOMAIN history /\ own = Places(history[i].target) BY <2>1, <2>5 DEF Places
  <2>7. \E j \in own : IsLast(j, own) BY <1>2, <2>6 DEF LastIsKnown
  <2>8. LastPlace(own) \in own /\ IsLast(LastPlace(own), own) BY <2>7 DEF LastPlace
  <2> QED BY <2>1, <2>4, <2>8
<1>7. \A u \in Products : evidence'[u] = IF u = t THEN x ELSE evidence[u] BY <1>2, <1>4 DEF EvidenceIsKnown
<1>8. evidence' = [u \in Products |-> evidence'[u]] BY <1>2, <1>4 DEF EvidenceIsKnown
<1>9. ASSUME NEW u \in Products, evidence'[u] # None
      PROVE  /\ u \in DOMAIN inventory
             /\ evidence'[u].version \in Nat /\ evidence'[u].version <= inventory[u].version
             /\ evidence'[u].binding # None /\ evidence'[u].version = inventory[u].version =>
                  \E i \in Places(u) : IsLast(i, Places(u)) /\ evidence'[u].binding.event = history[i]
  <2>1. CASE u = t BY <1>4, <1>5, <1>6, <1>7, <2>1
  <2>2. CASE u # t BY <1>2, <1>7, <1>9, <2>2 DEF EvidenceIsKnown
  <2> QED BY <2>1, <2>2
<1>10. EvidenceIsKnown' BY <1>1, <1>3, <1>8, <1>9 DEF EvidenceIsKnown
<1>11. VerdictsAreKnown' BY <1>1, <1>2, <1>3 DEF VerdictsAreKnown
<1> QED BY <1>3, <1>10, <1>11 DEF InventoryInv

\* A verdict that expires was one.
LEMMA ExpiringIsSound ==
    ASSUME InventoryInv, NEW t \in Products, Expire(t)
    PROVE  InventoryInv'
<1>1. /\ UNCHANGED <<campaign, register, inventory, history, revision>>
      /\ kept' = kept /\ evidence' = evidence /\ revision' = revision
      /\ inventory' = inventory /\ history' = history
  BY DEF Expire
<1>2. EvidenceIsKnown /\ VerdictsAreKnown /\ (kept' # None => kept'.asked \in campaign.requests)
  BY <1>1 DEF InventoryInv, RecordsAreTyped
<1>3. /\ RecordsAreTyped' /\ IsProjectable' /\ LastIsKnown' /\ ProvidersAreDistinct(register, inventory)'
      /\ \A v, u : FitsInventory(v, u)' <=> FitsInventory(v, u)
      /\ \A u : Places(u)' = Places(u)
  BY <1>1, <1>2, RecordsStay
<1>4. EvidenceIsKnown' BY <1>1, <1>2, <1>3 DEF EvidenceIsKnown
<1>5. PICK v, w : v = verdicts[t] /\ w = [v EXCEPT !.expired = TRUE] /\ verdicts' = [verdicts EXCEPT ![t] = w]
  BY DEF Expire
<1>6. v # None /\ IsVerdict(v) BY <1>2, <1>5 DEF VerdictsAreKnown, Expire, Actionable
<1>7. /\ IsVerdict(w) /\ w.revision = v.revision /\ w.verb = v.verb /\ w.listing = v.listing
      /\ w.owner = v.owner /\ w.outcome = v.outcome
  BY <1>5, <1>6 DEF IsVerdict
<1>8. FitsInventory(v, t) => FitsInventory(w, t) BY <1>7 DEF FitsInventory
<1>9. \A u \in Products : verdicts'[u] = IF u = t THEN w ELSE verdicts[u] BY <1>2, <1>5 DEF VerdictsAreKnown
<1>10. verdicts' = [u \in Products |-> verdicts'[u]] BY <1>2, <1>5 DEF VerdictsAreKnown
<1>11. ASSUME NEW u \in Products, verdicts'[u] # None
       PROVE  /\ IsVerdict(verdicts'[u]) /\ verdicts'[u].revision \in Nat /\ verdicts'[u].revision <= revision
              /\ verdicts'[u].revision = revision /\ verdicts'[u].outcome = "ready" => FitsInventory(verdicts'[u], u)
  <2>1. CASE u = t BY <1>2, <1>5, <1>6, <1>7, <1>8, <1>9, <2>1 DEF VerdictsAreKnown
  <2>2. CASE u # t BY <1>2, <1>9, <1>11, <2>2 DEF VerdictsAreKnown
  <2> QED BY <2>1, <2>2
<1>12. \A u \in Products : FitsInventory(verdicts'[u], u) => FitsInventory(verdicts[u], u)'
  <2> SUFFICES ASSUME NEW u \in Products, FitsInventory(verdicts'[u], u) PROVE FitsInventory(verdicts[u], u)' OBVIOUS
  <2>1. PICK x : x = verdicts'[u] OBVIOUS
  <2>2. FitsInventory(x, u)' BY <1>3, <2>1
  <2> QED BY <2>1, <2>2
<1>13. VerdictsAreKnown' BY <1>1, <1>10, <1>11, <1>12 DEF VerdictsAreKnown
<1> QED BY <1>3, <1>4, <1>13 DEF InventoryInv

\* A request that is kept is one of the campaign's.
LEMMA KeepingIsSound ==
    ASSUME InventoryInv, NEW r \in campaign.requests, Keep(r)
    PROVE  InventoryInv'
<1>1. /\ UNCHANGED <<campaign, register, inventory, history, revision>>
      /\ evidence' = evidence /\ verdicts' = verdicts /\ revision' = revision
      /\ inventory' = inventory /\ history' = history
      /\ kept' = Prepared(r)
  BY DEF Keep
<1>2. EvidenceIsKnown /\ VerdictsAreKnown BY DEF InventoryInv
<1>3. kept'.asked \in campaign.requests BY <1>1 DEF Prepared
<1>4. /\ RecordsAreTyped' /\ IsProjectable' /\ LastIsKnown' /\ ProvidersAreDistinct(register, inventory)'
      /\ \A v, u : FitsInventory(v, u)' <=> FitsInventory(v, u)
      /\ \A u : Places(u)' = Places(u)
  BY <1>1, <1>3, RecordsStay
<1>5. EvidenceIsKnown' BY <1>1, <1>2, <1>4 DEF EvidenceIsKnown
<1>6. VerdictsAreKnown' BY <1>1, <1>2, <1>4 DEF VerdictsAreKnown
<1> QED BY <1>4, <1>5, <1>6 DEF InventoryInv

\* The legacy inventory, before anything is asked.
LEMMA LegacyIsSound == InventoryInit => InventoryInv
<1> SUFFICES ASSUME InventoryInit PROVE InventoryInv OBVIOUS
<1>1. /\ campaign \in Campaigns /\ register = <<>> /\ inventory = Legacy /\ history = <<>> /\ revision = 0
      /\ kept = None
      /\ evidence = [t \in Products |-> None] /\ verdicts = [t \in Products |-> None]
  BY DEF InventoryInit
<1>2. DOMAIN register = {} /\ DOMAIN history = {} /\ history \in Seq({history[i] : i \in DOMAIN history}) BY <1>1
<1>3. RecordsAreTyped BY <1>1, <1>2, InventoryAssumption DEF RecordsAreTyped, IsPair, IsRecord
<1>4. IsProjectable /\ LastIsKnown
  BY <1>1, <1>2, InventoryAssumption DEF IsProjectable, HistoryIsSound, LineageIsSound, LastIsKnown
<1>5. ProvidersAreDistinct(register, inventory)
  BY <1>1, <1>2, InventoryAssumption DEF ProvidersAreDistinct, Provider
<1>6. EvidenceIsKnown BY <1>1 DEF EvidenceIsKnown
<1>7. VerdictsAreKnown BY <1>1 DEF VerdictsAreKnown
<1> QED BY <1>3, <1>4, <1>5, <1>6, <1>7 DEF InventoryInv

\* Every step keeps the invariant.
LEMMA InventoryStays == InventoryInv /\ [InventoryNext]_inventoryVars => InventoryInv'
<1> SUFFICES ASSUME InventoryInv, [InventoryNext]_inventoryVars PROVE InventoryInv' OBVIOUS
<1>1. CASE InventoryNext
  BY <1>1, KeepingIsSound, EnteringIsSound, PromotingIsSound, ChangingIsSound, GivingIsSound, CommittingIsSound,
     ExpiringIsSound DEF InventoryNext
<1>2. CASE UNCHANGED inventoryVars
  <2>1. /\ UNCHANGED <<campaign, register, inventory, history, revision>>
        /\ evidence' = evidence /\ verdicts' = verdicts /\ revision' = revision
        /\ inventory' = inventory /\ history' = history /\ kept' = kept
    BY <1>2 DEF inventoryVars
  <2>2. EvidenceIsKnown /\ VerdictsAreKnown /\ (kept' # None => kept'.asked \in campaign.requests)
    BY <2>1 DEF InventoryInv, RecordsAreTyped
  <2>3. /\ RecordsAreTyped' /\ IsProjectable' /\ LastIsKnown' /\ ProvidersAreDistinct(register, inventory)'
        /\ \A v, u : FitsInventory(v, u)' <=> FitsInventory(v, u)
        /\ \A u : Places(u)' = Places(u)
    BY <2>1, <2>2, RecordsStay
  <2>4. EvidenceIsKnown' BY <2>1, <2>2, <2>3 DEF EvidenceIsKnown
  <2>5. VerdictsAreKnown' BY <2>1, <2>2, <2>3 DEF VerdictsAreKnown
  <2> QED BY <2>3, <2>4, <2>5 DEF InventoryInv
<1> QED BY <1>1, <1>2

\* Whatever is asked, in whatever order and at whatever revision it is judged, one physical
\* repository never has two keys in the workspace.
THEOREM RepositoriesCorrect == InventorySpec => []RepositoriesAreDistinct
<1>1. InventoryInv => RepositoriesAreDistinct BY DistinctProviders DEF InventoryInv
<1> QED BY <1>1, LegacyIsSound, InventoryStays, PTL DEF InventorySpec

\* No change the policies let through leaves a revision that the services or the projection
\* refuse to read, however long the history grows.
THEOREM AuthorityCorrect == InventorySpec => []AuthorityIsReadable
<1>1. InventoryInv => AuthorityIsReadable BY DEF InventoryInv, AuthorityIsReadable
<1> QED BY <1>1, LegacyIsSound, InventoryStays, PTL DEF InventorySpec

\* A publication shown as actionable fits the inventory of the moment it is shown.
THEOREM PublicationsCorrect == InventorySpec => []ActionableIsCurrent
<1>1. InventoryInv => ActionableIsCurrent
  BY DEF InventoryInv, VerdictsAreKnown, ActionableIsCurrent, Actionable, IsCurrent, FitsInventory
<1> QED BY <1>1, LegacyIsSound, InventoryStays, PTL DEF InventorySpec
-----------------------------------------------------------------------------
(* ArtReadiness.  A Feature that was reviewed has leaves, none of them     *)
(* open, and its headings; and a receipt of the board as it is, for the    *)
(* last open leaf of a Feature, was given with the headings of it there.   *)

BoardIsKnown ==
    /\ board = [i \in DOMAIN board |-> board[i]]
    /\ IsFiniteSet(DOMAIN board) /\ Reviewable \subseteq DOMAIN board
    /\ \A i \in DOMAIN board : DOMAIN board[i] = ItemFields

\* The narrative of f is whole, as far as f is a Feature.
IsWhole(b, f) == b[f].type = "Feature" => MissingHeadings(b[f]) = {}

\* f is to be closed: it had leaves, and the last of them is closed.
IsLeafless(b, f) == OpenChildren(b, f) = {} /\ Leaves(b, f) # {}

ReviewedAreReady == \A f \in reviewed : f \in DOMAIN board /\ IsLeafless(board, f) /\ IsWhole(board, f)

IsLastLeaf(b, t) ==
    /\ b[t].type \in LeafTypes /\ Open(b, t)
    /\ b[t].parent \in DOMAIN b /\ OpenChildren(b, b[t].parent) = {t}

ReceiptIsKnown ==
    receipt # None =>
        /\ DOMAIN receipt = {"target", "operation", "current"}
        /\ receipt.target \in DOMAIN board
        /\ receipt.current /\ receipt.operation = "complete" /\ IsLastLeaf(board, receipt.target) =>
             IsWhole(board, board[receipt.target].parent)

ArtInv == BoardIsKnown /\ ReviewedAreReady /\ ReceiptIsKnown

\* Nothing is reviewed of a board that is looked at for the first time.
LEMMA ArtInitially == ASSUME ArtInit PROVE ArtInv
<1>1. PICK situation \in Situations : board = situation.board BY DEF ArtInit
<1>2. BoardIsKnown BY <1>1, SituationsAssumption DEF BoardIsKnown
<1>3. ReviewedAreReady /\ ReceiptIsKnown BY DEF ArtInit, ReviewedAreReady, ReceiptIsKnown
<1> QED BY <1>2, <1>3 DEF ArtInv

\* The findings about the last child say whether the narrative of its parent is whole.
LEMMA LastChildIsSeen ==
    ASSUME NEW t \in DOMAIN board, NEW generous \in BOOLEAN,
           "parent-feature-narrative-not-closeout-ready" \notin LastChildFindings(Context(t, generous), t),
           IsLastLeaf(board, t)
    PROVE  IsWhole(board, board[t].parent)
<1> DEFINE c == Context(t, generous)
           f == board[t].parent
<1>1. c.siblings \subseteq DOMAIN board /\ c.chain = Ancestors(board, t) BY DEF Context
<1>2. ~HasOpenLeafSibling(c, t)
  <2> SUFFICES ASSUME NEW i \in c.siblings \ {t}, board[i].parent = f, board[i].type \in LeafTypes, Open(board, i)
               PROVE  FALSE
    BY DEF HasOpenLeafSibling
  <2>1. i \in OpenChildren(board, f) BY <1>1 DEF OpenChildren, Leaves
  <2> QED BY <2>1 DEF IsLastLeaf
<1>3. SUFFICES ASSUME board[f].type = "Feature", MissingHeadings(board[f]) # {} PROVE FALSE BY DEF IsWhole
<1>4. f \in c.chain BY <1>1 DEF IsLastLeaf, Ancestors
<1>5. f \in ParentFeature(c, t) BY <1>3, <1>4 DEF ParentFeature
<1>6. "parent-feature-narrative-not-closeout-ready" \in LastChildFindings(c, t)
  BY <1>2, <1>3, <1>5 DEF LastChildFindings, IsLastLeaf
<1> QED BY <1>6

\* A receipt for the item whose context was looked at says what was found of its parent.
LEMMA EvaluatingIsSound ==
    ASSUME ArtInv, NEW t \in Reviewable, NEW asked \in Reviewable, NEW operation \in Operations,
           NEW generous \in BOOLEAN, EvaluateItem(t, asked, operation, generous)
    PROVE  ArtInv'
<1> DEFINE c == Context(t, generous)
<1>1. board' = board /\ reviewed' = reviewed BY DEF EvaluateItem
<1>2. PICK given : /\ given = Answer(c, asked, operation)
                   /\ receipt' = IF given.outcome = "blocked" THEN None
                                 ELSE [target |-> given.target, operation |-> operation, current |-> given.target = t]
  BY DEF EvaluateItem
<1>3. BoardIsKnown' BY <1>1 DEF ArtInv, BoardIsKnown
<1>4. ReviewedAreReady'
  BY <1>1 DEF ArtInv, ReviewedAreReady, IsLeafless, IsWhole, OpenChildren, Leaves, Open
<1>5. ReceiptIsKnown'
  <2> SUFFICES ASSUME receipt' # None
               PROVE  /\ DOMAIN receipt' = {"target", "operation", "current"}
                      /\ receipt'.target \in DOMAIN board
                      /\ receipt'.current /\ receipt'.operation = "complete" /\ IsLastLeaf(board, receipt'.target) =>
                            IsWhole(board, board[receipt'.target].parent)
    BY <1>1 DEF ReceiptIsKnown
  <2>1. given.outcome # "blocked" BY <1>2
  <2>2. receipt' = [target |-> given.target, operation |-> operation, current |-> given.target = t] BY <1>2, <2>1
  <2>3. given.target = Target(c, asked) BY <1>2 DEF Answer
  <2>4. c.target = t BY DEF Context
  <2>5. given.target \in DOMAIN board BY <2>3, <2>4 DEF Target, ArtInv, BoardIsKnown
  <2>6. ItemFindings(c, given.target, operation) \subseteq Warnings BY <1>2, <2>1 DEF Answer
  <2>7. ASSUME given.target = t, operation = "complete", IsLastLeaf(board, t) PROVE IsWhole(board, board[t].parent)
    <3>1. "parent-feature-narrative-not-closeout-ready" \notin Warnings BY DEF Warnings
    <3>2. LastChildFindings(c, t) \subseteq ItemFindings(c, t, operation) BY <2>7 DEF ItemFindings
    <3> QED BY <2>5, <2>6, <2>7, <3>1, <3>2, LastChildIsSeen
  <2> QED BY <2>2, <2>5, <2>7
<1> QED BY <1>3, <1>4, <1>5 DEF ArtInv

\* Closing an item opens none, and leaves every heading where it is.
LEMMA ClosingIsSound == ASSUME ArtInv, CloseItem PROVE ArtInv'
<1>1. PICK t : t = receipt.target OBVIOUS
<1>2. PICK f : f = board[t].parent OBVIOUS
<1>3. /\ t \in DOMAIN board /\ DOMAIN board[t] = ItemFields
      /\ board' = [board EXCEPT ![t].status = "done"]
      /\ receipt' = None
  BY <1>1 DEF CloseItem, ArtInv, ReceiptIsKnown, BoardIsKnown
<1>4. /\ DOMAIN board' = DOMAIN board
      /\ board'[t] = [board[t] EXCEPT !.status = "done"]
      /\ \A i \in DOMAIN board : i # t => board'[i] = board[i]
  BY <1>3 DEF ArtInv, BoardIsKnown
<1>5. \A i \in DOMAIN board :
        /\ DOMAIN board'[i] = ItemFields
        /\ board'[i].parent = board[i].parent /\ board'[i].type = board[i].type
        /\ board'[i].headings = board[i].headings /\ board'[i].satisfied = board[i].satisfied
        /\ board'[i].classification = board[i].classification /\ board'[i].subject = board[i].subject
  BY <1>3, <1>4 DEF ItemFields, ArtInv, BoardIsKnown
<1>6. board'[t].status = "done" BY <1>3, <1>4 DEF ItemFields
<1>7. \A g : Leaves(board', g) = Leaves(board, g) BY <1>4, <1>5 DEF Leaves
<1>8. \A g : OpenChildren(board', g) = OpenChildren(board, g) \ {t}
  <2> TAKE g
  <2>1. \A i \in Leaves(board, g) : Open(board', i) <=> Open(board, i) /\ i # t
    BY <1>4, <1>6 DEF Leaves, Open, Terminal
  <2> QED BY <1>7, <2>1 DEF OpenChildren
<1>9. \A g \in DOMAIN board : IsWhole(board', g) <=> IsWhole(board, g)
  BY <1>5 DEF IsWhole, MissingHeadings, RequiredHeadings, Classification
<1>10. BoardIsKnown'
  <2>1. board' = [i \in DOMAIN board' |-> board'[i]] BY <1>3
  <2>2. IsFiniteSet(DOMAIN board') /\ Reviewable \subseteq DOMAIN board' BY <1>4 DEF ArtInv, BoardIsKnown
  <2>3. \A i \in DOMAIN board' : DOMAIN board'[i] = ItemFields BY <1>4, <1>5
  <2> QED BY <2>1, <2>2, <2>3 DEF BoardIsKnown
<1>11. \A g \in reviewed : g \in DOMAIN board /\ IsLeafless(board', g) /\ IsWhole(board', g)
  BY <1>7, <1>8, <1>9 DEF ArtInv, ReviewedAreReady, IsLeafless
<1>12. ReviewedAreReady'
  <2>1. CASE receipt.current /\ board[t].type \in LeafTypes /\ f \in DOMAIN board /\ OpenChildren(board, f) = {t}
    <3>1. reviewed' = reviewed \cup {f} BY <1>1, <1>2, <2>1 DEF CloseItem
    <3>2. receipt.operation = "complete" /\ Open(board, t) BY <1>1, <2>1 DEF CloseItem, LeafTypes
    <3>3. IsLastLeaf(board, t) BY <1>2, <2>1, <3>2 DEF IsLastLeaf
    <3>4. IsWhole(board, f) BY <1>1, <1>2, <2>1, <3>2, <3>3 DEF ArtInv, ReceiptIsKnown, CloseItem
    <3>5. IsLeafless(board', f) BY <1>7, <1>8, <2>1 DEF IsLeafless, OpenChildren
    <3> QED BY <1>4, <1>9, <1>11, <2>1, <3>1, <3>4, <3>5 DEF ReviewedAreReady
  <2>2. CASE ~(receipt.current /\ board[t].type \in LeafTypes /\ f \in DOMAIN board /\ OpenChildren(board, f) = {t})
    <3>1. reviewed' = reviewed \ {t, f} BY <1>1, <1>2, <2>2 DEF CloseItem
    <3> QED BY <1>4, <1>11, <3>1 DEF ReviewedAreReady
  <2> QED BY <2>1, <2>2
<1> QED BY <1>3, <1>10, <1>12 DEF ArtInv, ReceiptIsKnown

\* What was reviewed of a Feature holds until the Feature or a leaf that comes or goes is edited.
LEMMA EditingIsSound ==
    ASSUME ArtInv, NEW i \in DOMAIN board, NEW r, DOMAIN r = ItemFields, Edited(i, r)
    PROVE  ArtInv'
<1>1. /\ board' = [board EXCEPT ![i] = r] /\ DOMAIN board' = DOMAIN board
      /\ board'[i] = r /\ \A j \in DOMAIN board : j # i => board'[j] = board[j]
      /\ reviewed' = reviewed \ {i, board[i].parent, r.parent}
  BY DEF Edited, ArtInv, BoardIsKnown
<1>2. BoardIsKnown' BY <1>1 DEF ArtInv, BoardIsKnown
<1>3. ReviewedAreReady'
  <2> SUFFICES ASSUME NEW f \in reviewed'
               PROVE  f \in DOMAIN board' /\ IsLeafless(board', f) /\ IsWhole(board', f)
    BY DEF ReviewedAreReady
  <2>1. f \in DOMAIN board /\ IsLeafless(board, f) /\ IsWhole(board, f) BY <1>1 DEF ArtInv, ReviewedAreReady
  <2>2. f # i /\ f # board[i].parent /\ f # r.parent BY <1>1
  <2>3. Leaves(board', f) = Leaves(board, f) BY <1>1, <2>2 DEF Leaves
  <2>4. i \notin Leaves(board, f) BY <2>2 DEF Leaves
  <2>5. OpenChildren(board', f) = OpenChildren(board, f) BY <1>1, <2>3, <2>4 DEF OpenChildren, Open, Leaves
  <2> QED BY <1>1, <2>1, <2>2, <2>3, <2>5 DEF IsLeafless, IsWhole
<1>4. ReceiptIsKnown'
  <2>1. CASE receipt = None BY <2>1 DEF Edited, ReceiptIsKnown
  <2>2. CASE receipt # None
    <3>1. receipt' = [receipt EXCEPT !.current = FALSE] BY <2>2 DEF Edited
    <3>2. DOMAIN receipt = {"target", "operation", "current"} /\ receipt.target \in DOMAIN board
      BY <2>2 DEF ArtInv, ReceiptIsKnown
    <3>3. DOMAIN receipt' = {"target", "operation", "current"} /\ receipt'.target = receipt.target /\ ~receipt'.current
      BY <3>1, <3>2
    <3> QED BY <1>1, <3>2, <3>3 DEF ReceiptIsKnown
  <2> QED BY <2>1, <2>2
<1> QED BY <1>2, <1>3, <1>4 DEF ArtInv

\* What the evaluation of a Feature says when nothing of it is open and its narrative is whole.
LEMMA ReadyIsSeen ==
    ASSUME BoardIsKnown, NEW f \in DOMAIN board, IsLeafless(board, f), IsWhole(board, f),
           board[f].type = "Feature", NEW generous \in BOOLEAN
    PROVE  LET close == Answer(Context(f, generous), f, "stale-open-close") IN
           /\ "weak-feature-narrative" \notin ItemFindings(Context(f, generous), f, "complete") \cup close.findings
           /\ board[f].status \in {"ready", "in-progress"} => "stale_open_close" \in close.actions
<1>1. PICK c : c = Context(f, generous) OBVIOUS
<1>2. /\ f \in c.listed
      /\ c.open = Cardinality(OpenChildren(board, f))
      /\ c.completed = Cardinality(Leaves(board, f) \ OpenChildren(board, f))
  BY <1>1 DEF Context
<1>3. Target(c, f) = f BY <1>2 DEF Target
<1>4. MissingHeadings(board[f]) = {} BY DEF IsWhole
<1>5. \A operation : "weak-feature-narrative" \notin ItemFindings(c, f, operation)
  <2> TAKE operation
  <2>1. NarrativeFindings(c, board[f], operation) = {} BY <1>4 DEF NarrativeFindings, FoundIf
  <2>2. "weak-feature-narrative" \notin MetadataFindings(board[f])
    <3>1. \A field \in MetadataFields(board[f]) : MissingOf[field] # "weak-feature-narrative"
      BY DEF MetadataFields, MissingOf
    <3> QED BY <3>1 DEF MetadataFindings
  <2>3. "weak-feature-narrative" \notin LastChildFindings(c, f) BY DEF LastChildFindings
  <2>4. "weak-feature-narrative" \notin DeliveryFindings BY DEF DeliveryFindings, FoundIf
  <2>5. "weak-feature-narrative" \notin IterationFindings(board[f]) \cup MilestoneFindings(c)
    BY DEF IterationFindings, MilestoneFindings, FoundIf
  <2>6. \A condition : /\ "weak-feature-narrative" \notin FoundIf(condition, "target-blocked")
                       /\ "weak-feature-narrative" \notin FoundIf(condition, "stale-open-parent")
    BY DEF FoundIf
  <2> QED BY <2>1, <2>2, <2>3, <2>4, <2>5, <2>6 DEF ItemFindings
<1>6. PICK close : close = Answer(c, f, "stale-open-close") OBVIOUS
<1>7. /\ close.findings = ItemFindings(c, f, "stale-open-close")
      /\ UNION {Recommended(code) : code \in close.findings} \subseteq close.actions
  BY <1>3, <1>6 DEF Answer
<1>8. ASSUME board[f].status \in {"ready", "in-progress"} PROVE "stale_open_close" \in close.actions
  <2>1. c.open = 0 BY <1>2, FS_EmptySet DEF IsLeafless
  <2>2. IsFiniteSet(Leaves(board, f)) BY FS_Subset DEF BoardIsKnown, Leaves
  <2>3. Leaves(board, f) \ OpenChildren(board, f) = Leaves(board, f) BY DEF IsLeafless
  <2>4. c.completed \in Nat /\ c.completed # 0
    BY <1>2, <2>2, <2>3, FS_EmptySet, FS_CardinalityType DEF IsLeafless
  <2>5. StaleOpenParent(c, board[f]) BY <1>8, <2>1, <2>4 DEF StaleOpenParent
  <2>6. "stale-open-parent" \in close.findings BY <1>7, <2>5 DEF ItemFindings, FoundIf
  <2>7. "stale-open-parent" \notin {MissingOf[field] : field \in DOMAIN MissingOf} BY DEF MissingOf
  <2>8. Recommended("stale-open-parent") = {"stale_open_close"} BY <2>7 DEF Recommended
  <2> QED BY <1>7, <2>6, <2>8
<1> QED BY <1>1, <1>5, <1>6, <1>7, <1>8

\* A Feature whose last open leaf was closed by an evaluation of the board as it was can itself be
\* closed (art_readiness.py _last_child_parent_feature_findings, _readiness_findings), for any
\* boards, narratives and planning contract.
THEOREM ParentCorrect == ArtSpec => []ParentIsReadyToClose
<1>1. ArtInit => ArtInv BY ArtInitially
<1>2. ArtInv /\ [ArtNext]_artVars => ArtInv'
  <2> SUFFICES ASSUME ArtInv, [ArtNext]_artVars PROVE ArtInv' OBVIOUS
  <2>1. CASE \E t, asked \in Reviewable, operation \in Operations, generous \in BOOLEAN :
               EvaluateItem(t, asked, operation, generous)
    BY <2>1, EvaluatingIsSound
  <2>2. CASE CloseItem BY <2>2, ClosingIsSound
  <2>3. CASE \E i \in DOMAIN board, headings \in Narratives : Rewrite(i, headings)
    <3>1. PICK i \in DOMAIN board, headings \in Narratives : Rewrite(i, headings) BY <2>3
    <3>2. Edited(i, [board[i] EXCEPT !.headings = headings]) BY <3>1 DEF Rewrite
    <3>3. DOMAIN [board[i] EXCEPT !.headings = headings] = ItemFields BY DEF ArtInv, BoardIsKnown
    <3> QED BY <3>2, <3>3, EditingIsSound
  <2>4. CASE \E i \in DOMAIN board, status \in {"ready", "in-progress", "retired"} : Restate(i, status)
    <3>1. PICK i \in DOMAIN board, status \in {"ready", "in-progress", "retired"} : Restate(i, status) BY <2>4
    <3>2. Edited(i, [board[i] EXCEPT !.status = status]) BY <3>1 DEF Restate
    <3>3. DOMAIN [board[i] EXCEPT !.status = status] = ItemFields BY DEF ArtInv, BoardIsKnown
    <3> QED BY <3>2, <3>3, EditingIsSound
  <2>5. CASE \E i, f \in DOMAIN board : Move(i, f)
    <3>1. PICK i \in DOMAIN board, f \in DOMAIN board : Move(i, f) BY <2>5
    <3>2. Edited(i, [board[i] EXCEPT !.parent = f]) BY <3>1 DEF Move
    <3>3. DOMAIN [board[i] EXCEPT !.parent = f] = ItemFields BY DEF ArtInv, BoardIsKnown
    <3> QED BY <3>2, <3>3, EditingIsSound
  <2>6. CASE UNCHANGED artVars
    BY <2>6 DEF artVars, ArtInv, BoardIsKnown, ReviewedAreReady, ReceiptIsKnown, IsLeafless, IsWhole, IsLastLeaf,
                OpenChildren, Leaves, Open
  <2> QED BY <2>1, <2>2, <2>3, <2>4, <2>5, <2>6 DEF ArtNext
<1>3. ArtInv => ParentIsReadyToClose
  BY ReadyIsSeen DEF ArtInv, ReviewedAreReady, ParentIsReadyToClose
<1> QED BY <1>1, <1>2, <1>3, PTL DEF ArtSpec
-----------------------------------------------------------------------------
(* PrototypeLifecycle.  A history stays lawful: the state a prototype is   *)
(* in is the one its last step entered, so the policies let only the next  *)
(* step of the ladder through; and its last event is of that state, but    *)
(* for the promotions since.                                               *)

\* What a call knows of the record it was prepared for, once it is ready.
CallIsKnown ==
    call # None =>
        /\ DOMAIN call = {"kind", "request", "reviewed", "submitted", "at", "outcome"}
        /\ \/ call.kind = "landing" /\ call.request \in Landings
           \/ call.kind = "promotion" /\ call.request \in Maturities
           \/ call.kind = "closure" /\ call.request \in Closures
        /\ call.reviewed \in DOMAIN studio
        /\ call.kind # "landing" => ItemAt(call.reviewed) # None
        /\ call.outcome = "ready" =>
             /\ call.reviewed = call.at
             /\ call.kind = "landing" => ItemAt(call.at) = None
             /\ call.kind = "promotion" => ItemAt(call.at).lifecycle = From[call.request.level]
             /\ call.kind = "closure" => ItemAt(call.at).lifecycle \in FromLifecycles[call.request.action]

PrototypeInv == IsLawful(studio, applied) /\ CallIsKnown

\* One more element.
LEMMA OneMore ==
    ASSUME NEW S, NEW s \in Seq(S), NEW x \in S
    PROVE  /\ Append(s, x) \in Seq(S) /\ Append(s, x) # <<>>
           /\ Len(s) \in Nat /\ Len(Append(s, x)) = Len(s) + 1
           /\ DOMAIN s = 1..Len(s) /\ DOMAIN Append(s, x) = 1..(Len(s) + 1)
           /\ Append(s, x)[Len(s) + 1] = x
           /\ \A i \in DOMAIN s : i \in DOMAIN Append(s, x) /\ i # Len(s) + 1 /\ Append(s, x)[i] = s[i]
OBVIOUS

\* Entered, name by name.
LEMMA EnteredIs ==
    /\ DOMAIN Entered = Beginnings \cup {"candidate", "baseline", "apply-delivery", "graduate-source", "retire-incubation"}
    /\ Entered["landing"] = "exploring" /\ Entered["reopen-incubation"] = "exploring"
    /\ Entered["candidate"] = "candidate" /\ Entered["baseline"] = "baseline-approved"
    /\ Entered["apply-delivery"] = "graduating" /\ Entered["graduate-source"] = "graduated"
    /\ Entered["retire-incubation"] = "retired"
BY DEF Entered, Beginnings

\* The ladder, rung by rung.
LEMMA LadderIs ==
    /\ Len(Ladder) = 4
    /\ Ladder[1] = "candidate" /\ Ladder[2] = "baseline"
    /\ Ladder[3] = "apply-delivery" /\ Ladder[4] = "graduate-source"
BY DEF Ladder

\* A cycle grows by the next step of the ladder, or ends.
LEMMA CycleGrows ==
    ASSUME NEW a \in Seq(AppliedSteps), NEW b \in DOMAIN a, BeginsAt(a, b), NEW x \in AppliedSteps,
           \/ x.name = "candidate" /\ Entered[a[Len(a)].name] = "exploring"
           \/ x.name = "baseline" /\ Entered[a[Len(a)].name] = "candidate"
           \/ x.name = "apply-delivery" /\ Entered[a[Len(a)].name] = "baseline-approved"
           \/ x.name = "graduate-source" /\ Entered[a[Len(a)].name] = "graduating"
           \/ x.name = "retire-incubation" /\ Entered[a[Len(a)].name] # "retired"
    PROVE  b \in DOMAIN Append(a, x) /\ BeginsAt(Append(a, x), b)
<1> DEFINE last == a[Len(a)].name
<1>1. PICK n \in Nat : n = Len(a) OBVIOUS
<1>2. b \in 1..n /\ DOMAIN a = 1..n /\ n # 0 BY <1>1
<1>3. last \in DOMAIN Entered
  <2>1. a[Len(a)] \in AppliedSteps BY <1>1, <1>2
  <2> QED BY <2>1 DEF AppliedSteps
<1>4. Entered[last] # "retired" BY EnteredIs
<1>5. last # "retire-incubation" BY <1>4, EnteredIs
<1>6. \A k \in DOMAIN a : k > b => k - b <= 4 /\ a[k].name = Ladder[k - b]
  BY <1>1, <1>2, <1>5, LadderIs DEF BeginsAt
<1>7. n > b => n - b \in 1..4 /\ last = Ladder[n - b] BY <1>1, <1>2, <1>6
<1>8. n = b => last \in Beginnings BY <1>1 DEF BeginsAt
<1>9. \/ x.name = "retire-incubation"
      \/ n + 1 - b <= 4 /\ x.name = Ladder[n + 1 - b]
  <2>1. CASE x.name = "retire-incubation" BY <2>1
  <2>2. CASE x.name = "candidate" /\ Entered[last] = "exploring"
    <3>1. last \in {"landing", "reopen-incubation"} BY <1>3, <2>2, EnteredIs DEF Beginnings
    <3>2. n = b BY <1>1, <1>2, <1>7, <3>1, LadderIs
    <3> QED BY <1>1, <1>2, <2>2, <3>2, LadderIs
  <2>3. CASE x.name = "baseline" /\ Entered[last] = "candidate"
    <3>1. last = "candidate" BY <1>3, <2>3, EnteredIs DEF Beginnings
    <3>2. n - b = 1 BY <1>1, <1>2, <1>7, <1>8, <3>1, LadderIs DEF Beginnings
    <3> QED BY <1>1, <1>2, <2>3, <3>2, LadderIs
  <2>4. CASE x.name = "apply-delivery" /\ Entered[last] = "baseline-approved"
    <3>1. last = "baseline" BY <1>3, <2>4, EnteredIs DEF Beginnings
    <3>2. n - b = 2 BY <1>1, <1>2, <1>7, <1>8, <3>1, LadderIs DEF Beginnings
    <3> QED BY <1>1, <1>2, <2>4, <3>2, LadderIs
  <2>5. CASE x.name = "graduate-source" /\ Entered[last] = "graduating"
    <3>1. last = "apply-delivery" BY <1>3, <2>5, EnteredIs DEF Beginnings
    <3>2. n - b = 3 BY <1>1, <1>2, <1>7, <1>8, <3>1, LadderIs DEF Beginnings
    <3> QED BY <1>1, <1>2, <2>5, <3>2, LadderIs
  <2> QED BY <2>1, <2>2, <2>3, <2>4, <2>5
<1>10. PICK h : h = Append(a, x) OBVIOUS
<1>11. /\ DOMAIN h = 1..(n + 1) /\ Len(h) = n + 1 /\ h[n + 1] = x
       /\ \A k \in 1..n : h[k] = a[k]
  BY <1>1, <1>10, OneMore
<1>12. h[b].name \in Beginnings BY <1>2, <1>11 DEF BeginsAt
<1>13. ASSUME NEW k \in DOMAIN h, k > b
       PROVE  \/ k - b <= Len(Ladder) /\ h[k].name = Ladder[k - b]
              \/ k = Len(h) /\ h[k].name = "retire-incubation"
  <2>1. CASE k = n + 1 BY <1>9, <1>11, <2>1, LadderIs
  <2>2. CASE k # n + 1 BY <1>1, <1>2, <1>6, <1>11, <1>13, <2>2, LadderIs
  <2> QED BY <2>1, <2>2
<1> QED BY <1>2, <1>10, <1>11, <1>12, <1>13 DEF BeginsAt

\* One more revision leaves what was carried out, and what events bind, as it was.
LEMMA RevisionKeeps ==
    ASSUME NEW s, NEW a, IsLawful(s, a), NEW rev \in StudioRevisions
    PROVE  LET t == Append(s, rev) IN
           /\ t \in Seq(StudioRevisions) /\ t # <<>> /\ Len(t) = Len(s) + 1 /\ t[Len(t)] = rev
           /\ DOMAIN s \subseteq DOMAIN t /\ \A r \in DOMAIN s : t[r] = s[r]
           /\ \A n \in DOMAIN a : {a[n].reviewed, a[n].at} \subseteq DOMAIN t /\ t[a[n].reviewed].item = t[a[n].at].item
           /\ \A item : EventsAreBound(s, item) => EventsAreBound(t, item)
<1>1. s \in Seq(StudioRevisions) BY DEF IsLawful
<1>2. PICK t : t = Append(s, rev) OBVIOUS
<1>3. /\ t \in Seq(StudioRevisions) /\ t # <<>> /\ Len(t) = Len(s) + 1 /\ t[Len(t)] = rev
      /\ DOMAIN s \subseteq DOMAIN t /\ \A r \in DOMAIN s : t[r] = s[r]
  BY <1>1, <1>2, OneMore
<1>4. \A n \in DOMAIN a : {a[n].reviewed, a[n].at} \subseteq DOMAIN s /\ s[a[n].reviewed].item = s[a[n].at].item
  BY DEF IsLawful
<1>5. \A n \in DOMAIN a : {a[n].reviewed, a[n].at} \subseteq DOMAIN t /\ t[a[n].reviewed].item = t[a[n].at].item
  <2> TAKE n \in DOMAIN a
  <2>1. a[n].reviewed \in DOMAIN s /\ a[n].at \in DOMAIN s BY <1>4
  <2> QED BY <1>3, <1>4, <2>1
<1>6. \A item : EventsAreBound(s, item) => EventsAreBound(t, item) BY <1>3 DEF EventsAreBound
<1> QED BY <1>2, <1>3, <1>5, <1>6

\* A record keeps the history lawful when it differs only where an edit may.
LEMMA EditIsLawful ==
    ASSUME NEW s, NEW a, IsLawful(s, a), NEW x, NEW source \in BOOLEAN,
           s[Len(s)].item = None => x = None,
           s[Len(s)].item # None =>
             /\ x \in Prototypes /\ x.lifecycle = s[Len(s)].item.lifecycle /\ x.custody = s[Len(s)].item.custody
             /\ x.closure = s[Len(s)].item.closure /\ x.events = s[Len(s)].item.events
    PROVE  IsLawful(Append(s, [item |-> x, source |-> source]), a)
<1>1. PICK rev : rev = [item |-> x, source |-> source] OBVIOUS
<1>2. PICK item : item = s[Len(s)].item OBVIOUS
<1>3. x \in Prototypes \cup {None} BY <1>2
<1>4. rev \in StudioRevisions /\ rev.item = x BY <1>1, <1>3 DEF StudioRevisions
<1>5. PICK t : t = Append(s, rev) OBVIOUS
<1>6. /\ t \in Seq(StudioRevisions) /\ t # <<>> /\ t[Len(t)] = rev
      /\ \A n \in DOMAIN a : {a[n].reviewed, a[n].at} \subseteq DOMAIN t /\ t[a[n].reviewed].item = t[a[n].at].item
      /\ EventsAreBound(s, x) => EventsAreBound(t, x)
  BY <1>4, <1>5, RevisionKeeps
<1>7. /\ a \in Seq(AppliedSteps) /\ (item = None <=> a = <<>>)
      /\ item # None => EventsAreBound(s, item) /\ EventsAreWhole(item) /\ IsInCycle(a, item)
  BY <1>2 DEF IsLawful
<1>8. x = None <=> item = None BY <1>2, PrototypeAssumption
<1>9. ASSUME x # None PROVE EventsAreBound(s, x) /\ EventsAreWhole(x) /\ IsInCycle(a, x)
  <2>1. /\ x.lifecycle = item.lifecycle /\ x.custody = item.custody /\ x.closure = item.closure /\ x.events = item.events
        /\ EventsAreBound(s, item) /\ EventsAreWhole(item) /\ IsInCycle(a, item)
    BY <1>2, <1>7, <1>8, <1>9
  <2>2. Custody(x) = Custody(item) /\ LastEntered(x) = LastEntered(item) BY <2>1 DEF Custody, LastEntered
  <2>3. EventsAreBound(s, x) BY <2>1 DEF EventsAreBound
  <2>4. EventsAreWhole(x) BY <2>1, <2>2 DEF EventsAreWhole
  <2>5. IsInCycle(a, x) BY <2>1 DEF IsInCycle
  <2> QED BY <2>3, <2>4, <2>5
<1>10. IsLawful(t, a) BY <1>4, <1>6, <1>7, <1>8, <1>9 DEF IsLawful
<1> QED BY <1>1, <1>5, <1>10

\* ... and after a step, when it is what the step is to enter.
LEMMA StepIsLawful ==
    ASSUME NEW s, NEW a, IsLawful(s, a), NEW x \in Prototypes, NEW source \in BOOLEAN, NEW st \in AppliedSteps,
           st.reviewed = Len(s), st.at = Len(s),
           EventsAreBound(s, x), EventsAreWhole(x), IsInCycle(Append(a, st), x)
    PROVE  IsLawful(Append(s, [item |-> x, source |-> source]), Append(a, st))
<1>1. PICK rev : rev = [item |-> x, source |-> source] OBVIOUS
<1>2. rev \in StudioRevisions /\ rev.item = x BY <1>1 DEF StudioRevisions
<1>3. PICK t : t = Append(s, rev) OBVIOUS
<1>4. PICK h : h = Append(a, st) OBVIOUS
<1>5. s \in Seq(StudioRevisions) /\ s # <<>> /\ a \in Seq(AppliedSteps) BY DEF IsLawful
<1>6. /\ t \in Seq(StudioRevisions) /\ t # <<>> /\ t[Len(t)] = rev /\ DOMAIN s \subseteq DOMAIN t
      /\ \A n \in DOMAIN a : {a[n].reviewed, a[n].at} \subseteq DOMAIN t /\ t[a[n].reviewed].item = t[a[n].at].item
      /\ EventsAreBound(t, x)
  BY <1>2, <1>3, RevisionKeeps
<1>7. /\ h \in Seq(AppliedSteps) /\ h # <<>> /\ DOMAIN h = 1..(Len(a) + 1) /\ DOMAIN a = 1..Len(a) /\ Len(a) \in Nat
      /\ h[Len(a) + 1] = st /\ \A n \in DOMAIN a : h[n] = a[n]
  BY <1>4, <1>5, OneMore
<1>8. Len(s) \in DOMAIN s BY <1>5
<1>9. \A n \in DOMAIN h : {h[n].reviewed, h[n].at} \subseteq DOMAIN t /\ t[h[n].reviewed].item = t[h[n].at].item
  <2> TAKE n \in DOMAIN h
  <2>1. CASE n = Len(a) + 1 BY <1>6, <1>7, <1>8, <2>1
  <2>2. CASE n # Len(a) + 1
    <3>1. n \in DOMAIN a /\ h[n] = a[n] BY <1>7, <2>2
    <3> QED BY <1>6, <3>1
  <2> QED BY <2>1, <2>2
<1>10. x # None BY PrototypeAssumption
<1>11. IsLawful(t, h) BY <1>2, <1>4, <1>6, <1>7, <1>9, <1>10 DEF IsLawful
<1> QED BY <1>1, <1>3, <1>4, <1>11

\* What a Landing puts into the registry.
LEMMA LandingIsLawful ==
    ASSUME NEW s, NEW a, IsLawful(s, a), s[Len(s)].item = None, NEW source \in BOOLEAN
    PROVE  IsLawful(Append(s, [item |-> Landed, source |-> source]),
                    Append(a, [name |-> "landing", reviewed |-> Len(s), at |-> Len(s)]))
<1>1. PICK st : st = [name |-> "landing", reviewed |-> Len(s), at |-> Len(s)] OBVIOUS
<1>2. s \in Seq(StudioRevisions) /\ a = <<>> BY DEF IsLawful
<1>3. st \in AppliedSteps /\ st.name = "landing" /\ st.reviewed = Len(s) /\ st.at = Len(s)
  BY <1>1, <1>2, EnteredIs DEF AppliedSteps, Beginnings
<1>4. PICK x : x = Landed OBVIOUS
<1>5. x.events = <<>> /\ x.lifecycle = "exploring" BY <1>4 DEF Landed
<1>6. x \in Prototypes
  <2>1. <<>> \in Seq(ClosureEvents) OBVIOUS
  <2> QED BY <1>4, <2>1 DEF Landed, Prototypes, Lifecycles
<1>7. EventsAreBound(s, x) /\ EventsAreWhole(x) BY <1>5 DEF EventsAreBound, EventsAreWhole
<1>8. PICK h : h = Append(a, st) OBVIOUS
<1>9. Len(h) = 1 /\ DOMAIN h = {1} /\ h[1] = st BY <1>2, <1>8
<1>10. BeginsAt(h, 1) BY <1>3, <1>9 DEF BeginsAt, Beginnings
<1>11. IsInCycle(h, x) BY <1>3, <1>5, <1>9, <1>10, EnteredIs DEF IsInCycle, Unclosed
<1> QED BY <1>1, <1>3, <1>4, <1>6, <1>7, <1>8, <1>11, StepIsLawful

\* A promotion changes the state and adds no event.
LEMMA PromotionIsLawful ==
    ASSUME NEW s, NEW a, IsLawful(s, a), s[Len(s)].item # None, NEW source \in BOOLEAN,
           NEW name \in {"candidate", "baseline"}, s[Len(s)].item.lifecycle = From[name],
           NEW x \in Prototypes, x.lifecycle = Entered[name], x.custody = s[Len(s)].item.custody,
           x.closure = s[Len(s)].item.closure, x.events = s[Len(s)].item.events
    PROVE  IsLawful(Append(s, [item |-> x, source |-> source]),
                    Append(a, [name |-> name, reviewed |-> Len(s), at |-> Len(s)]))
<1>1. PICK st : st = [name |-> name, reviewed |-> Len(s), at |-> Len(s)] OBVIOUS
<1>2. PICK item : item = s[Len(s)].item OBVIOUS
<1>3. /\ s \in Seq(StudioRevisions) /\ a \in Seq(AppliedSteps) /\ a # <<>>
      /\ EventsAreBound(s, item) /\ EventsAreWhole(item) /\ IsInCycle(a, item)
  BY <1>2 DEF IsLawful
<1>4. st \in AppliedSteps /\ st.name = name /\ st.reviewed = Len(s) /\ st.at = Len(s)
  BY <1>1, <1>3, EnteredIs DEF AppliedSteps
<1>5. /\ item.lifecycle \in {"exploring", "candidate"} /\ x.lifecycle \in {"candidate", "baseline-approved"}
      /\ name = "candidate" => item.lifecycle = "exploring"
      /\ name = "baseline" => item.lifecycle = "candidate"
  BY <1>2, EnteredIs DEF From
<1>6. EventsAreBound(s, x) BY <1>2, <1>3 DEF EventsAreBound
<1>7. LastEntered(x) = "exploring" /\ LastEntered(item) = "exploring" BY <1>5 DEF LastEntered, Unclosed
<1>8. EventsAreWhole(x)
  <2>1. Custody(x) = Custody(item) BY <1>2 DEF Custody
  <2>2. x.lifecycle # "graduated" BY <1>5
  <2> QED BY <1>2, <1>3, <1>7, <2>1, <2>2 DEF EventsAreWhole
<1>9. PICK b \in DOMAIN a : BeginsAt(a, b) /\ (item.events = <<>> <=> b = 1 /\ item.lifecycle \in Unclosed)
  BY <1>3 DEF IsInCycle
<1>10. item.lifecycle = Entered[a[Len(a)].name] BY <1>3 DEF IsInCycle
<1>11. PICK h : h = Append(a, st) OBVIOUS
<1>12. b \in DOMAIN h /\ BeginsAt(h, b) BY <1>3, <1>4, <1>5, <1>9, <1>10, <1>11, CycleGrows
<1>13. h[Len(h)] = st BY <1>3, <1>4, <1>11, OneMore
<1>14. x.events = <<>> <=> b = 1 /\ x.lifecycle \in Unclosed BY <1>2, <1>5, <1>9 DEF Unclosed
<1>15. IsInCycle(h, x) BY <1>4, <1>12, <1>13, <1>14 DEF IsInCycle
<1> QED BY <1>1, <1>4, <1>6, <1>8, <1>11, <1>15, StepIsLawful

\* A Closure step adds the event of the state it leaves and of the one it enters.
LEMMA ClosureIsLawful ==
    ASSUME NEW s, NEW a, IsLawful(s, a), s[Len(s)].item # None, NEW source \in BOOLEAN,
           NEW name \in ClosureActions, s[Len(s)].item.lifecycle \in FromLifecycles[name],
           NEW x \in Prototypes, x.lifecycle = Entered[name], x.custody \in Custodies, NEW e \in ClosureEvents,
           e.at = Len(s), e.from = <<s[Len(s)].item.lifecycle, Custody(s[Len(s)].item)>>,
           e.to = <<x.lifecycle, x.custody>>,
           x.events = Append(s[Len(s)].item.events, e), x.closure = Len(s[Len(s)].item.events) + 1
    PROVE  IsLawful(Append(s, [item |-> x, source |-> source]),
                    Append(a, [name |-> name, reviewed |-> Len(s), at |-> Len(s)]))
<1>1. PICK st : st = [name |-> name, reviewed |-> Len(s), at |-> Len(s)] OBVIOUS
<1>2. PICK item : item = s[Len(s)].item OBVIOUS
<1>3. /\ s \in Seq(StudioRevisions) /\ s # <<>> /\ a \in Seq(AppliedSteps) /\ a # <<>>
      /\ EventsAreBound(s, item) /\ EventsAreWhole(item) /\ IsInCycle(a, item)
  BY <1>2 DEF IsLawful
<1>4. st \in AppliedSteps /\ st.name = name /\ st.reviewed = Len(s) /\ st.at = Len(s)
  BY <1>1, <1>3, EnteredIs DEF AppliedSteps, ClosureActions, Beginnings
<1>5. Len(s) \in DOMAIN s BY <1>3
<1>6. item \in Prototypes
  <2>1. s[Len(s)] \in StudioRevisions BY <1>3, <1>5
  <2> QED BY <1>2, <2>1 DEF StudioRevisions
<1>7. item.events \in Seq(ClosureEvents) BY <1>6 DEF Prototypes
<1>8. PICK n \in Nat : n = Len(item.events) BY <1>7
<1>9. /\ Len(x.events) = n + 1 /\ DOMAIN x.events = 1..(n + 1) /\ x.events[n + 1] = e /\ x.events # <<>>
      /\ DOMAIN item.events = 1..n /\ \A k \in 1..n : x.events[k] = item.events[k]
  BY <1>2, <1>7, <1>8, OneMore
<1>10. EventsAreBound(s, x)
  <2> SUFFICES ASSUME NEW k \in DOMAIN x.events
               PROVE  /\ x.events[k].at \in DOMAIN s /\ s[x.events[k].at].item # None
                      /\ x.events[k].from =
                           <<s[x.events[k].at].item.lifecycle, Custody(s[x.events[k].at].item)>>
    BY DEF EventsAreBound
  <2>1. CASE k = n + 1 BY <1>5, <1>9, <2>1
  <2>2. CASE k # n + 1
    <3>1. k \in DOMAIN item.events /\ x.events[k] = item.events[k] BY <1>9, <2>2
    <3> QED BY <1>3, <3>1 DEF EventsAreBound
  <2> QED BY <2>1, <2>2
<1>11. x.custody # None /\ Custody(x) = x.custody
  BY PrototypeAssumption DEF Custody
<1>12. x.lifecycle \notin {"candidate", "baseline-approved"} BY EnteredIs DEF ClosureActions
<1>13. LastEntered(x) = x.lifecycle BY <1>12 DEF LastEntered, Unclosed
<1>14. EventsAreWhole(x) BY <1>2, <1>8, <1>9, <1>11, <1>13 DEF EventsAreWhole
<1>15. PICK h : h = Append(a, st) OBVIOUS
<1>16. /\ h \in Seq(AppliedSteps) /\ Len(h) = Len(a) + 1 /\ h[Len(h)] = st /\ Len(a) \in Nat
       /\ DOMAIN h = 1..Len(h)
  BY <1>3, <1>4, <1>15, OneMore
<1>17. IsInCycle(h, x)
  <2>1. CASE name = "reopen-incubation"
    <3>1. Len(h) \in DOMAIN h /\ Len(h) # 1 BY <1>3, <1>16
    <3>2. BeginsAt(h, Len(h)) BY <1>4, <1>16, <2>1 DEF BeginsAt, Beginnings
    <3> QED BY <1>4, <1>9, <1>16, <3>1, <3>2 DEF IsInCycle
  <2>2. CASE name # "reopen-incubation"
    <3>1. PICK b \in DOMAIN a : BeginsAt(a, b) BY <1>3 DEF IsInCycle
    <3>2. item.lifecycle = Entered[a[Len(a)].name] BY <1>3 DEF IsInCycle
    <3>3. \/ name = "apply-delivery" /\ item.lifecycle = "baseline-approved"
          \/ name = "graduate-source" /\ item.lifecycle = "graduating"
          \/ name = "retire-incubation" /\ item.lifecycle # "retired"
      BY <1>2, <2>2 DEF FromLifecycles, ClosureActions
    <3>4. b \in DOMAIN h /\ BeginsAt(h, b) BY <1>3, <1>4, <1>15, <3>1, <3>2, <3>3, CycleGrows
    <3>5. x.lifecycle \notin Unclosed BY <2>2, EnteredIs DEF ClosureActions, Unclosed
    <3> QED BY <1>4, <1>9, <1>16, <3>4, <3>5 DEF IsInCycle
  <2> QED BY <2>1, <2>2
<1> QED BY <1>1, <1>4, <1>10, <1>14, <1>15, <1>17, StepIsLawful

\* What a step makes of a prototype, field by field.
LEMMA SteppedIs ==
    ASSUME NEW item \in Prototypes, NEW r \in Nat
    PROVE  /\ \A q \in Maturities :
                LET x == Stepped("promotion", q, item, r) IN
                /\ x \in Prototypes /\ x.lifecycle = Entered[q.level] /\ x.custody = item.custody
                /\ x.closure = item.closure /\ x.events = item.events
           /\ \A q \in Closures :
                LET x == Stepped("closure", q, item, r) IN
                /\ x \in Prototypes /\ x.lifecycle = Entered[q.action] /\ x.custody \in Custodies
                /\ x.closure = Len(item.events) + 1
                /\ x.events = Append(item.events,
                     [type |-> q.action, at |-> r, from |-> <<item.lifecycle, Custody(item)>>,
                      to |-> <<x.lifecycle, x.custody>>, plan |-> q.plan])
<1>1. /\ DOMAIN item = {"lifecycle", "custody", "landed", "candidate", "candidates", "packet", "baseline", "phase",
                         "target", "retirement", "closure", "events"}
      /\ item.events \in Seq(ClosureEvents) /\ Len(item.events) \in Nat
      /\ item.candidates \in SUBSET Nat /\ item.lifecycle \in Lifecycles /\ item.custody \in Custodies \cup {None}
  BY DEF Prototypes
<1>2. Custody(item) \in Custodies BY <1>1 DEF Custody, Custodies
<1>3. ASSUME NEW q \in Maturities
      PROVE  LET x == Stepped("promotion", q, item, r) IN
             /\ x \in Prototypes /\ x.lifecycle = Entered[q.level] /\ x.custody = item.custody
             /\ x.closure = item.closure /\ x.events = item.events
  <2>1. PICK x : x = Stepped("promotion", q, item, r) OBVIOUS
  <2>2. q.level \in {"candidate", "baseline"} BY PrototypeAssumption
  <2>3. CASE q.level = "candidate"
    <3>1. x = [[[item EXCEPT !.lifecycle = "candidate"] EXCEPT !.candidate = Len(item.events)]
                 EXCEPT !.candidates = item.candidates \cup {Len(item.events)}]
      BY <1>1, <2>1, <2>3 DEF Stepped
    <3>2. PICK y : y = [item EXCEPT !.lifecycle = "candidate"] OBVIOUS
    <3>3. /\ y \in Prototypes /\ y.lifecycle = "candidate" /\ y.custody = item.custody
          /\ y.closure = item.closure /\ y.events = item.events
      BY <3>2 DEF Prototypes, Lifecycles
    <3>4. PICK z : z = [y EXCEPT !.candidate = Len(item.events)] OBVIOUS
    <3>5. /\ z \in Prototypes /\ z.lifecycle = "candidate" /\ z.custody = item.custody
          /\ z.closure = item.closure /\ z.events = item.events
      BY <1>1, <3>3, <3>4 DEF Prototypes
    <3>6. x = [z EXCEPT !.candidates = item.candidates \cup {Len(item.events)}] BY <3>1, <3>2, <3>4
    <3>7. /\ x \in Prototypes /\ x.lifecycle = "candidate" /\ x.custody = item.custody
          /\ x.closure = item.closure /\ x.events = item.events
      BY <1>1, <3>5, <3>6 DEF Prototypes
    <3> QED BY <2>1, <2>3, <3>7, EnteredIs
  <2>4. CASE q.level = "baseline"
    <3>1. x = [item EXCEPT !.lifecycle = "baseline-approved"] BY <2>1, <2>4 DEF Stepped
    <3>2. /\ x \in Prototypes /\ x.lifecycle = "baseline-approved" /\ x.custody = item.custody
          /\ x.closure = item.closure /\ x.events = item.events
      BY <3>1 DEF Prototypes, Lifecycles
    <3> QED BY <2>1, <2>4, <3>2, EnteredIs
  <2> QED BY <2>2, <2>3, <2>4
<1>4. ASSUME NEW q \in Closures, NEW lifecycle \in Lifecycles, NEW custody \in Custodies
      PROVE  LET x == Closed(item, q, r, lifecycle, custody) IN
             /\ x \in Prototypes /\ x.lifecycle = lifecycle /\ x.custody = custody
             /\ x.closure = Len(item.events) + 1
             /\ x.events = Append(item.events,
                  [type |-> q.action, at |-> r, from |-> <<item.lifecycle, Custody(item)>>,
                   to |-> <<lifecycle, custody>>, plan |-> q.plan])
  <2>1. PICK e : e = [type |-> q.action, at |-> r, from |-> <<item.lifecycle, Custody(item)>>,
                      to |-> <<lifecycle, custody>>, plan |-> q.plan]
    OBVIOUS
  <2>2. e \in ClosureEvents BY <1>1, <1>2, <2>1, PrototypeAssumption DEF ClosureEvents
  <2>3. Append(item.events, e) \in Seq(ClosureEvents) BY <1>1, <2>2
  <2>4. PICK w : w = [item EXCEPT !.lifecycle = lifecycle] OBVIOUS
  <2>5. w \in Prototypes /\ w.lifecycle = lifecycle /\ w.events = item.events BY <2>4 DEF Prototypes
  <2>6. PICK y : y = [w EXCEPT !.custody = custody] OBVIOUS
  <2>7. y \in Prototypes /\ y.lifecycle = lifecycle /\ y.custody = custody /\ y.events = item.events
    BY <2>5, <2>6 DEF Prototypes
  <2>8. PICK z : z = [y EXCEPT !.closure = Len(item.events) + 1] OBVIOUS
  <2>9. /\ z \in Prototypes /\ z.lifecycle = lifecycle /\ z.custody = custody /\ z.closure = Len(item.events) + 1
        /\ z.events = item.events
    BY <1>1, <2>7, <2>8 DEF Prototypes
  <2>10. PICK x : x = [z EXCEPT !.events = Append(item.events, e)] OBVIOUS
  <2>11. /\ x \in Prototypes /\ x.lifecycle = lifecycle /\ x.custody = custody /\ x.closure = Len(item.events) + 1
         /\ x.events = Append(item.events, e)
    BY <2>3, <2>9, <2>10 DEF Prototypes
  <2>12. x = Closed(item, q, r, lifecycle, custody)
    BY <1>1, <2>1, <2>4, <2>6, <2>8, <2>10 DEF Closed
  <2> QED BY <2>1, <2>11, <2>12
<1>5. ASSUME NEW q \in Closures
      PROVE  LET x == Stepped("closure", q, item, r) IN
             /\ x \in Prototypes /\ x.lifecycle = Entered[q.action] /\ x.custody \in Custodies
             /\ x.closure = Len(item.events) + 1
             /\ x.events = Append(item.events,
                  [type |-> q.action, at |-> r, from |-> <<item.lifecycle, Custody(item)>>,
                   to |-> <<x.lifecycle, x.custody>>, plan |-> q.plan])
  <2>1. PICK x : x = Stepped("closure", q, item, r) OBVIOUS
  <2>2. q.action \in ClosureActions BY PrototypeAssumption
  <2>3. {"exploring", "graduating", "graduated", "retired"} \subseteq Lifecycles
        /\ {"incubation-repo", "dedicated-owner-repo"} \subseteq Custodies
    BY DEF Lifecycles, Custodies
  <2>4. CASE q.action = "apply-delivery"
    <3>1. PICK y : y = Closed(item, q, r, "graduating", "incubation-repo") OBVIOUS
    <3>2. x = [y EXCEPT !.target = q.refs["accepted-delivery"]] BY <2>1, <2>4, <3>1 DEF Stepped
    <3>3. /\ y \in Prototypes /\ y.lifecycle = "graduating" /\ y.custody = "incubation-repo"
          /\ y.closure = Len(item.events) + 1
          /\ y.events = Append(item.events,
               [type |-> q.action, at |-> r, from |-> <<item.lifecycle, Custody(item)>>,
                to |-> <<"graduating", "incubation-repo">>, plan |-> q.plan])
      BY <1>4, <2>3, <3>1
    <3>4. /\ x \in Prototypes /\ x.lifecycle = y.lifecycle /\ x.custody = y.custody /\ x.closure = y.closure
          /\ x.events = y.events
      BY <2>4, <3>2, <3>3 DEF Prototypes
    <3> QED BY <2>1, <2>3, <2>4, <3>3, <3>4, EnteredIs
  <2>5. CASE q.action = "graduate-source"
    <3>1. x = Closed(item, q, r, "graduated", "dedicated-owner-repo") BY <2>1, <2>5 DEF Stepped
    <3>2. /\ x \in Prototypes /\ x.lifecycle = "graduated" /\ x.custody = "dedicated-owner-repo"
          /\ x.closure = Len(item.events) + 1
          /\ x.events = Append(item.events,
               [type |-> q.action, at |-> r, from |-> <<item.lifecycle, Custody(item)>>,
                to |-> <<"graduated", "dedicated-owner-repo">>, plan |-> q.plan])
      BY <1>4, <2>3, <3>1
    <3> QED BY <2>1, <2>3, <2>5, <3>2, EnteredIs
  <2>6. CASE q.action = "retire-incubation"
    <3>1. PICK y : y = Closed(item, q, r, "retired", Custody(item)) OBVIOUS
    <3>2. x = [y EXCEPT !.retirement = Len(item.events) + 1] BY <2>1, <2>6, <3>1 DEF Stepped
    <3>3. /\ y \in Prototypes /\ y.lifecycle = "retired" /\ y.custody = Custody(item)
          /\ y.closure = Len(item.events) + 1
          /\ y.events = Append(item.events,
               [type |-> q.action, at |-> r, from |-> <<item.lifecycle, Custody(item)>>,
                to |-> <<"retired", Custody(item)>>, plan |-> q.plan])
      BY <1>2, <1>4, <2>3, <3>1
    <3>4. /\ x \in Prototypes /\ x.lifecycle = y.lifecycle /\ x.custody = y.custody /\ x.closure = y.closure
          /\ x.events = y.events
      BY <1>1, <3>2, <3>3 DEF Prototypes
    <3> QED BY <1>2, <2>1, <2>6, <3>3, <3>4, EnteredIs
  <2>7. CASE q.action = "reopen-incubation"
    <3>1. x = Closed(item, q, r, "exploring", "incubation-repo") BY <2>1, <2>7 DEF Stepped
    <3>2. /\ x \in Prototypes /\ x.lifecycle = "exploring" /\ x.custody = "incubation-repo"
          /\ x.closure = Len(item.events) + 1
          /\ x.events = Append(item.events,
               [type |-> q.action, at |-> r, from |-> <<item.lifecycle, Custody(item)>>,
                to |-> <<"exploring", "incubation-repo">>, plan |-> q.plan])
      BY <1>4, <2>3, <3>1
    <3> QED BY <2>1, <2>3, <2>7, <3>2, EnteredIs
  <2> QED BY <2>2, <2>4, <2>5, <2>6, <2>7 DEF ClosureActions
<1> QED BY <1>3, <1>5

\* An edit by hand leaves the state of a prototype and its events alone.
LEMMA EditsAreSmall ==
    ASSUME NEW item \in Prototypes, NEW x \in Edits(item)
    PROVE  /\ x \in Prototypes /\ x.lifecycle = item.lifecycle /\ x.custody = item.custody
           /\ x.closure = item.closure /\ x.events = item.events
<1> DEFINE Same(i) == /\ i \in Prototypes /\ i.lifecycle = item.lifecycle /\ i.custody = item.custody
                      /\ i.closure = item.closure /\ i.events = item.events
<1>1. Same(item) OBVIOUS
<1>2. Same([item EXCEPT !.landed = FALSE]) BY DEF Prototypes
<1>3. Same([item EXCEPT !.candidates = {}]) BY DEF Prototypes
<1>4. Same([item EXCEPT !.packet = "repacked"]) BY DEF Prototypes
<1>5. Same([item EXCEPT !.packet = "packet", !.baseline = "baseline"])
  <2>1. PICK y : y = [item EXCEPT !.packet = "packet"] OBVIOUS
  <2>2. Same(y) BY <2>1 DEF Prototypes
  <2>3. Same([y EXCEPT !.baseline = "baseline"]) BY <2>2 DEF Prototypes
  <2>4. [item EXCEPT !.packet = "packet", !.baseline = "baseline"] = [y EXCEPT !.baseline = "baseline"]
    BY <2>1 DEF Prototypes
  <2> QED BY <2>3, <2>4
<1>6. Same([item EXCEPT !.phase = "delivery-governed"]) BY DEF Prototypes
<1>7. Same(x) BY <1>1, <1>2, <1>3, <1>4, <1>5, <1>6 DEF Edits
<1> QED BY <1>7

\* The record of a lawful history, and where its last revision is.
LEMMA LatestIs ==
    ASSUME IsLawful(studio, applied)
    PROVE  /\ Latest \in Nat /\ Latest \in DOMAIN studio /\ DOMAIN studio = 1..Latest
           /\ \A r \in DOMAIN studio : ItemAt(r) # None => ItemAt(r) \in Prototypes
<1>1. studio \in Seq(StudioRevisions) /\ studio # <<>> BY DEF IsLawful
<1>2. \A r \in DOMAIN studio : ItemAt(r) # None => ItemAt(r) \in Prototypes
  <2> TAKE r \in DOMAIN studio
  <2>1. studio[r] \in StudioRevisions BY <1>1
  <2> QED BY <2>1 DEF StudioRevisions, ItemAt
<1> QED BY <1>1, <1>2 DEF Latest

\* An answer that says ready knows what the call was prepared for.
LEMMA AnswerIsKnown ==
    ASSUME CallIsKnown, call # None, studio' = studio, NEW outcome, NEW r, Answered(outcome, r),
           outcome = "ready" =>
             /\ call.reviewed = r
             /\ call.kind = "landing" => ItemAt(r) = None
             /\ call.kind = "promotion" => ItemAt(r).lifecycle = From[call.request.level]
             /\ call.kind = "closure" => ItemAt(r).lifecycle \in FromLifecycles[call.request.action]
    PROVE  CallIsKnown'
<1>1. DOMAIN call = {"kind", "request", "reviewed", "submitted", "at", "outcome"} BY DEF CallIsKnown
<1>2. PICK c : c = call' OBVIOUS
<1>3. /\ DOMAIN c = DOMAIN call /\ c.at = r /\ c.outcome = outcome
      /\ c.kind = call.kind /\ c.request = call.request /\ c.reviewed = call.reviewed
  BY <1>1, <1>2 DEF Answered
<1> QED BY <1>2, <1>3 DEF CallIsKnown, ItemAt

\* The steps of a call.
LEMMA CallsStayKnown ==
    ASSUME PrototypeInv,
           \/ \E l \in Landings : Prepare("landing", l)
           \/ \E m \in Maturities : Prepare("promotion", m)
           \/ \E q \in Closures : Prepare("closure", q)
           \/ Submit \/ EvaluateLanding \/ EvaluatePromotion \/ SnapshotSource \/ EvaluateClosure \/ Drop
    PROVE  PrototypeInv'
<1>1. studio' = studio /\ applied' = applied
  BY DEF Prepare, Submit, EvaluateLanding, EvaluatePromotion, SnapshotSource, EvaluateClosure, Drop
<1>2. IsLawful(studio, applied)' BY <1>1 DEF PrototypeInv
<1>3. IsLawful(studio, applied) /\ CallIsKnown BY DEF PrototypeInv
<1>4. Latest \in DOMAIN studio BY <1>3, LatestIs
<1>5. ASSUME NEW kind, NEW request, Prepare(kind, request),
             \/ kind = "landing" /\ request \in Landings
             \/ kind = "promotion" /\ request \in Maturities
             \/ kind = "closure" /\ request \in Closures
      PROVE  CallIsKnown'
  <2>1. PICK c : c = call' OBVIOUS
  <2>2. /\ c = [kind |-> kind, request |-> request, reviewed |-> Latest, submitted |-> None, at |-> None,
                outcome |-> None]
        /\ kind # "landing" => ItemAt(Latest) # None
    BY <1>5, <2>1 DEF Prepare
  <2>3. c.outcome # "ready" BY <2>2, PrototypeAssumption
  <2> QED BY <1>1, <1>4, <1>5, <2>1, <2>2, <2>3 DEF CallIsKnown, ItemAt
<1>6. CASE Submit
  <2>1. PICK c : c = call' OBVIOUS
  <2>2. call # None /\ c = [call EXCEPT !.submitted = Latest] BY <1>6, <2>1 DEF Submit
  <2>3. /\ DOMAIN c = DOMAIN call /\ c.at = call.at /\ c.outcome = call.outcome
        /\ c.kind = call.kind /\ c.request = call.request /\ c.reviewed = call.reviewed
    BY <1>3, <2>2 DEF CallIsKnown
  <2>4. CallIsKnown' BY <1>1, <1>3, <2>1, <2>2, <2>3 DEF CallIsKnown, ItemAt
  <2> QED BY <1>2, <2>4 DEF PrototypeInv
<1>7. CASE EvaluateLanding
  <2>1. /\ call # None /\ call.kind = "landing"
        /\ Answered(Judged(LandingHolds(call.request, call.reviewed, Latest), LandingIsFresh(call, Latest)), Latest)
    BY <1>7 DEF EvaluateLanding, Arrived
  <2>2. PICK outcome :
          outcome = Judged(LandingHolds(call.request, call.reviewed, Latest), LandingIsFresh(call, Latest))
    OBVIOUS
  <2>3. outcome = "ready" => LandingIsFresh(call, Latest) BY <2>2 DEF Judged
  <2>4. outcome = "ready" => call.reviewed = Latest /\ ItemAt(Latest) = None BY <2>3 DEF LandingIsFresh
  <2>5. CallIsKnown' BY <1>1, <1>3, <2>1, <2>2, <2>4, AnswerIsKnown
  <2> QED BY <1>2, <2>5 DEF PrototypeInv
<1>8. CASE EvaluatePromotion
  <2>1. /\ call # None /\ call.kind = "promotion"
        /\ Answered(Judged(PromotionHolds(call.request, call, Latest), PromotionIsFresh(call.request, call, Latest)),
                    Latest)
    BY <1>8 DEF EvaluatePromotion, Arrived
  <2>2. PICK outcome :
          outcome = Judged(PromotionHolds(call.request, call, Latest), PromotionIsFresh(call.request, call, Latest))
    OBVIOUS
  <2>3. outcome = "ready" => PromotionHolds(call.request, call, Latest) /\ PromotionIsFresh(call.request, call, Latest)
    BY <2>2 DEF Judged
  <2>4. outcome = "ready" => call.reviewed = Latest /\ ItemAt(Latest).lifecycle = From[call.request.level]
    BY <2>3 DEF PromotionIsFresh, PromotionHolds
  <2>5. CallIsKnown' BY <1>1, <1>3, <2>1, <2>2, <2>4, AnswerIsKnown
  <2> QED BY <1>2, <2>5 DEF PrototypeInv
<1>9. CASE SnapshotSource
  <2>1. call # None /\ \E outcome \in {None, "unavailable"} : Answered(outcome, Latest)
    BY <1>9 DEF SnapshotSource, Arrived
  <2>2. PICK outcome \in {None, "unavailable"} : Answered(outcome, Latest) BY <2>1
  <2>3. outcome # "ready" BY PrototypeAssumption
  <2>4. CallIsKnown' BY <1>1, <1>3, <2>1, <2>2, <2>3, AnswerIsKnown
  <2> QED BY <1>2, <2>4 DEF PrototypeInv
<1>10. CASE EvaluateClosure
  <2>1. call # None /\ call.kind = "closure" BY <1>10 DEF EvaluateClosure, Arrived
  <2>2. PICK how : \/ Answered(Judged(ClosureHolds(call.request, call, call.at, how), ClosureIsFresh(call, call.at)),
                               call.at)
                   \/ Answered("unavailable", call.at)
    BY <1>10, Zenon DEF EvaluateClosure
  <2>3. CASE Answered("unavailable", call.at)
    <3>1. CallIsKnown' BY <1>1, <1>3, <2>1, <2>3, AnswerIsKnown
    <3> QED BY <1>2, <3>1 DEF PrototypeInv
  <2>4. CASE Answered(Judged(ClosureHolds(call.request, call, call.at, how), ClosureIsFresh(call, call.at)), call.at)
    <3>1. PICK outcome :
            outcome = Judged(ClosureHolds(call.request, call, call.at, how), ClosureIsFresh(call, call.at))
      OBVIOUS
    <3>2. outcome = "ready" => ClosureHolds(call.request, call, call.at, how) /\ ClosureIsFresh(call, call.at)
      BY <3>1 DEF Judged
    <3>3. outcome = "ready" =>
            call.reviewed = call.at /\ ItemAt(call.at).lifecycle \in FromLifecycles[call.request.action]
      BY <3>2 DEF ClosureHolds, ClosureIsFresh
    <3>4. CallIsKnown' BY <1>1, <1>3, <2>1, <2>4, <3>1, <3>3, AnswerIsKnown
    <3> QED BY <1>2, <3>4 DEF PrototypeInv
  <2> QED BY <2>2, <2>3, <2>4
<1>11. CASE Drop
  <2>1. CallIsKnown' BY <1>11 DEF Drop, CallIsKnown
  <2> QED BY <1>2, <2>1 DEF PrototypeInv
<1>12. CASE \/ \E l \in Landings : Prepare("landing", l)
            \/ \E m \in Maturities : Prepare("promotion", m)
            \/ \E q \in Closures : Prepare("closure", q)
  <2>1. CallIsKnown' BY <1>5, <1>12
  <2> QED BY <1>2, <2>1 DEF PrototypeInv
<1> QED BY <1>6, <1>7, <1>8, <1>9, <1>10, <1>11, <1>12

\* What is edited by hand stays lawful, and a call still knows what it was prepared for.
LEMMA EditingStaysLawful == ASSUME PrototypeInv, Edit PROVE PrototypeInv'
<1>1. IsLawful(studio, applied) /\ CallIsKnown BY DEF PrototypeInv
<1>2. PICK item : item = ItemAt(Latest) OBVIOUS
<1>3. /\ Latest \in DOMAIN studio /\ DOMAIN studio = 1..Latest /\ Latest \in Nat /\ Latest = Len(studio)
      /\ item # None => item \in Prototypes
  BY <1>1, <1>2, LatestIs DEF Latest
<1>4. \E x, source \in {TRUE, FALSE, ~studio[Latest].source, studio[Latest].source} : TRUE OBVIOUS
<1>5. studio[Latest].source \in BOOLEAN
  <2>1. studio \in Seq(StudioRevisions) BY <1>1 DEF IsLawful
  <2>2. studio[Latest] \in StudioRevisions BY <1>3, <2>1
  <2> QED BY <2>2 DEF StudioRevisions
<1>6. PICK x : \E source \in BOOLEAN :
        /\ studio' = Append(studio, [item |-> x, source |-> source])
        /\ item = None => x = None
        /\ item # None => x \in Edits(item)
  <2>1. CASE item = None /\ Grow(None, ~studio[Latest].source) BY <1>5, <2>1 DEF Grow
  <2>2. CASE item # None /\ \E y \in Edits(item) : Grow(y, studio[Latest].source) BY <1>5, <2>2 DEF Grow
  <2> QED BY <1>2, <2>1, <2>2 DEF Edit
<1>7. PICK source \in BOOLEAN : studio' = Append(studio, [item |-> x, source |-> source]) BY <1>6
<1>8. item # None => /\ x \in Prototypes /\ x.lifecycle = item.lifecycle /\ x.custody = item.custody
                     /\ x.closure = item.closure /\ x.events = item.events
  BY <1>3, <1>6, EditsAreSmall
<1>9. item = studio[Len(studio)].item BY <1>2, <1>3 DEF ItemAt
<1>10. IsLawful(Append(studio, [item |-> x, source |-> source]), applied)
  BY <1>1, <1>6, <1>8, <1>9, EditIsLawful
<1>11. applied' = applied /\ call' = call BY DEF Edit
<1>12. IsLawful(studio, applied)' BY <1>7, <1>10, <1>11
<1>13. DOMAIN studio \subseteq DOMAIN studio' /\ \A r \in DOMAIN studio : studio'[r] = studio[r]
  <2>1. [item |-> x, source |-> source] \in StudioRevisions BY <1>6, <1>8 DEF StudioRevisions
  <2> QED BY <1>1, <1>7, <2>1, RevisionKeeps
<1>14. CallIsKnown'
  <2>1. CASE call = None BY <1>11, <2>1 DEF CallIsKnown
  <2>2. CASE call # None
    <3>1. /\ call.reviewed \in DOMAIN studio /\ studio'[call.reviewed] = studio[call.reviewed]
          /\ call.outcome = "ready" => call.at = call.reviewed
      BY <1>1, <1>13, <2>2 DEF CallIsKnown
    <3> QED BY <1>1, <1>11, <1>13, <2>2, <3>1 DEF CallIsKnown, ItemAt
  <2> QED BY <2>1, <2>2
<1> QED BY <1>12, <1>14 DEF PrototypeInv

\* A step that is carried out is one of the ladder, or ends a cycle, or begins one.
LEMMA ApplyingStaysLawful == ASSUME PrototypeInv, Apply PROVE PrototypeInv'
<1>1. IsLawful(studio, applied) /\ CallIsKnown BY DEF PrototypeInv
<1>2. PICK item : item = ItemAt(Latest) OBVIOUS
<1>3. PICK c : c = call OBVIOUS
<1>4. /\ Latest \in DOMAIN studio /\ Latest \in Nat /\ Latest = Len(studio) /\ item = studio[Len(studio)].item
      /\ item # None => item \in Prototypes
  BY <1>1, <1>2, LatestIs DEF Latest, ItemAt
<1>5. /\ c # None /\ c.outcome = "ready" /\ c.at = Latest /\ c.reviewed = Latest
      /\ c.kind # "landing" => item # None
      /\ c.kind = "landing" => item = None
      /\ c.kind = "promotion" => item.lifecycle = From[c.request.level]
      /\ c.kind = "closure" => item.lifecycle \in FromLifecycles[c.request.action]
      /\ \/ c.kind = "landing" /\ c.request \in Landings
         \/ c.kind = "promotion" /\ c.request \in Maturities
         \/ c.kind = "closure" /\ c.request \in Closures
  BY <1>1, <1>2, <1>3 DEF Apply, CallIsKnown
<1>6. PICK x : x = Stepped(c.kind, c.request, item, Latest) OBVIOUS
<1>7. PICK name : name = Name(c.kind, c.request) OBVIOUS
<1>8. PICK source \in BOOLEAN : studio' = Append(studio, [item |-> x, source |-> source])
  <2>1. studio' = Append(studio, [item |-> x, source |-> c.kind = "landing" \/ studio[Latest].source])
    BY <1>2, <1>3, <1>5, <1>6 DEF Apply, Grow
  <2>2. (c.kind = "landing" \/ studio[Latest].source) \in BOOLEAN OBVIOUS
  <2> QED BY <2>1, <2>2
<1>9. applied' = Append(applied, [name |-> name, reviewed |-> Len(studio), at |-> Len(studio)])
  BY <1>3, <1>4, <1>5, <1>7 DEF Apply
<1>10. IsLawful(Append(studio, [item |-> x, source |-> source]),
                Append(applied, [name |-> name, reviewed |-> Len(studio), at |-> Len(studio)]))
  <2>1. CASE c.kind = "landing"
    <3>1. x = Landed /\ name = "landing" BY <1>6, <1>7, <2>1 DEF Stepped, Name
    <3> QED BY <1>1, <1>4, <1>5, <2>1, <3>1, LandingIsLawful
  <2>2. CASE c.kind = "promotion"
    <3>1. c.request \in Maturities /\ c.request.level \in {"candidate", "baseline"}
      BY <1>5, <2>2, PrototypeAssumption
    <3>2. name = c.request.level BY <1>7, <2>2 DEF Name
    <3>3. /\ x \in Prototypes /\ x.lifecycle = Entered[name] /\ x.custody = item.custody
          /\ x.closure = item.closure /\ x.events = item.events
      BY <1>4, <1>5, <1>6, <2>2, <3>1, <3>2, SteppedIs
    <3> QED BY <1>1, <1>4, <1>5, <2>2, <3>1, <3>2, <3>3, PromotionIsLawful
  <2>3. CASE c.kind = "closure"
    <3>1. c.request \in Closures /\ c.request.action \in ClosureActions BY <1>5, <2>3, PrototypeAssumption
    <3>2. name = c.request.action BY <1>7, <2>3 DEF Name
    <3>3. PICK e : e = [type |-> name, at |-> Latest, from |-> <<item.lifecycle, Custody(item)>>,
                        to |-> <<x.lifecycle, x.custody>>, plan |-> c.request.plan]
      OBVIOUS
    <3>4. /\ x \in Prototypes /\ x.lifecycle = Entered[name] /\ x.custody \in Custodies
          /\ x.closure = Len(item.events) + 1 /\ x.events = Append(item.events, e)
      BY <1>4, <1>5, <1>6, <2>3, <3>1, <3>2, <3>3, SteppedIs
    <3>5. e \in ClosureEvents
      <4>1. item.lifecycle \in Lifecycles /\ Custody(item) \in Custodies /\ x.lifecycle \in Lifecycles
        BY <1>4, <1>5, <2>3, <3>4 DEF Prototypes, Custody, Custodies
      <4> QED BY <1>4, <3>1, <3>2, <3>3, <3>4, <4>1, PrototypeAssumption DEF ClosureEvents
    <3>6. e.at = Len(studio) /\ e.from = <<item.lifecycle, Custody(item)>> /\ e.to = <<x.lifecycle, x.custody>>
      BY <1>4, <3>3
    <3> QED BY <1>1, <1>4, <1>5, <2>3, <3>1, <3>2, <3>4, <3>5, <3>6, ClosureIsLawful
  <2> QED BY <1>5, <2>1, <2>2, <2>3
<1>11. IsLawful(studio, applied)' BY <1>8, <1>9, <1>10
<1>12. CallIsKnown' BY DEF Apply, CallIsKnown
<1> QED BY <1>11, <1>12 DEF PrototypeInv

\* The last cycle, when it is known where it begins.
LEMMA CycleIs ==
    ASSUME applied \in Seq(AppliedSteps), NEW b \in DOMAIN applied, BeginsAt(applied, b)
    PROVE  /\ Len(Cycle) = Len(applied) - b /\ DOMAIN Cycle = 1..(Len(applied) - b)
           /\ \A n \in 1..(Len(applied) - b) : Cycle[n] = applied[b + n]
           /\ Cycle # <<>> <=> b # Len(applied)
<1>1. PICK m \in Nat : m = Len(applied) OBVIOUS
<1>2. DOMAIN applied = 1..m /\ b \in 1..m BY <1>1
<1>3. \A k \in 1..m : k > b => applied[k].name \notin Beginnings
  <2> TAKE k \in 1..m
  <2>1. ASSUME k > b PROVE applied[k].name \in {"candidate", "baseline", "apply-delivery", "graduate-source",
                                                "retire-incubation"}
    <3>1. CASE applied[k].name = "retire-incubation" BY <3>1
    <3>2. CASE applied[k].name # "retire-incubation"
      <4>1. k - b <= 4 /\ applied[k].name = Ladder[k - b] BY <1>2, <2>1, <3>2, LadderIs DEF BeginsAt
      <4>2. k - b = 1 \/ k - b = 2 \/ k - b = 3 \/ k - b = 4 BY <1>2, <2>1, <4>1
      <4> QED BY <4>1, <4>2, LadderIs
    <3> QED BY <3>1, <3>2
  <2> QED BY <2>1 DEF Beginnings
<1> DEFINE IsBegin(n) ==
             /\ applied[n].name \in {"landing", "reopen-incubation"}
             /\ \A k \in DOMAIN applied : applied[k].name \in {"landing", "reopen-incubation"} => k <= n
           begin == CHOOSE n \in DOMAIN applied : IsBegin(n)
<1>4. IsBegin(b) BY <1>2, <1>3 DEF BeginsAt, Beginnings
<1>5. begin \in DOMAIN applied /\ IsBegin(begin) BY <1>4
<1>6. begin = b BY <1>2, <1>4, <1>5
<1>7. Cycle = SubSeq(applied, begin + 1, Len(applied)) BY Zenon DEF Cycle
<1> HIDE DEF begin, IsBegin
<1>8. Cycle = SubSeq(applied, b + 1, m) BY <1>1, <1>6, <1>7
<1> QED BY <1>1, <1>2, <1>8

\* What the invariant says of the steps and of the Closure authority.
LEMMA LawfulIsReviewed ==
    ASSUME IsLawful(studio, applied) PROVE StepsAreReviewed /\ ClosureIsReadable
<1>1. PICK item : item = ItemAt(Latest) OBVIOUS
<1>2. /\ applied \in Seq(AppliedSteps) /\ studio \in Seq(StudioRevisions) /\ (item = None <=> applied = <<>>)
      /\ item # None => EventsAreBound(studio, item) /\ EventsAreWhole(item) /\ IsInCycle(applied, item)
  BY <1>1 DEF IsLawful, ItemAt, Latest
<1>3. \A n \in DOMAIN applied : ItemAt(applied[n].reviewed) = ItemAt(applied[n].at) BY DEF IsLawful, ItemAt
<1>4. SUFFICES ASSUME item # None
               PROVE  /\ \A n \in DOMAIN Cycle :
                            \/ n <= Len(Ladder) /\ Cycle[n].name = Ladder[n]
                            \/ n = Len(Cycle) /\ Cycle[n].name = "retire-incubation"
                      /\ ~Readable(Latest) <=> /\ Len(Cycle) < Len(applied) - 1
                                               /\ Cycle # <<>> /\ Cycle[Len(Cycle)].name \in {"candidate", "baseline"}
  BY <1>1, <1>2, <1>3 DEF StepsAreReviewed, ClosureIsReadable
<1>5. PICK b \in DOMAIN applied : BeginsAt(applied, b) /\ (item.events = <<>> <=> b = 1 /\ item.lifecycle \in Unclosed)
  BY <1>2, <1>4 DEF IsInCycle
<1>6. PICK m \in Nat : m = Len(applied) BY <1>2
<1>7. DOMAIN applied = 1..m /\ b \in 1..m BY <1>2, <1>5, <1>6
<1>8. PICK cycle : cycle = Cycle OBVIOUS
<1>9. /\ Len(cycle) = m - b /\ DOMAIN cycle = 1..(m - b) /\ \A n \in 1..(m - b) : cycle[n] = applied[b + n]
      /\ cycle # <<>> <=> b # Len(applied)
  BY <1>2, <1>5, <1>6, <1>8, CycleIs
<1>10. ASSUME NEW n \in DOMAIN cycle
       PROVE  \/ n <= Len(Ladder) /\ cycle[n].name = Ladder[n]
              \/ n = Len(cycle) /\ cycle[n].name = "retire-incubation"
  <2>1. PICK k : k = b + n OBVIOUS
  <2>2. k \in 1..m /\ k > b /\ k - b = n /\ cycle[n] = applied[k] BY <1>7, <1>9, <2>1
  <2>3. \/ k - b <= Len(Ladder) /\ applied[k].name = Ladder[k - b]
        \/ k = Len(applied) /\ applied[k].name = "retire-incubation"
    BY <1>5, <1>7, <2>2 DEF BeginsAt
  <2> QED BY <1>6, <1>7, <1>9, <2>2, <2>3
<1>11. PICK last : last = applied[m].name OBVIOUS
<1>12. item.lifecycle = Entered[last] /\ last \in DOMAIN Entered
  <2>1. applied[m] \in AppliedSteps BY <1>2, <1>6, <1>7
  <2> QED BY <1>2, <1>4, <1>6, <1>11, <2>1 DEF AppliedSteps, IsInCycle
<1>13. last \in {"candidate", "baseline"} <=> item.lifecycle \in {"candidate", "baseline-approved"}
  BY <1>12, EnteredIs DEF Beginnings
<1>14. /\ Len(cycle) < Len(applied) - 1 <=> b # 1
       /\ cycle # <<>> <=> b # m
       /\ b # m => cycle[Len(cycle)].name = last
       /\ b = m => last \notin {"candidate", "baseline"}
  <2>1. Len(cycle) < Len(applied) - 1 <=> b # 1 BY <1>6, <1>7, <1>9
  <2>2. cycle # <<>> <=> b # m BY <1>6, <1>9
  <2>3. b # m => cycle[Len(cycle)].name = last BY <1>7, <1>9, <1>11
  <2>4. b = m => last \notin {"candidate", "baseline"} BY <1>5, <1>11 DEF BeginsAt, Beginnings
  <2> QED BY <2>1, <2>2, <2>3, <2>4
<1>15. Readable(Latest) <=> item.events = <<>> \/ item.lifecycle \notin {"candidate", "baseline-approved"}
  <2>1. /\ item.lifecycle = "graduated" => item.custody # None
        /\ \A n \in DOMAIN item.events :
              LET e == item.events[n] IN
              e.at <= Latest /\ ItemAt(e.at) # None /\ e.from = <<ItemAt(e.at).lifecycle, Custody(ItemAt(e.at))>>
    <3>1. DOMAIN studio = 1..Latest /\ Latest \in Nat BY <1>2 DEF Latest
    <3> QED BY <1>2, <1>4, <3>1 DEF EventsAreBound, EventsAreWhole, ItemAt
  <2>2. CASE item.events = <<>> BY <1>1, <2>1, <2>2 DEF Readable
  <2>3. CASE item.events # <<>>
    <3>1. /\ item.closure = Len(item.events)
          /\ item.events[Len(item.events)].to = <<LastEntered(item), Custody(item)>>
      BY <1>2, <1>4, <2>3 DEF EventsAreWhole
    <3>2. LastEntered(item) = item.lifecycle <=> item.lifecycle \notin {"candidate", "baseline-approved"}
      BY DEF LastEntered, Unclosed
    <3>3. Readable(Latest) <=> item.events[Len(item.events)].to = <<item.lifecycle, Custody(item)>>
      BY <1>1, <2>1, <2>3, <3>1 DEF Readable
    <3> QED BY <2>3, <3>1, <3>2, <3>3
  <2> QED BY <2>2, <2>3
<1>16. item.lifecycle \in {"candidate", "baseline-approved"} => (item.events = <<>> <=> b = 1) BY <1>5 DEF Unclosed
<1> QED BY <1>8, <1>10, <1>13, <1>14, <1>15, <1>16

\* The invariant holds of every behaviour.
LEMMA PrototypeIsLawful == PrototypeSpec => []PrototypeInv
<1>1. PrototypeInit => PrototypeInv
  <2> SUFFICES ASSUME PrototypeInit PROVE PrototypeInv OBVIOUS
  <2>1. IsLawful(studio, applied) BY PrototypeAssumption DEF PrototypeInit
  <2>2. CallIsKnown BY DEF PrototypeInit, CallIsKnown
  <2> QED BY <2>1, <2>2 DEF PrototypeInv
<1>2. PrototypeInv /\ [PrototypeNext]_prototypeVars => PrototypeInv'
  <2> SUFFICES ASSUME PrototypeInv, [PrototypeNext]_prototypeVars PROVE PrototypeInv' OBVIOUS
  <2>1. CASE UNCHANGED prototypeVars
    BY <2>1 DEF prototypeVars, PrototypeInv, CallIsKnown, ItemAt
  <2>2. CASE PrototypeNext
    BY <2>2, CallsStayKnown, EditingStaysLawful, ApplyingStaysLawful DEF PrototypeNext
  <2> QED BY <2>1, <2>2
<1> QED BY <1>1, <1>2, PTL DEF PrototypeSpec

\* Every step is carried out on the record its requester reviewed, and the steps of a cycle climb the
\* ladder one by one (prototype_landing.py, prototype_maturity.py, prototype_closure.py), for any
\* requests, packets, edits and answers of the owners.
THEOREM StepsCorrect == PrototypeSpec => []StepsAreReviewed
<1>1. PrototypeInv => StepsAreReviewed BY LawfulIsReviewed DEF PrototypeInv
<1> QED BY <1>1, PrototypeIsLawful, PTL

\* The Closure authority refuses to read a prototype exactly when it was promoted after a reopening
\* (prototype_closure_authority.py).
THEOREM ReadableCorrect == PrototypeSpec => []ClosureIsReadable
<1>1. PrototypeInv => ClosureIsReadable BY LawfulIsReviewed DEF PrototypeInv
<1> QED BY <1>1, PrototypeIsLawful, PTL
=============================================================================
