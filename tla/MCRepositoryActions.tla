------------------------ MODULE MCRepositoryActions -------------------------
(* Two owners; a target that is in scope, one that is not, and a personal one asked for as *)
(* internal; every disposition of an impact, and one whose counts do not add up; references *)
(* that are clean, or one of which carries a credential.                                   *)
EXTENDS RepositoryActions

MCOwners == {"a", "b"}

Place(provider, scope, visibility) ==
    [provider |-> provider, host |-> "github.com", scope |-> scope, visibility |-> visibility]

MCTargets ==
    {Place("github", "organization", "internal"), Place("other", "organization", "private"),
     Place("github", "personal", "internal")}

Assessment(findings, blocking, disposition) ==
    [findings |-> findings, blocking |-> blocking, disposition |-> disposition]

MCAssessments ==
    {Assessment(1, 0, None), Assessment(1, 1, "accept-risk"), Assessment(1, 1, "defer"), Assessment(0, 1, "accept-risk")}

MCFlaws == {{}, {"operator"}, {"policy"}}
=============================================================================
