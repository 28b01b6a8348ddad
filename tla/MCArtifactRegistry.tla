------------------------- MODULE MCArtifactRegistry -------------------------
(***************************************************************************)
(* A small registry for TLC: one subject with two rival first contents,    *)
(* two rival successors of one of them and a content whose reference       *)
(* mixes the URI of one content with the digest of another, and a second   *)
(* subject.                                                                *)
(***************************************************************************)
EXTENDS ArtifactRegistry, TLC

CONSTANTS packet, rival, revision, rivalRevision, other, mixed
CONSTANTS subjectA, subjectB

MCSubjectOf == [c \in Contents |-> IF c = other THEN subjectB ELSE subjectA]

MCSupersedes == [c \in Contents |->
    CASE c \in {packet, rival, other} -> None
      [] c \in {revision, rivalRevision} -> [uri |-> packet, digest |-> packet]
      [] c = mixed -> [uri |-> packet, digest |-> revision]]

WorkerSymmetry == Permutations(Workers)
=============================================================================
