---------------------------- MODULE CustodyChain ----------------------------
(***************************************************************************)
(* What the Delivery ART artifact registry promises its callers.           *)
(*                                                                         *)
(* Every subject (one Delivery, artifact type and artifact id) owns one    *)
(* chain of contents.  A chain only grows, one content at a time, and a    *)
(* new content extends it only when it names the chain's current end.      *)
(* A content is acknowledged to a caller only once it is in its chain.     *)
(***************************************************************************)
EXTENDS Naturals

CONSTANTS
    Contents,    \* the canonical artifact bodies, one per content digest
    SubjectOf,   \* the subject a body declares
    Supersedes,  \* the reference in its custody.supersedes, or None
    None

VARIABLES
    generation,  \* position of a content in its subject's chain, 0 when absent
    acknowledged \* the contents some caller was told are durable

chainVars == <<generation, acknowledged>>

Init ==
    /\ generation = [c \in Contents |-> 0]
    /\ acknowledged = {}

Members(s) == {c \in Contents : SubjectOf[c] = s /\ generation[c] # 0}

\* c is the last content of the chain of subject s.
IsEnd(c, s) == c \in Members(s) /\ \A d \in Members(s) : generation[d] <= generation[c]

Begin(c) ==
    /\ Members(SubjectOf[c]) = {}
    /\ Supersedes[c] = None
    /\ generation' = [generation EXCEPT ![c] = 1]
    /\ UNCHANGED acknowledged

Extend(c) ==
    /\ generation[c] = 0
    /\ \E end \in Contents :
          /\ IsEnd(end, SubjectOf[c])
          /\ Supersedes[c] = [uri |-> end, digest |-> end]
          /\ generation' = [generation EXCEPT ![c] = generation[end] + 1]
    /\ UNCHANGED acknowledged

Acknowledge(c) ==
    /\ generation[c] # 0
    /\ acknowledged' = acknowledged \cup {c}
    /\ UNCHANGED generation

Next == \E c \in Contents : Begin(c) \/ Extend(c) \/ Acknowledge(c)

Spec == Init /\ [][Next]_chainVars
=============================================================================
