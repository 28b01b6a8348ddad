CONSTANTS
    packet = packet
    rival = rival
    revision = revision
    rivalRevision = rivalRevision
    other = other
    mixed = mixed
    subjectA = subjectA
    subjectB = subjectB
    None = None
    Foreign = Foreign
    Workers = {w1, w2}
    Contents = {packet, rival, revision, rivalRevision, other, mixed}
    Subjects = {subjectA, subjectB}
    SubjectOf <- MCSubjectOf
    Supersedes <- MCSupersedes
    Times = {0}
    MaxCalls = 4
    MaxVersions = 0
    Operations = {"register"}
SPECIFICATION Spec
INVARIANTS OneChainPerSubject CallsAreSound
PROPERTIES ConflictIsReal ImplementsCustodyChain
SYMMETRY WorkerSymmetry
CHECK_DEADLOCK FALSE
