CONSTANTS
    packet = packet
    rival = rival
    revision = revision
    rivalRevision = rivalRevision
    other = other
    mixed = mixed
    subjectA = subjectA
    subjectB = subjectB
    None = None
    Foreign = Foreign
    Workers = {w1, w2}
    Contents = {packet}
    Subjects = {subjectA, subjectB}
    SubjectOf <- MCSubjectOf
    Supersedes <- MCSupersedes
    Times = {0}
    MaxCalls = 2
    MaxVersions = 0
    Operations = {"register"}
SPECIFICATION Spec

PROPERTIES RetryIsReused
SYMMETRY WorkerSymmetry
CHECK_DEADLOCK FALSE
