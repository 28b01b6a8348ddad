CONSTANTS
    packet = packet
    rival = rival
    revision = revision
    rivalRevision = rivalRevision
    other = other
    mixed = mixed
    subjectA = subjectA
    subjectB = subjectB
    None = None
    Foreign = Foreign
    Workers = {w1, w2}
    Contents = {packet, revision}
    Subjects = {subjectA, subjectB}
    SubjectOf <- MCSubjectOf
    Supersedes <- MCSupersedes
    Times = {0, 5}
    MaxCalls = 3
    MaxVersions = 2
    Operations = {"register", "read", "reconcile"}
SPECIFICATION Spec
INVARIANTS CommittedIsReadable AnswersAreRecorded
SYMMETRY WorkerSymmetry
CHECK_DEADLOCK FALSE
