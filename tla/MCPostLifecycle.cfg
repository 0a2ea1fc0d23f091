SPECIFICATION Spec
CONSTANTS
    NoComment = NoComment
    NoPost = NoPost
    Posts = {p1, p2}
    Comments = {k1}
    Verifiers = {v1, v2}
    Clients = {c1, c2}
    MaxRequests = 5
    MaxGates = 2
SYMMETRY Interchangeable
CHECK_DEADLOCK FALSE
INVARIANTS
    EachReleaseAnnounced
    SealKept
    EditsKeepHistory
    AnsweredMeansAccepted
