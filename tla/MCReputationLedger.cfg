SPECIFICATION Spec
CONSTANTS
    supported = supported
    refuted = refuted
    w1 = w1
    w2 = w2
    Nobody = Nobody
    Participants = {author}
    Writers = {w1, w2}
    Events = {supported, refuted}
    Base <- MCBase
    Stakes <- MCStakes
    Baseline = 8
    Cap = 6
    HalfDay = 2
    MaxEvents = 3
    MaxClock = 5
SYMMETRY Interchangeable
CHECK_DEADLOCK FALSE
INVARIANTS
    ScoreExplained
    LockedScoreIsCurrent
    CapKept
    ReplayAgrees
