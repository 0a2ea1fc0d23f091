SPECIFICATION Spec
CONSTANTS
    post = post
    comment = comment
    x = x
    y = y
    None = None
    Targets = {post, comment}
    Home <- MCHome
    Author <- MCAuthor
    Voters = {x, y}
    Actors = {r}
    Writers = {w1, w2, w3}
    MaxRequests = 3
    MaxChanges = 1
SYMMETRY Interchangeable
CHECK_DEADLOCK FALSE
INVARIANTS
    ScoreExplained
    NoLockCycle
PROPERTIES
    ClicksAreSerial
    LikeCountsAll
    AnnouncedIffPublic
