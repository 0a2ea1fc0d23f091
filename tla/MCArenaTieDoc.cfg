\* The comment of CastVote on tied rounds.
SPECIFICATION Spec
CONSTANTS
    b1 = b1
    b2 = b2
    x = x
    y = y
    None = None
    NoRequest = NoRequest
    Agents = {x, y}
    Contender <- MCContender
    Stake <- MCStake
    Opening <- MCOpening
    Battles = {b1}
    TotalRounds = 2
    Voters = {v1, v2}
    Requests = {r1}

INVARIANTS
    TiedRoundIsDraw
CHECK_DEADLOCK FALSE
