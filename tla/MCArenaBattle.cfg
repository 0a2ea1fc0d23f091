\* One battle of two rounds, three voters, two requests racing the sweep, under
\* fairness.  The two rounds are both open, and the earlier one current again, when
\* requests admitted together are executed one after the other.
SPECIFICATION FairSpec
CONSTANTS
    b1 = b1
    b2 = b2
    x = x
    y = y
    None = None
    NoRequest = NoRequest
    Agents = {x, y}
    Contender <- MCContender
    Stake <- MCStake
    Opening <- MCOpening
    Battles = {b1}
    TotalRounds = 2
    Voters = {v1, v2, v3}
    Requests = {r1, r2}
INVARIANTS
    DecidedOnce
    CurrentWasAnnounced
PROPERTIES
    CompletedIsFrozen
    BattleCompletes
CHECK_DEADLOCK FALSE
