\* Two battles over the same two balances.
SPECIFICATION Spec
CONSTANTS
    b1 = b1
    b2 = b2
    x = x
    y = y
    None = None
    NoRequest = NoRequest
    Agents = {x, y}
    Contender <- MCContender
    Stake <- MCStake
    Opening <- MCOpening
    Battles = {b1, b2}
    TotalRounds = 1
    Voters = {v1, v2}
    Requests = {r1, r2}

INVARIANTS
    BalancesExplained
PROPERTIES
    LedgerKept
CHECK_DEADLOCK FALSE
