SPECIFICATION FairSpec
CONSTANTS
    Nothing = Nothing
    Tasks = {t1, t2}
    Requests = {r1, r2}
    MaxSends = 3
    MaxFaults = 2
CHECK_DEADLOCK FALSE
INVARIANTS
    UnfinishedIsServed
PROPERTIES
    PromiseKept
    Settles
