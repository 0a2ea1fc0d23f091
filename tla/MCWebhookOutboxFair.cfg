\* One destination with two jobs, two faults and a test delivery: the races
\* between claims, expiries, late finishes and deactivation, under fairness.
SPECIFICATION FairSpec
CONSTANTS
    h1 = h1
    h2 = h2
    e1 = e1
    e2 = e2
    w1 = w1
    w2 = w2
    NoJob = NoJob
    Events = {e1, e2}
    Workers = {w1, w2}
    Subscribers <- MCSubscribers
    MaxAttempts = 2
    DisableAt = 2
    Hooks = {h1}
    MaxFaults = 2
    MaxTests = 1
INVARIANTS
    HistoryExplainsJob
    HealthMatchesStreak
PROPERTIES
    SettledIsFinal
    QueueDrains
CHECK_DEADLOCK FALSE
