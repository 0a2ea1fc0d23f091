\* Two destinations, three jobs, two workers of different replicas, one fault.
SPECIFICATION Spec
CONSTANTS
    h1 = h1
    h2 = h2
    e1 = e1
    e2 = e2
    w1 = w1
    w2 = w2
    NoJob = NoJob
    Events = {e1, e2}
    Workers = {w1, w2}
    Subscribers <- MCSubscribers
    MaxAttempts = 2
    DisableAt = 2
    Hooks = {h1, h2}
    MaxFaults = 1
    MaxTests = 0
SYMMETRY WorkerSymmetry
INVARIANTS
    LeaseFollowsClaim
    OneInFlightPerHook
PROPERTIES
    PromiseKept
CHECK_DEADLOCK FALSE
