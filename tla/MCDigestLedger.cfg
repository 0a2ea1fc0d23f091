SPECIFICATION Spec
CONSTANTS
    a = a
    b = b
    Free = Free
    NoText = NoText
    Runners = {a, b}
    Recipients = {reader}
    Texts = {t1, t2}
    Due <- MCDue
    MaxTries = 3
    MaxFaults = 2
    MaxChanges = 2
SYMMETRY Replicas
CHECK_DEADLOCK FALSE
INVARIANTS
    AtMostOneMail
    SamePayload
    OptOutHonoured
    EveryoneServed
PROPERTIES
    LedgerIsFinal
