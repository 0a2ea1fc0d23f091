\* Three tokens and two requests at a time; two wrong passwords lock.
SPECIFICATION Spec
CONSTANTS
    Slots = {s1, s2}
    MaxFailures = 2
    MaxTokens = 3
    MaxChanges = 1
    MaxGuesses = 4
    MaxRequests = 7
SYMMETRY Symmetry
INVARIANTS
    NoSurvivor
    OneHeir
    GuessesBounded
PROPERTIES
    ErasureWanted
CHECK_DEADLOCK FALSE
