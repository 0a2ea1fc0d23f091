\* One match and one post, two pollers and two requests.
SPECIFICATION ForecastSpec
CONSTANTS
    x = x
    Matches = {m1}
    Posts = {q1}
    People = {x}
    Author <- MCAuthor
    Picks = {yes, no}
    Unknown = Unknown
    Replicas = {a, b}
    Requests = {r1, r2}
    MaxTime = 3
    MaxFixes = 1
SYMMETRY Symmetry
INVARIANTS
    StatsExplained
PROPERTIES
    GradedStands
