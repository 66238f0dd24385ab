\* A "set" that overlaps an announced reset.
SPECIFICATION Spec
CONSTANTS
    w1 = w1
    w2 = w2
    k1 = k1
    k2 = k2
    Workers = {w1}
    Keys = {k1, k2}
    MaxTurns = 2
    MaxStores = 3
    MaxIds = 2
    MaxResets = 1
    MaxSets = 1
    MaxCrashes = 0
INVARIANTS
    ResetEffective
\* The bounds end every behaviour.
CHECK_DEADLOCK FALSE
