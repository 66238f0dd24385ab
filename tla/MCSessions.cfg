\* Two workers and two chats beside a reset, the operator's "set" and a crash.
SPECIFICATION Spec
CONSTANTS
    w1 = w1
    w2 = w2
    k1 = k1
    k2 = k2
    Workers = {w1, w2}
    Keys = {k1, k2}
    MaxTurns = 2
    MaxStores = 3
    MaxIds = 1
    MaxResets = 1
    MaxSets = 1
    MaxCrashes = 1
INVARIANTS
    TypeOK
    ResetEffectiveAlone
    UsesBoundedAlone
    FileAgreesAlone
    ChatsApart
PROPERTY ImplementsSessionLedger
CONSTRAINT TwoDisturbances
VIEW View
SYMMETRY WorkerSymmetry
\* The bounds end every behaviour.
CHECK_DEADLOCK FALSE
