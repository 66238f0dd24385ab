\* Safety and refinement: two messages of one chat, one restart.
SPECIFICATION Spec
CONSTANTS
    m1 = m1
    m2 = m2
    k1 = k1
    Msgs = {m1, m2}
    NoMsg = NoMsg
    Keys = {k1}
    KeyOf <- MCKeyOf
    QueueCap = 1
    MaxGen = 2
    Breakable = {1, 2}
    Holding = {m1}
    Quits = {FALSE, TRUE}
    AutoStart = TRUE
    StopOnExit = TRUE
INVARIANTS
    TypeOK
    SessionGuarded
    RunningServed
    NoStrayConnection
    LeakOnlyAfterFailedDial
    TurnedAwayOnlyByStop
    NoMessageIsLost
PROPERTY ImplementsChatService
