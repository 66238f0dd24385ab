\* Liveness: two messages of one chat, one restart.
SPECIFICATION FairSpec
CONSTANTS
    m1 = m1
    m2 = m2
    k1 = k1
    Msgs = {m1, m2}
    NoMsg = NoMsg
    Keys = {k1}
    KeyOf <- MCKeyOf
    QueueCap = 1
    MaxGen = 2
    Breakable = {}
    Holding = {m1}
    Quits = {FALSE}
    AutoStart = FALSE
    StopOnExit = FALSE
PROPERTIES
    CancelledWorkerExits
    DetachedReaderExits
    LiveMessageSettles
