\* The NapCat child survives a Stop that returned early.
SPECIFICATION Spec
CONSTANTS
    m1 = m1
    m2 = m2
    k1 = k1
    Msgs = {m1}
    NoMsg = NoMsg
    Keys = {k1}
    KeyOf <- MCKeyOf1
    QueueCap = 1
    MaxGen = 1
    Breakable = {1}
    Holding = {}
    Quits = {TRUE}
    AutoStart = TRUE
    StopOnExit = TRUE
INVARIANT StopOnExitHonoured
