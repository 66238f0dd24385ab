\* Start and Stop, with at most two NapCats launched.
SPECIFICATION StartupFairSpec
CONSTANTS
    MaxLaunches = 2
    AutoStart = TRUE
    WaitsForHTTP = TRUE
    Configured = {"own", "blank", "localhost"}
    ResetOnStart = {TRUE, FALSE}
    StopOnExit = TRUE
    FirstEntries <- MCFirstEntries
INVARIANTS
    StartupTypeOK
    RunningIsTracked
    DetectionIsBest
    FreshProfile
    UnmarkedKept
PROPERTIES
    Returns
    DeadIsUntracked
