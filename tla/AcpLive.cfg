\* Liveness: two overlapping asks of one security mode.
SPECIFICATION FairSpec
CONSTANTS
    n1 = n1
    n2 = n2
    sandbox = sandbox
    full = full
    Asks = {n1, n2}
    None = None
    Keys = {sandbox}
    Resumes = {{n1}}
    Disturbances = {"deadline"}
PROPERTIES
    EveryAskReturns
    NoOrphanProcess
