\* The process that served a message well is killed when the message is done.
SPECIFICATION FairSpec
CONSTANTS
    n1 = n1
    n2 = n2
    sandbox = sandbox
    full = full
    Asks = {n1, n2}
    None = None
    Keys = {sandbox}
    Resumes = {{n1}}
    Disturbances = {}
PROPERTY KeptWarm
\* Without deadlines an ask may wait for ever on a process that is gone.
CHECK_DEADLOCK FALSE
