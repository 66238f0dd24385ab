\* Safety: two overlapping asks, of one security mode or of two.
SPECIFICATION Spec
CONSTANTS
    n1 = n1
    n2 = n2
    sandbox = sandbox
    full = full
    Asks = {n1, n2}
    None = None
    Keys = {sandbox, full}
    Resumes = {{}, {n1}, {n2}, {n1, n2}}
    Disturbances = {"crash", "deadline"}
SYMMETRY Symmetric
INVARIANTS
    TypeOK
    PendingIsAwaited
    ConversationGuarded
PROPERTY ImplementsHermesService
