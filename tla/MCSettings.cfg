\* Two handlers and the prompt: any two of them may save at once.
SPECIFICATION Spec
CONSTANTS
    w1 = w1
    w2 = w2
    u1 = u1
    u2 = u2
    t0 = t0
    t1 = t1
    Workers = {w1, w2}
    Prompt = Prompt
    Users = {u1, u2}
    Named = {u1}
    Texts = {t0, t1}
    DefaultText = t0
    FirstModes = {"sandbox", "full"}
    MaxSets = 1
    MaxAdmins = 2
    MaxCrashes = 1
SYMMETRY Handlers
INVARIANTS
    TypeOK
    NonOwnersStaySandboxed
    FileAgrees
