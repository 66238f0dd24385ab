\* An admin's /identity, then the operator's "set" of something else.
SPECIFICATION Spec
CONSTANTS
    w1 = w1
    w2 = w2
    u1 = u1
    u2 = u2
    t0 = t0
    t1 = t1
    Workers = {w1}
    Prompt = Prompt
    Users = {u1, u2}
    Named = {u1}
    Texts = {t0, t1}
    DefaultText = t0
    FirstModes = {"sandbox", "full"}
    MaxSets = 1
    MaxAdmins = 1
    MaxCrashes = 0
PROPERTY
    SetKeepsIdentity
