CONSTANTS
    Gone = Gone
    None = None
    o1 = o1
    t1 = t1
    t2 = t2
    v1 = v1
    m1 = m1
    m2 = m2
    j1 = j1
    j2 = j2
    Obligation = {o1}
    Text = {t1, t2}
    Initially = {t1, Gone}
    Value = {v1}
    Maintainer = {m1}
    Job = {j1}
    StatusAsked = {"validated"}
    MaxEdits = 4
    MaxUpgrades = 1
    MaxAmendments = 2
    MaxRequests = 1
    MaxValidations = 1
SPECIFICATION FairSpec
INVARIANTS TypeOK Answered 
PROPERTIES Follows
