CONSTANTS
    None = None
    a = a
    m = m
    r = r
    Person = {a, m, r}
    Maintainer = {m}
    MaxContributions = 1
    MaxApplications = 2
    MaxSigned = 1
    MaxGrants = 2
    MaxCrashes = 1
SPECIFICATION Spec
INVARIANTS TypeOK Backed Mirrored
PROPERTIES Closes
CHECK_DEADLOCK FALSE
SYMMETRY PersonSymmetry
