SPECIFICATION FairSpec
CONSTANTS
    a = a
    b = b
    s1 = s1
    s2 = s2
    Nodes = {a, b}
    Shares = {s1, s2}
    FirstNodes = {a}
    MaxFaults = 2
    MaxCrashes = 1
    Pods = 2
INVARIANTS
    TypeOK
    FoundersAdmitted
PROPERTIES
    MountSucceeds
