SPECIFICATION FairSpec
CONSTANTS
    Protocols = {"iscsi", "nvme"}
    Sizes = {1, 2}
    Sources = {0, 1, 2}
    MaxFaults = 3
    MaxCrashes = 1
    MaxObjects = 10
\* The system may stop: a deleted volume is not asked for again, and one
\* smaller than its source is never made.
CHECK_DEADLOCK FALSE
INVARIANTS
    TypeOK
    VisibleIsComplete
    LeftoversAccounted
PROPERTIES
    KeepsContract
    LunCreateSucceeds
    DeleteSucceeds
