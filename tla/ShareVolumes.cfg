SPECIFICATION FairSpec
CONSTANTS
    h1 = h1
    h2 = h2
    Handlers = {h1}
    SerialCalls = TRUE
    Kinds = {"none", "snapshot", "volume"}
    Sizes = {1, 2}
    Sources = {0, 1, 2}
    MaxFaults = 3
    MaxCrashes = 1
    MaxObjects = 10
\* The system may stop: a deleted volume is not asked for again.
CHECK_DEADLOCK FALSE
INVARIANTS
    TypeOK
    ObstaclesAccounted
PROPERTIES
    KeepsContract
    DeleteSucceeds
    PlainCreateSucceeds
