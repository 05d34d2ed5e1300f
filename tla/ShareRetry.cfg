SPECIFICATION FairSpec
CONSTANTS
    h1 = h1
    h2 = h2
    Handlers = {h1}
    SerialCalls = TRUE
    Kinds = {"snapshot", "volume"}
    Sizes = {1, 2}
    Sources = {0, 1}
    MaxFaults = 0
    MaxCrashes = 1
    MaxObjects = 10
\* The system may stop: a deleted volume is not asked for again.
CHECK_DEADLOCK FALSE
PROPERTIES
    CreateSucceeds
