SPECIFICATION Spec
CONSTANTS
    d1 = d1
    d2 = d2
    n1 = n1
    h1 = h1
    h2 = h2
    Dsms = {d1}
    Names = {n1}
    Handlers = {h1, h2}
    Sizes = {1}
    SerialCalls = FALSE
    StartupFaults = FALSE
    MaxFaults = 1
    MaxCrashes = 0
    MaxObjects = 8
\* The system may stop: a deleted volume is not asked for again.
CHECK_DEADLOCK FALSE
INVARIANTS
    RecordedVolumeExists
