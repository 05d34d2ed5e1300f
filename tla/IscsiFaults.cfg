SPECIFICATION FairSpec
CONSTANTS
    d1 = d1
    d2 = d2
    n1 = n1
    h1 = h1
    h2 = h2
    Dsms = {d1, d2}
    Names = {n1}
    Handlers = {h1}
    Sizes = {1, 2}
    SerialCalls = TRUE
    StartupFaults = FALSE
    MaxFaults = 3
    MaxCrashes = 1
    MaxObjects = 10
\* The system may stop: a deleted volume is not asked for again.
CHECK_DEADLOCK FALSE
INVARIANTS
    TypeOK
    RecordedVolumeExists
    DeletedVolumeIsGone
    LeftoversAccounted
    SecondVolumeAccounted
PROPERTIES
    KeepsContract
    LunNeverShrinks
    CreateSucceeds
    DeleteSucceeds
