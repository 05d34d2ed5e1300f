SPECIFICATION FairSpec
CONSTANTS
    h1 = h1
    h2 = h2
    Handlers = {h1, h2}
    Kinds = {"lun", "share"}
    MaxFaults = 1
    MaxRefusals = 2
    MaxRestarts = 1
    MaxSids = 8
    MaxObjects = 10
\* The system may stop: a deleted snapshot is not asked for again.
CHECK_DEADLOCK FALSE
INVARIANTS
    TypeOK
    SecondSnapshotAccounted
    RecordedSnapshotKept
    ReadyIsRecorded
    OneExpiryIsHidden
    SessionsBounded
PROPERTIES
    SnapshotSucceeds
    DeleteSucceeds
