SPECIFICATION FairSpec
CONSTANTS
    v1 = v1
    v2 = v2
    p1 = p1
    p2 = p2
    sda = sda
    sdb = sdb
    None = None
    Volumes = {v1}
    Block = {}
    Restored = {}
    Expandable = {v1}
    Portals = {p1, p2}
    DsmPortal = p1
    Disks = {sda, sdb}
    MaxFaults = 2
    MaxCrashes = 1
INVARIANTS
    TypeOK
    SessionsAccounted
    FilesystemGrown
PROPERTIES
    PodGetsVolume
    VolumeLeaves
