SPECIFICATION Spec
CONSTANTS
    v1 = v1
    v2 = v2
    p1 = p1
    p2 = p2
    sda = sda
    sdb = sdb
    None = None
    Volumes = {v1}
    Block = {}
    Restored = {v1}
    Expandable = {}
    Portals = {p1}
    DsmPortal = p1
    Disks = {sda, sdb}
    MaxFaults = 1
    MaxCrashes = 0
INVARIANTS
    FilesystemGrown
