\* mfsck -m without -r or -a on the base device, v1 and v2, with up to two damages.
CONSTANTS
    INODES = 5
    FIRSTZONE = 2
    ZONES = 10
    NDIRECT = 1
    NSLOT = 2
    DIRSIZE = 2
    CountMax = 255
    LinkMax2 = 65535
    Repair = FALSE
    Automatic = FALSE
    WarnMode = TRUE
    ForceOption = TRUE
    StackLimit = 6
    OffBits = 4
    AllocFails = TRUE
    Images <- BothReadOnlyImages

SPECIFICATION Spec

INVARIANTS
    TypeOK
    DetectsInconsistency
    ConsistentCounts

PROPERTIES
    ReadOnlyNeverWrites
