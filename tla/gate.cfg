\* mfsck -a without -f on a device marked valid.
CONSTANTS
    INODES = 5
    FIRSTZONE = 2
    ZONES = 10
    NDIRECT = 1
    NSLOT = 2
    DIRSIZE = 2
    CountMax = 255
    LinkMax2 = 65535
    Repair = TRUE
    Automatic = TRUE
    WarnMode = FALSE
    ForceOption = FALSE
    StackLimit = 6
    OffBits = 4
    AllocFails = FALSE
    Images <- GateImages

SPECIFICATION Spec

INVARIANT
    GateHonoured
