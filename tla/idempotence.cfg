\* mfsck -a twice in a row, the first run ending normally or killed at any step,
\* starting on the base device, v1 and v2, with up to two damages.
CONSTANTS
    INODES = 5
    FIRSTZONE = 2
    ZONES = 10
    NDIRECT = 1
    NSLOT = 2
    DIRSIZE = 2
    CountMax = 255
    LinkMax2 = 65535
    Repair = TRUE
    Automatic = TRUE
    WarnMode = FALSE
    ForceOption = TRUE
    StackLimit = 6
    OffBits = 4
    AllocFails = FALSE
    Images <- BothRepairImages

SPECIFICATION ISpec

INVARIANTS
    Idempotent
    CrashRecovered
