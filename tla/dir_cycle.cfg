\* mfsck -a on a device where a directory's first entry is not named ".".
CONSTANTS
    INODES = 5
    FIRSTZONE = 2
    ZONES = 10
    NDIRECT = 1
    NSLOT = 2
    DIRSIZE = 2
    CountMax = 255
    LinkMax2 = 65535
    Repair = TRUE
    Automatic = TRUE
    WarnMode = FALSE
    ForceOption = TRUE
    StackLimit = 6
    OffBits = 4
    AllocFails = FALSE
    Images <- RenamedDotImages

SPECIFICATION Spec

INVARIANT
    NoReentrantDirectory
