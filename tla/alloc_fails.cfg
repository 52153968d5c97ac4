\* mfsck -m on the base device, with every malloc of read_tables allowed to return NULL.
CONSTANTS
    INODES = 5
    FIRSTZONE = 2
    ZONES = 10
    NDIRECT = 1
    NSLOT = 2
    DIRSIZE = 2
    CountMax = 255
    LinkMax2 = 65535
    Repair = FALSE
    Automatic = FALSE
    WarnMode = FALSE
    ForceOption = TRUE
    StackLimit = 6
    OffBits = 4
    AllocFails = TRUE
    Images <- BaseImages

SPECIFICATION Spec


PROPERTY
    TablesLoadOrDie
