\* mfsck -a on the base device, v1 and v2, with up to two damages; inode and zone counters 2 bits wide
\* (CountMax = 3) so that the root's four links saturate its count.
CONSTANTS
    INODES = 5
    FIRSTZONE = 2
    ZONES = 10
    NDIRECT = 1
    NSLOT = 2
    DIRSIZE = 2
    CountMax = 3
    LinkMax2 = 15
    Repair = TRUE
    Automatic = TRUE
    WarnMode = FALSE
    ForceOption = TRUE
    StackLimit = 6
    OffBits = 4
    AllocFails = TRUE
    Images <- BothRepairImages

SPECIFICATION FairSpec

INVARIANTS
    RepairedLinkCounts
    RepairedZoneBitmap
    UnreportedLinkCountsExact
    UnreportedRepairKeepsData

PROPERTIES
    Termination
    WritesOnlyClearFields
