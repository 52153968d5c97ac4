\* map_block and map_block2 for every block number up to 170, inside and beyond their layouts.
CONSTANTS
    NDIRECT = 7
    K = 5
    Bits = 8
    MaxBlk = 170

SPECIFICATION Spec

INVARIANT
    MapBlockInBounds
