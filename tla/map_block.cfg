\* map_block and map_block2 for every block number up to 170, K = 5, 8-bit unsigned int.
CONSTANTS
    NDIRECT = 7
    K = 5
    Bits = 8
    MaxBlk = 170

SPECIFICATION Spec

INVARIANT
    MapBlockFollowsLayout
