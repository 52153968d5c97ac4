------------------------------ MODULE MapBlock ------------------------------
(***************************************************************************)
(* The index arithmetic of map_block (v1) and map_block2 (v2): which slot  *)
(* of the inode and which words of the indirect blocks they read for       *)
(* logical block blknr, compared with the zone layout of the format.       *)
(*                                                                         *)
(* A lookup is a sequence of reads <<table, index>>: table "inode" has     *)
(* NDIRECT + 2 (v1) or NDIRECT + 3 (v2) slots, the others ("tind", "dind", *)
(* "ind") K words.  blknr is an unsigned int of Bits bits: its              *)
(* subtractions wrap.  K stands for 512 (v1) and 256 (v2); the sizes are   *)
(* scaled down keeping the relation of the code, 2^Bits > K^3.             *)
(***************************************************************************)
EXTENDS Integers, Sequences

CONSTANTS
    NDIRECT,   \* direct zones of an inode (7)
    K,         \* zone numbers in an indirect block
    Bits,      \* width of unsigned int
    MaxBlk     \* the largest logical block number checked

ASSUME NDIRECT \in Nat \ {0} /\ K \in Nat \ {0, 1} /\ Bits \in Nat /\ 2^Bits > K * K * K
ASSUME MaxBlk \in Nat /\ MaxBlk < 2^Bits

VARIABLES
    version,   \* 1 for map_block, 2 for map_block2
    blknr,     \* the argument
    reads      \* the reads the call made, << >> before the call

vars == <<version, blknr, reads>>

(* Unsigned subtraction of the code.                                       *)
Minus(a, b) == (a - b) % 2^Bits

(* Mutation: map_block with the single indirect test off by one.          *)
MapReads1SingleOffByOne(n) ==
    IF n < NDIRECT THEN << <<"inode", n>> >>
    ELSE LET n1 == Minus(n, NDIRECT) IN
         IF n1 <= K THEN << <<"inode", NDIRECT>>, <<"ind", n1>> >>
         ELSE LET n2 == Minus(n1, K) IN
              << <<"inode", NDIRECT + 1>>, <<"dind", n2 \div K>>, <<"ind", n2 % K>> >>

(* map_block: direct, single indirect (blknr < 512), else double indirect *)
(* with no upper bound.                                                     *)
MapReads1(n) ==
    IF n < NDIRECT THEN << <<"inode", n>> >>
    ELSE LET n1 == Minus(n, NDIRECT) IN
         IF n1 < K THEN << <<"inode", NDIRECT>>, <<"ind", n1>> >>
         ELSE LET n2 == Minus(n1, K) IN
              << <<"inode", NDIRECT + 1>>, <<"dind", n2 \div K>>, <<"ind", n2 % K>> >>

(* map_block2: after the single indirect range it takes the double        *)
(* indirect branch when blknr >= 256 * 256, else the triple indirect one.  *)
MapReads2(n) ==
    IF n < NDIRECT THEN << <<"inode", n>> >>
    ELSE LET n1 == Minus(n, NDIRECT) IN
         IF n1 < K THEN << <<"inode", NDIRECT>>, <<"ind", n1>> >>
         ELSE LET n2 == Minus(n1, K) IN
              IF n2 >= K * K
              THEN << <<"inode", NDIRECT + 1>>, <<"dind", n2 \div K>>, <<"ind", n2 % K>> >>
              ELSE LET n3 == Minus(n2, K * K) IN
                   << <<"inode", NDIRECT + 2>>, <<"tind", n3 \div (K * K)>>,
                      <<"dind", (n3 \div K) % K>>, <<"ind", n3 % K>> >>

-----------------------------------------------------------------------------
(* Reference: the zone layout (v1 has levels 0..2, v2 levels 0..3).       *)
(* Logical block n lies in level L (0 direct, 1 single, 2 double, 3       *)
(* triple indirect) when it is below the sum of the sizes of levels 0..L; *)
(* its reads are the slot of level L and the base-K digits of its offset  *)
(* within the level, most significant first.                               *)
LevelSize(L) == IF L = 0 THEN NDIRECT ELSE K^L
RECURSIVE Below(_)
Below(L) == IF L < 0 THEN 0 ELSE LevelSize(L) + Below(L - 1)
InRange(v, n) == n < Below(v + 1)
LevelOf(n) == CHOOSE L \in 0..3 : n < Below(L) /\ n >= Below(L - 1)
Tables == << "ind", "dind", "tind" >>

Layout(n) ==
    LET L   == LevelOf(n)
        off == n - Below(L - 1)
    IN  IF L = 0 THEN << <<"inode", n>> >>
        ELSE << <<"inode", NDIRECT + L - 1>> >> \o
             [j \in 1..L |-> <<Tables[L - j + 1], (off \div K^(L - j)) % K>>]

(* A read stays inside its array.                                          *)
InBounds(v, r) == IF r[1] = "inode" THEN r[2] < NDIRECT + v + 1 ELSE r[2] < K

-----------------------------------------------------------------------------
Init == version \in {1, 2} /\ blknr \in 0..MaxBlk /\ reads = << >>

(* One call of map_block / map_block2.                                     *)
Map ==
    /\ reads = << >>
    /\ reads' = IF version = 1 THEN MapReads1(blknr) ELSE MapReads2(blknr)
    /\ UNCHANGED <<version, blknr>>

Done == reads # << >> /\ UNCHANGED vars

Next == Map \/ Done

Spec == Init /\ [][Next]_vars

(* map_block reads, for every block of a file of the largest size the v1   *)
(* layout allows, exactly the slot and words the layout places it at.      *)
MapBlockFollowsLayout ==
    version = 1 /\ reads # << >> /\ InRange(1, blknr) => reads = Layout(blknr)

(* Neither map_block nor map_block2 ever reads outside its inode slots or *)
(* its on-stack ind/dind/tind arrays, whatever block number a directory's  *)
(* i_size leads check_file to ask for: v1 beyond the largest file, v2 in   *)
(* the double-indirect range its blknr test sends down the triple path.    *)
MapBlockInBounds ==
    reads # << >> => \A j \in 1..Len(reads) : InBounds(version, reads[j])
=============================================================================
