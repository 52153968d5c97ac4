----------------------------- MODULE MinixImage -----------------------------
(***************************************************************************)
(* The on-disk Minix v1/v2 file system as mfsck sees it, and what it means *)
(* for such an image to be consistent.                                     *)
(*                                                                         *)
(* Data is abstracted to what the checker tells apart: a block is NSLOT    *)
(* words, each read either as a zone number (indirect block) or as a       *)
(* directory entry (inode number and name); a name is one of a few         *)
(* strings, of which only "." and ".." matter to the checker.  Out-of-range*)
(* numbers are represented by one value each: ZONES for every zone number  *)
(* >= ZONES, INODES + 1 for every inode number > INODES.                   *)
(*                                                                         *)
(* The second half of the module (the reference definitions) states the    *)
(* consistency conditions of the file system from its format description, *)
(* independently of how the checker computes them; the checker's          *)
(* properties compare its results with them.                               *)
(***************************************************************************)
EXTENDS Naturals, FiniteSets, FiniteSetsExt

CONSTANTS
    INODES,      \* s_ninodes: inodes are numbered 1..INODES
    FIRSTZONE,   \* s_firstdatazone
    ZONES,       \* s_nzones: the data zones are FIRSTZONE..ZONES-1
    NDIRECT,     \* direct zone slots of an inode (7 in v1)
    NSLOT,       \* words of a block: zone numbers of an indirect block, entries of a directory block
    DIRSIZE,     \* bytes of a directory entry (dirsize); a block holds NSLOT * DIRSIZE bytes
    CountMax,    \* the largest value of an unsigned char (255): v1 i_nlinks, the counters
    LinkMax2     \* the largest value of v2's 16-bit i_nlinks (65535)

ASSUME /\ INODES \in Nat \ {0} /\ NDIRECT \in Nat \ {0} /\ NSLOT \in Nat \ {0}
       /\ FIRSTZONE \in Nat \ {0, 1} /\ ZONES \in Nat /\ ZONES > FIRSTZONE
       /\ DIRSIZE \in Nat \ {0} /\ CountMax \in Nat \ {0} /\ LinkMax2 >= CountMax

ROOT_INO == 1

Zones == FIRSTZONE..(ZONES - 1)
ZoneNr == 0..ZONES
Word == 0..(IF ZONES > INODES + 1 THEN ZONES ELSE INODES + 1)
Names == {"", ".", "..", "f"}
Modes == {"dir", "reg", "lnk", "chr", "none"}     \* "none" is i_mode == 0
Slots == 0..(NDIRECT + 2)     \* NDIRECT: single, NDIRECT + 1: double, NDIRECT + 2: triple (v2) indirect
BLOCK == NSLOT * DIRSIZE      \* BLOCK_SIZE

Block == [0..(NSLOT - 1) -> [w : Word, name : Names]]
ZeroBlock == [k \in 0..(NSLOT - 1) |-> [w |-> 0, name |-> ""]]
Inode == [mode : Modes, nlinks : 0..LinkMax2, size : Nat, zone : [Slots -> ZoneNr]]

(* What read_superblock and read_tables can find wrong with a superblock: *)
(* a magic number other than the four known ones, s_log_zone_size # 0,    *)
(* s_imap_blocks or s_zmap_blocks too small for the inodes or zones, and   *)
(* s_firstdatazone other than the one the table sizes give; and bitmaps or *)
(* an inode table that end before their size ("tables": a short read).    *)
SuperDefects == {"magic", "zonesize", "imaps", "zmaps", "firstzone", "tables"}

(* A device: the version its magic number gives, the superblock's defects *)
(* and state flags, the two bitmaps, the inode table, the data zones, and  *)
(* the zones whose reads and writes fail.  A v1 i_nlinks is an unsigned    *)
(* char.                                                                   *)
Image == {d \in [version : {1, 2}, super : SUBSET SuperDefects,
                 state : SUBSET {"VALID", "ERROR"}, imap : SUBSET (1..INODES),
                 zmap : SUBSET Zones, inode : [1..INODES -> Inode],
                 block : [Zones -> Block], bad : SUBSET Zones] :
             d.version = 1 => \A i \in 1..INODES : d.inode[i].nlinks <= CountMax}

(* read_block without errors_uncorrected = 1 after a short read: a data   *)
(* zone (whose seek always succeeds) that cannot be read raises nothing.   *)
ReadErrUnflagged(d, nr) == nr # 0 /\ nr \in d.bad /\ nr \notin Zones

(* read_block: zone 0 and unreadable zones read as zeros.                  *)
ReadErr(d, nr) == nr # 0 /\ nr \in d.bad

ReadBlock(d, nr) == IF nr = 0 \/ nr \in d.bad THEN ZeroBlock ELSE d.block[nr]

(* write_block: zone 0 is skipped; a zone outside the data area is refused *)
(* and a failed write is reported, both leaving the device as it was.     *)
WriteErr(d, nr) == nr # 0 /\ (nr \notin Zones \/ nr \in d.bad)
WriteBlock(d, nr, b) == IF nr = 0 \/ WriteErr(d, nr) THEN d ELSE [d EXCEPT !.block[nr] = b]

(* The deepest indirection of an inode: double in v1, triple in v2; the   *)
(* slot of level L (1 single, 2 double, 3 triple) is NDIRECT + L - 1.      *)
TopLevel(d) == IF d.version = 2 THEN 3 ELSE 2

-----------------------------------------------------------------------------
(***************************************************************************)
(* Reference definitions: the file system's layout and its consistency    *)
(* conditions, stated over a whole image.                                  *)
(***************************************************************************)
Valid(z) == IF z \in Zones THEN z ELSE 0

(* The zone holding logical block n of inode i: direct, single indirect,   *)
(* double indirect; 0 for a hole or an invalid zone number.                *)
FileZone(d, i, n) ==
    LET zs == d.inode[i].zone
        m  == n - NDIRECT - NSLOT
    IN  IF n < NDIRECT THEN Valid(zs[n])
        ELSE IF n < NDIRECT + NSLOT
             THEN Valid(ReadBlock(d, Valid(zs[NDIRECT]))[n - NDIRECT].w)
        ELSE Valid(ReadBlock(d, Valid(ReadBlock(d, Valid(zs[NDIRECT + 1]))[m \div NSLOT].w))[m % NSLOT].w)

NEntries(d, dir) == (d.inode[dir].size + DIRSIZE - 1) \div DIRSIZE
EntryIdx(d, dir) == 0..(NEntries(d, dir) - 1)
Entry(d, dir, k) == ReadBlock(d, FileZone(d, dir, k \div NSLOT))[k % NSLOT]
IsDir(d, i) == i \in 1..INODES /\ d.inode[i].mode = "dir"

(* Entries 0 and 1 of a directory are its "." and ".." slots; the tree is  *)
(* formed by the other entries naming directories.                         *)
TreeEdges(d) == {<<p, c>> \in (1..INODES) \X (1..INODES) :
                    IsDir(d, p) /\ IsDir(d, c) /\
                    \E k \in EntryIdx(d, p) : k >= 2 /\ Entry(d, p, k).w = c}
(* The nodes reachable from the set S over the edges E.                    *)
RECURSIVE Closure(_, _)
Closure(E, S) == LET T == S \cup {e[2] : e \in {x \in E : x[1] \in S}}
                 IN  IF T = S THEN S ELSE Closure(E, T)
Reach(d) == Closure(TreeEdges(d), {ROOT_INO})

(* Number of directory entries of reachable directories naming inode i.    *)
Refs(d, i) == Quantify(UNION {{<<p, k>> : k \in EntryIdx(d, p)} : p \in Reach(d)},
                       LAMBDA e : Entry(d, e[1], e[2]).w = i)

(* The inodes whose zones belong to the file system: the root and every    *)
(* directory, file or symlink named by a tree entry.                       *)
Named(d) == {ROOT_INO} \cup
            UNION {{Entry(d, p, k).w : k \in EntryIdx(d, p) \ {0, 1}} : p \in Reach(d)}
Owners(d) == {i \in Named(d) \cap 1..INODES : d.inode[i].mode \in {"dir", "reg", "lnk"}}

(* Zone-number fields of the owners: inode slots, and the words of their   *)
(* indirect blocks of every level.  LevelZones(d, L): the blocks of level  *)
(* L, named by the level-L slots and by the words of level L + 1 blocks.   *)
RECURSIVE LevelZones(_, _)
LevelZones(d, L) ==
    ({Valid(d.inode[i].zone[NDIRECT + L - 1]) : i \in Owners(d)} \cup
     (IF L = TopLevel(d) THEN {}
      ELSE {Valid(ReadBlock(d, x)[k].w) : x \in LevelZones(d, L + 1), k \in 0..(NSLOT - 1)}))
    \ {0}
PtrZones(d) == UNION {LevelZones(d, L) : L \in 1..TopLevel(d)}
Fields(d) == ({<<"inode", i, s>> : i \in Owners(d), s \in 0..(NDIRECT + TopLevel(d) - 1)}) \cup
             ({<<"block", x, k>> : x \in PtrZones(d), k \in 0..(NSLOT - 1)})
FieldValue(d, f) == IF f[1] = "inode" THEN d.inode[f[2]].zone[f[3]]
                    ELSE ReadBlock(d, f[2])[f[3]].w
Referenced(d) == {FieldValue(d, f) : f \in Fields(d)} \cap Zones

(* Zones the checker reads: directory blocks and indirect blocks.          *)
ReadZones(d) == PtrZones(d) \cup
                UNION {{FileZone(d, p, k \div NSLOT) : k \in EntryIdx(d, p)} : p \in Reach(d)}

(* The inode bitmap and the link counts agree with the directory tree.     *)
LinkCountsAgree(d) ==
    \A i \in 1..INODES :
        /\ (i \in d.imap) <=> (Refs(d, i) > 0)
        /\ Refs(d, i) > 0 => d.inode[i].nlinks = Min({Refs(d, i), CountMax})

(* Every zone field is 0 or a data zone, no zone is referenced twice,      *)
(* every referenced zone is marked, and a marked zone no file references   *)
(* is one that cannot be read (left to the bad-block list).               *)
ZoneMapAgrees(d) ==
    /\ \A f \in Fields(d) : FieldValue(d, f) \in {0} \cup Zones
    /\ \A f, g \in Fields(d) : f # g /\ FieldValue(d, f) \in Zones
                                  => FieldValue(d, f) # FieldValue(d, g)
    /\ Referenced(d) \subseteq d.zmap
    /\ d.zmap \ Referenced(d) \subseteq d.bad

(* The device as it is stored, every block readable: what the references  *)
(* of an unreadable block still name.                                      *)
Raw(d) == [d EXCEPT !.bad = {}]

(* The parents of a directory in the tree.                                 *)
Parents(d, c) == {p \in Reach(d) : <<p, c>> \in TreeEdges(d)}

(* Section 3, invariants 1 to 6, and clean reads: the image is consistent. *)
(* With warnMode, an unused inode must also have mode 0.  The superblock   *)
(* has the normal first data zone.                                          *)
Consistent(d, warnMode) ==
    /\ "firstzone" \notin d.super
    /\ d.inode[ROOT_INO].mode = "dir"
    /\ LinkCountsAgree(d)
    /\ ZoneMapAgrees(d)
    /\ ReadZones(d) \cap d.bad = {}
    /\ \A p \in Reach(d) :
        /\ d.inode[p].size >= 2 * DIRSIZE
        /\ Entry(d, p, 0) = [w |-> p, name |-> "."]
        /\ Entry(d, p, 1).name = ".."
        /\ {Entry(d, p, 1).w} = IF p = ROOT_INO THEN {ROOT_INO} ELSE Parents(d, p)
        /\ \A k \in EntryIdx(d, p) : Entry(d, p, k).w <= INODES
    /\ warnMode => \A i \in (1..INODES) \ d.imap : d.inode[i].mode = "none"
=============================================================================
