---------------------------- MODULE MCMinixFsck ----------------------------
(***************************************************************************)
(* Devices for model checking MinixFsck: a small well-formed file system  *)
(* and the damage a checker must cope with, applied one or two at a time. *)
(*                                                                         *)
(* Geometry (the cfg must agree): INODES = 5, data zones 2..9              *)
(* (FIRSTZONE = 2, ZONES = 10), one direct slot, one single and one double *)
(* indirect slot, two words per block, DIRSIZE = 2.                        *)
(* The root has four links; with a counter width CountMax below 4 its      *)
(* i_nlinks holds the saturated count, the largest value the field takes.  *)
(*                                                                         *)
(*   inode 1  /      dir, zones 2 and, through indirect block 3, 4 and 5   *)
(*   inode 2  /d     dir, zone 6          inode 4  /f   file, zone 8       *)
(*   inode 3  /e     dir, zone 7          inode 5  free; zone 9 free       *)
(***************************************************************************)
EXTENDS MinixFsck, TLC

ASSUME INODES = 5 /\ FIRSTZONE = 2 /\ ZONES = 10 /\ NDIRECT = 1 /\ NSLOT = 2 /\ DIRSIZE = 2

Ent(n, nm) == [w |-> n, name |-> nm]
Blk(e0, e1) == (0 :> e0) @@ (1 :> e1)
Ptrs(a, b) == Blk(Ent(a, ""), Ent(b, ""))
Ino(mode, nl, size, z0, z1, z2) ==
    [mode |-> mode, nlinks |-> nl, size |-> size,
     zone |-> (0 :> z0) @@ (1 :> z1) @@ (2 :> z2) @@ (3 :> 0)]

Base ==
    [version |-> 1,
     super |-> {},
     state |-> {"VALID"},
     imap  |-> {1, 2, 3, 4},
     zmap  |-> 2..8,
     inode |-> << Ino("dir", Min({4, CountMax}), 12, 2, 3, 0), Ino("dir", 2, 4, 6, 0, 0),
                  Ino("dir", 2, 4, 7, 0, 0), Ino("reg", 1, 1, 8, 0, 0),
                  Ino("none", 0, 0, 0, 0, 0) >>,
     block |-> [z \in 2..9 |->
                  CASE z = 2 -> Blk(Ent(1, "."), Ent(1, ".."))
                    [] z = 3 -> Ptrs(4, 5)
                    [] z = 4 -> Blk(Ent(2, "f"), Ent(3, "f"))
                    [] z = 5 -> Blk(Ent(4, "f"), Ent(0, ""))
                    [] z = 6 -> Blk(Ent(2, "."), Ent(1, ".."))
                    [] z = 7 -> Blk(Ent(3, "."), Ent(1, ".."))
                    [] OTHER -> ZeroBlock],
     bad   |-> {}]

(* Damage k applied to device d.                                           *)
Damage(k, d) ==
    CASE k = 1  -> [d EXCEPT !.block[5][1] = Ent(6, "f")]          \* stray entry, inode > INODES
      [] k = 2  -> [d EXCEPT !.inode[4].zone[0] = 6]               \* /f shares /d's block
      [] k = 3  -> [d EXCEPT !.inode[2].zone[0] = 8]               \* /d takes /f's block
      [] k = 4  -> [d EXCEPT !.inode[4].nlinks = 2]                \* wrong link count
      [] k = 5  -> [d EXCEPT !.imap = @ \ {4}]                     \* used inode unmarked
      [] k = 6  -> [d EXCEPT !.imap = @ \cup {5}]                  \* free inode marked
      [] k = 7  -> [d EXCEPT !.zmap = @ \ {8}]                     \* used zone unmarked
      [] k = 8  -> [d EXCEPT !.zmap = @ \cup {9}]                  \* free zone marked
      [] k = 9  -> [d EXCEPT !.zmap = @ \cup {9}, !.bad = @ \cup {9}] \* ... and unreadable
      [] k = 10 -> [d EXCEPT !.inode[4].zone[0] = 10]              \* zone >= ZONES
      [] k = 11 -> [d EXCEPT !.inode[2].zone[1] = 1]               \* zone < FIRSTZONE
      [] k = 12 -> [d EXCEPT !.block[3][1].w = 10]                 \* bad word in indirect block
      [] k = 13 -> [d EXCEPT !.block[7][0] = Ent(0, "")]           \* "." entry deleted
      [] k = 14 -> [d EXCEPT !.inode[3].size = 3]                  \* directory too small
      [] k = 15 -> [d EXCEPT !.bad = @ \cup {7}]                   \* directory block unreadable
      [] k = 16 -> [d EXCEPT !.inode[4].zone[1] = 9, !.block[9] = Ptrs(9, 2)]   \* indirect block
      [] k = 17 -> [d EXCEPT !.inode[4].zone[2] = 9, !.block[9] = Ptrs(9, 10)]  \* double indirect
      [] k = 18 -> [d EXCEPT !.inode[5].mode = "reg"]              \* free inode with a mode
      [] k = 19 -> [d EXCEPT !.inode[5] = Ino("reg", 1, 1, 9, 0, 0), \* orphaned file
                             !.imap = @ \cup {5}, !.zmap = @ \cup {9}]
      [] k = 20 -> [d EXCEPT !.inode[1].mode = "reg"]              \* root not a directory
      [] k = 21 -> [d EXCEPT !.block[6][1].w = 3]                  \* /d/.. names /e
      [] k = 22 -> [d EXCEPT !.block[6][0].name = "f"]             \* /d's "." renamed
      [] k = 23 -> [d EXCEPT !.block[4][1] = Ent(0, "")]           \* /e's entry deleted
      [] k = 24 -> [d EXCEPT !.inode[3].size = 2^OffBits - 1]      \* /e as large as i_size allows
      [] k = 27 -> [d EXCEPT !.super = @ \cup {"magic"}]           \* unknown magic number
      [] k = 28 -> [d EXCEPT !.super = @ \cup {"zmaps"}]           \* s_zmap_blocks too small
      [] k = 29 -> [d EXCEPT !.super = @ \cup {"firstzone"}]       \* s_firstdatazone not normal
      [] k = 30 -> [d EXCEPT !.bad = @ \cup {3}]                   \* root's indirect block unreadable
      [] k = 31 -> [d EXCEPT !.super = @ \cup {"tables"}]          \* inode table cut short
      [] k = 32 -> [d EXCEPT !.inode[4].zone[1] = 9, !.block[9] = Ptrs(10, 0), \* /f's indirect
                             !.zmap = @ \cup {9}]                 \* block, word >= ZONES

(* Damage to the triple-indirect slot, which only v2 has.                  *)
Damage2(k, d) ==
    CASE k = 25 -> [d EXCEPT !.inode[4].zone[3] = 9, !.block[9] = Ptrs(8, 10)] \* tind block
      [] k = 26 -> [d EXCEPT !.inode[2].zone[3] = 10]                          \* tind zone >= ZONES

RECURSIVE DamageAll(_, _)
DamageAll(d, ks) == IF ks = {} THEN d
                    ELSE LET k == Min(ks)
                         IN  DamageAll(IF k \in {25, 26} THEN Damage2(k, d) ELSE Damage(k, d), ks \ {k})

(* The base tree on a v2 file system (MINIX2_SUPER_MAGIC), whose 16-bit   *)
(* i_nlinks holds the root's four links whatever the counter width.        *)
Base2 == [Base EXCEPT !.version = 2, !.inode[1].nlinks = 4]

(* Device b with at most two of the damages ks, and with exactly one.     *)
UpToTwoOf(b, ks) == {DamageAll(b, {x, y}) : x, y \in ks} \cup {b}
UpToTwo(ks) == UpToTwoOf(Base, ks)
Single(ks) == {DamageAll(Base, {a}) : a \in ks}

RepairImages == UpToTwo((1..20) \cup {23, 27, 28, 29, 30, 31})
ReadOnlyImages == UpToTwo((1..21) \cup {23, 27, 28, 29, 30, 31})
(* v1 and v2 devices: for v2 also the triple-indirect damages.             *)
BothRepairImages == RepairImages \cup UpToTwoOf(Base2, (1..20) \cup {23, 25, 26, 29, 30, 31})
BothReadOnlyImages == ReadOnlyImages \cup UpToTwoOf(Base2, (1..21) \cup {23, 25, 26, 29, 30, 31})

(* Devices on which one question of the code and the spec is decided.     *)
InlineRewriteImages == Single({1, 32})
IndirectRewriteImages == Single({32})
GateImages == Single({4})
RenamedDotImages == Single({22})
MisdirectedDotDotImages == Single({21})
OversizeDirImages == Single({24})
OrphanImages == Single({19})
BaseImages == {Base}
=============================================================================
