------------------------------ MODULE MinixFsck ------------------------------
(***************************************************************************)
(* The checker of src/elks/tools/mfsck/mfsck.c: main, check() and check2(),*)
(* check_zones with add_zone/add_zone_ind/add_zone_dind (and the v2 twins  *)
(* with add_zone_tind2), recursive_check with check_file and map_block,    *)
(* check_counts, and the final write-back.  The v2 functions repeat the v1 *)
(* ones statement for statement; the operators below take the device's    *)
(* version where the two differ.                                           *)
(*                                                                         *)
(* The program is sequential; its recursion is modelled with two explicit *)
(* stacks: zstack holds the frames of check_zones and of the indirect      *)
(* walkers, dstack the frames of recursive_check.  An action is one call  *)
(* (add_zone, map_block, the rest of check_file, one iteration of a loop   *)
(* of check_counts), with the operator's answers to its questions as       *)
(* \E-bound inputs.                                                        *)
(***************************************************************************)
EXTENDS MinixImage, Sequences

CONSTANTS
    Repair, Automatic, WarnMode,   \* the -r / -a and -m options
    Images,       \* the devices the checker may be started on
    StackLimit,   \* recursion depth of recursive_check at which the stack overflows
    ForceOption,  \* whether -f is on the command line
    OffBits,      \* width of recursive_check's unsigned offset and of i_size
    AllocFails    \* whether read_tables' mallocs may return NULL

ASSUME Repair \in BOOLEAN /\ Automatic \in BOOLEAN /\ WarnMode \in BOOLEAN
ASSUME Images \subseteq Image /\ StackLimit \in Nat \ {0} /\ ForceOption \in BOOLEAN
ASSUME AllocFails \in BOOLEAN
ASSUME OffBits \in Nat \ {0} /\ \A d \in Images, i \in 1..INODES : d.inode[i].size < 2^OffBits
(* map_block2 is modelled up to its single-indirect path (its double and  *)
(* triple paths are the module MapBlock), so v2 directories stay below.   *)
ASSUME \A d \in Images, i \in 1..INODES :
           d.version = 2 => d.inode[i].size <= (NDIRECT + NSLOT) * NSLOT * DIRSIZE

VARIABLES
    image,        \* the device as it was when the checker started (history)
    disk,         \* the device
    sstate,       \* Super.s_state in super_block_buffer
    imap, zmap,   \* inode_map and zone_map as sets of the inodes / zones marked in use
    inode,        \* inode_buffer
    inode_count, zone_count,
    changed,      \* changed
    errors,       \* errors_uncorrected
    buf,          \* the static blk[] of add_zone_ind (1), add_zone_dind (2), add_zone_tind2 (3)
    zstack,       \* frames of check_zones (kind "inode") and of add_zone_ind/dind (kind "ind")
    target,       \* the inode the running check_zones was called for
    dstack,       \* frames of recursive_check: the directory and the offset of the next check_file
    fblk,         \* the block map_block returned to the running check_file
    idx,          \* the loop index of check_counts
    pc, exitcode

vars == <<image, disk, sstate, imap, zmap, inode, inode_count, zone_count, changed,
          errors, buf, zstack, target, dstack, fblk, idx, pc, exitcode>>

(* force is initialised to 1 and -f sets it to 1: no command line clears it. *)
force == TRUE

(* ask(): without -r/-a every question is answered no; with -a the default *)
(* (yes at every call site below); interactively yes or no.  A "no" sets   *)
(* errors_uncorrected, which the actions below do with ~r.                 *)
Replies == IF ~Repair THEN {FALSE} ELSE IF Automatic THEN {TRUE} ELSE BOOLEAN

(* unsigned char ++ that is put back when it wrapped to 0.                 *)
Sat(n) == IF n = CountMax THEN n ELSE n + 1

(* Mutations: plausible coding errors in the operators that follow each   *)
(* one, used to show that the properties below can fail.                   *)

(* check_zone_nr clearing the field whatever ask() answered.               *)
CheckZoneNrIgnoringAnswer(v, r) ==
    IF v = 0 \/ v \in Zones THEN [res |-> v, val |-> v, fix |-> FALSE, err |-> FALSE]
    ELSE [res |-> 0, val |-> 0, fix |-> TRUE, err |-> ~r]

(* check_zone_nr: a zone field that is neither 0 nor a data zone is        *)
(* reported and, on "Remove block", cleared.                               *)
CheckZoneNr(v, r) ==
    IF v = 0 \/ v \in Zones THEN [res |-> v, val |-> v, fix |-> FALSE, err |-> FALSE]
    ELSE [res |-> 0, val |-> IF r THEN 0 ELSE v, fix |-> r, err |-> ~r]

(* add_zone treating a zone as used before only from its second count.    *)
AddZoneLateDup(v, r1, r2, r3) ==
    LET c    == CheckZoneNr(v, r1)
        dup  == c.res # 0 /\ zone_count[c.res] > 1
        b    == IF dup /\ r2 THEN 0 ELSE c.res
        mark == b # 0 /\ b \notin zmap
    IN  [res    |-> b,
         val    |-> IF dup /\ r2 THEN 0 ELSE c.val,
         fix    |-> c.fix \/ (dup /\ r2),
         err    |-> c.err \/ (dup /\ ~r2) \/ (mark /\ ~r3),
         mark   |-> mark /\ r3,
         zcount |-> IF b = 0 THEN zone_count ELSE [zone_count EXCEPT ![b] = Sat(@)]]

(* add_zone: check the field, clear it on "Clear" if the zone was counted  *)
(* before, mark the zone on "Correct", count it.                           *)
AddZone(v, r1, r2, r3) ==
    LET c    == CheckZoneNr(v, r1)
        dup  == c.res # 0 /\ zone_count[c.res] # 0
        b    == IF dup /\ r2 THEN 0 ELSE c.res
        mark == b # 0 /\ b \notin zmap
    IN  [res    |-> b,
         val    |-> IF dup /\ r2 THEN 0 ELSE c.val,
         fix    |-> c.fix \/ (dup /\ r2),
         err    |-> c.err \/ (dup /\ ~r2) \/ (mark /\ ~r3),
         mark   |-> mark /\ r3,
         zcount |-> IF b = 0 THEN zone_count ELSE [zone_count EXCEPT ![b] = Sat(@)]]

(* The zone walk of check_zones: slots 0..NDIRECT-1 by add_zone, slot      *)
(* NDIRECT by add_zone_ind, slot NDIRECT+1 by add_zone_dind, and in       *)
(* check_zones2 slot NDIRECT+2 by add_zone_tind2; an indirect block's      *)
(* words by the walker one level down.                                     *)
SlotLevel(s) == IF s < NDIRECT THEN 0 ELSE s - NDIRECT + 1
Width(f) == IF f.kind = "inode" THEN NDIRECT + TopLevel(disk) ELSE NSLOT
ChildLevel(f) == IF f.kind = "inode" THEN SlotLevel(f.pos) ELSE f.lvl - 1
Field(f) == IF f.kind = "inode" THEN inode[f.ino].zone[f.pos] ELSE buf[f.lvl][f.pos].w

(* add_zone_ind and add_zone_dind sharing one static block buffer.        *)
SharedWalkerBuf(f) == buf[1]

(* The static blk[] of the walker of frame f: add_zone_ind's for level 1,  *)
(* add_zone_dind's for level 2.                                            *)
WalkerBuf(f) == buf[f.lvl]

(* check_zones skipping every inode already counted once.                 *)
CheckZonesOnce(i, cnt, tbl) ==
    IF cnt[i] > 0 \/ tbl[i].mode \notin {"dir", "reg", "lnk"} THEN << >>
    ELSE << [kind |-> "inode", ino |-> i, lvl |-> 0, blk |-> 0, pos |-> 0, chg |-> FALSE] >>

(* check_zones(i): nothing for an inode counted before or one without     *)
(* zones, else the walk over its slots.                                    *)
CheckZones(i, cnt, tbl) ==
    IF cnt[i] > 1 \/ tbl[i].mode \notin {"dir", "reg", "lnk"} THEN << >>
    ELSE << [kind |-> "inode", ino |-> i, lvl |-> 0, blk |-> 0, pos |-> 0, chg |-> FALSE] >>

(* map_block returning the raw word instead of check_zone_nr's result.     *)
MapLevelRaw(d, blk, k, r) ==
    LET b == ReadBlock(d, blk)
        c == CheckZoneNr(b[k].w, r)
    IN  [res  |-> c.val,
         disk |-> IF c.fix THEN WriteBlock(d, blk, [b EXCEPT ![k].w = c.val]) ELSE d,
         err  |-> ReadErr(d, blk) \/ c.err \/ (c.fix /\ WriteErr(d, blk))]

(* One level of map_block: check word k of indirect block blk, writing the *)
(* block back at once if the word was cleared.                             *)
MapLevel(d, blk, k, r) ==
    LET b == ReadBlock(d, blk)
        c == CheckZoneNr(b[k].w, r)
    IN  [res  |-> c.res,
         disk |-> IF c.fix THEN WriteBlock(d, blk, [b EXCEPT ![k].w = c.val]) ELSE d,
         err  |-> ReadErr(d, blk) \/ c.err \/ (c.fix /\ WriteErr(d, blk))]

(* map_block(inode ino, n): the zone of logical block n, clearing invalid  *)
(* zone fields on the way (inode fields through &changed); map_block2 is    *)
(* the same up to its single-indirect path.                                *)
MapBlock(ino, n, r1, r2, r3) ==
    LET s   == IF n < NDIRECT THEN n ELSE IF n < NDIRECT + NSLOT THEN NDIRECT ELSE NDIRECT + 1
        c   == CheckZoneNr(inode[ino].zone[s], r1)
        tbl == [inode EXCEPT ![ino].zone[s] = c.val]
        m   == n - NDIRECT - NSLOT
        x   == MapLevel(disk, c.res, IF n < NDIRECT + NSLOT THEN n - NDIRECT ELSE m \div NSLOT, r2)
        y   == MapLevel(x.disk, x.res, m % NSLOT, r3)
    IN  IF n < NDIRECT
        THEN [res |-> c.res, inode |-> tbl, disk |-> disk, chg |-> c.fix, err |-> c.err]
        ELSE IF n < NDIRECT + NSLOT
        THEN [res |-> x.res, inode |-> tbl, disk |-> x.disk, chg |-> c.fix, err |-> c.err \/ x.err]
        ELSE [res |-> y.res, inode |-> tbl, disk |-> y.disk, chg |-> c.fix,
              err |-> c.err \/ x.err \/ y.err]

(* get_inode with the counter's wrap put back silently.                   *)
GetInodeSilentSaturation(nr, r) ==
    LET unused == nr # 0 /\ inode_count[nr] = 0 /\ nr \notin imap
    IN  [imap  |-> IF unused /\ Repair /\ r THEN imap \cup {nr} ELSE imap,
         chg   |-> unused /\ Repair /\ r,
         err   |-> unused /\ IF Repair THEN ~r ELSE disk.version = 1,
         count |-> IF nr = 0 THEN inode_count ELSE [inode_count EXCEPT ![nr] = Sat(@)]]

(* get_inode(nr): count a reference; the first one checks the in-use bit   *)
(* ("Mark in use" with -r/-a, an uncorrected error without).  get_inode2   *)
(* has no such error without -r/-a: check_counts2 reports the bit later.   *)
GetInode(nr, r) ==
    LET unused == nr # 0 /\ inode_count[nr] = 0 /\ nr \notin imap
        full   == nr # 0 /\ inode_count[nr] = CountMax
    IN  [imap  |-> IF unused /\ Repair /\ r THEN imap \cup {nr} ELSE imap,
         chg   |-> unused /\ Repair /\ r,
         err   |-> (unused /\ IF Repair THEN ~r ELSE disk.version = 1) \/ full,
         count |-> IF nr = 0 THEN inode_count ELSE [inode_count EXCEPT ![nr] = Sat(@)]]

(* recursive_check's offset kept in a type one bit narrower than i_size.   *)
NextOffsetNarrow(off) == (off + DIRSIZE) % 2^(OffBits - 1)

(* offset += dirsize on an unsigned int: it wraps to 0 past 2^OffBits - 1,  *)
(* so a directory whose i_size exceeds 2^OffBits - dirsize never ends.     *)
NextOffset(off) == (off + DIRSIZE) % 2^OffBits

(* check_file's test of entries 0 and 1: the entry at offset 0 is "." and  *)
(* the one at offset dirsize is "..", naming an inode in range.            *)
DotOk(off, e, ino) ==
    ino # 0 /\ ((off = 0 /\ e.name = ".") \/ (off = DIRSIZE /\ e.name = ".."))

(* recursive_check comparing the size with one entry instead of two.      *)
BadDirSizeOneEntry(size) == size < DIRSIZE

(* recursive_check's size test.                                            *)
BadDirSize(size) == size < 2 * DIRSIZE

(* check_counts correcting i_nlinks only when it is below the count.       *)
InodeCheckRaiseOnly(i, r1, r2, r3) ==
    LET cnt    == inode_count[i]
        clear  == i \notin imap /\ inode[i].mode # "none" /\ WarnMode
        tbl    == IF clear /\ r1 THEN [inode EXCEPT ![i].mode = "none"] ELSE inode
        unmark == cnt = 0 /\ i \in imap
        mark   == cnt # 0 /\ i \notin imap
        relink == cnt # 0 /\ inode[i].nlinks < cnt
    IN  [imap  |-> IF unmark /\ r2 THEN imap \ {i}
                   ELSE IF mark /\ r2 THEN imap \cup {i} ELSE imap,
         inode |-> IF relink /\ r3 THEN [tbl EXCEPT ![i].nlinks = cnt] ELSE tbl,
         chg   |-> (clear /\ r1) \/ ((unmark \/ mark) /\ r2) \/ (relink /\ r3),
         err   |-> (clear /\ ~r1) \/ ((unmark \/ mark) /\ ~r2) \/ (relink /\ ~r3)]

(* check_counts, first loop, inode i with answers r1 r2 r3: "mode not     *)
(* cleared" (with -m), an unreferenced inode marked in use, a referenced   *)
(* one marked unused, and a link count different from the count.          *)
InodeCheck(i, r1, r2, r3) ==
    LET cnt    == inode_count[i]
        clear  == i \notin imap /\ inode[i].mode # "none" /\ WarnMode
        tbl    == IF clear /\ r1 THEN [inode EXCEPT ![i].mode = "none"] ELSE inode
        unmark == cnt = 0 /\ i \in imap
        mark   == cnt # 0 /\ i \notin imap
        relink == cnt # 0 /\ inode[i].nlinks # cnt
    IN  [imap  |-> IF unmark /\ r2 THEN imap \ {i}
                   ELSE IF mark /\ r2 THEN imap \cup {i} ELSE imap,
         inode |-> IF relink /\ r3 THEN [tbl EXCEPT ![i].nlinks = cnt] ELSE tbl,
         chg   |-> (clear /\ r1) \/ ((unmark \/ mark) /\ r2) \/ (relink /\ r3),
         err   |-> (clear /\ ~r1) \/ ((unmark \/ mark) /\ ~r2) \/ (relink /\ ~r3)]

(* check_counts without the "bitmap agrees with count" continue.           *)
ZoneCheckEveryUncounted(z, r) ==
    LET unmark == zone_count[z] = 0 /\ z \notin disk.bad
    IN  [zmap |-> IF unmark /\ r THEN zmap \ {z} ELSE zmap,
         chg  |-> unmark /\ r,
         err  |-> unmark /\ ~r]

(* bad_zone: the read of zone z fails.                                     *)
BadZone(z) == z \in disk.bad

(* check_counts, second loop, zone z with answer r: a marked zone nothing  *)
(* references is unmarked on "Unmark" unless bad_zone() cannot read it;    *)
(* other mismatches are only printed.                                      *)
ZoneCheck(z, r) ==
    LET stale  == IF z \in zmap THEN zone_count[z] # 1 ELSE zone_count[z] # 0
        unmark == stale /\ zone_count[z] = 0 /\ ~BadZone(z)
    IN  [zmap |-> IF unmark /\ r THEN zmap \ {z} ELSE zmap,
         chg  |-> unmark /\ r,
         err  |-> unmark /\ ~r]

(* The superblock state write_super_block stores.                          *)
FinalState == IF errors THEN sstate \cup {"VALID", "ERROR"}
              ELSE (sstate \cup {"VALID"}) \ {"ERROR"}

(* write_tables: after write_super_block, the inode map, the zone map and  *)
(* the inode table, one write each, in this order.                         *)
TableOrder == << "imap", "zmap", "inode" >>
Flushed(t) == [disk EXCEPT ![t] = [imap |-> imap, zmap |-> zmap, inode |-> inode][t]]

(* main's return value: 3 if changed, plus 4 if errors_uncorrected.        *)
ExitCode == (IF changed THEN 3 ELSE 0) + (IF errors THEN 4 ELSE 0)

-----------------------------------------------------------------------------
(* The program as it starts on device d: the globals at their initial     *)
(* values, nothing read yet.                                               *)
Boot(d) ==
    [image |-> d, disk |-> d, sstate |-> {}, imap |-> {}, zmap |-> {},
     inode |-> [i \in 1..INODES |-> [mode |-> "none", nlinks |-> 0, size |-> 0,
                                    zone |-> [s \in Slots |-> 0]]],
     inode_count |-> [i \in 1..INODES |-> 0], zone_count |-> [z \in Zones |-> 0],
     changed |-> FALSE, errors |-> FALSE, buf |-> [l \in 1..3 |-> ZeroBlock],
     zstack |-> << >>, target |-> ROOT_INO, dstack |-> << >>, fblk |-> 0, idx |-> 0,
     pc |-> "start", exitcode |-> 0]

Init ==
    \E d \in Images :
        LET b == Boot(d) IN
        /\ image = b.image /\ disk = b.disk /\ sstate = b.sstate
        /\ imap = b.imap /\ zmap = b.zmap /\ inode = b.inode
        /\ inode_count = b.inode_count /\ zone_count = b.zone_count
        /\ changed = b.changed /\ errors = b.errors /\ buf = b.buf
        /\ zstack = b.zstack /\ target = b.target /\ dstack = b.dstack
        /\ fblk = b.fblk /\ idx = b.idx /\ pc = b.pc /\ exitcode = b.exitcode

(* read_superblock: die() (exit 8) on a magic number, zone size or map    *)
(* size it does not accept.                                                *)
SuperblockFatal(d) == d.super \cap {"magic", "zonesize", "imaps", "zmaps"} # {}

(* The buffers read_tables allocates, and those whose malloc may fail.     *)
Buffers == {"inode_map", "zone_map", "inode_buffer", "inode_count", "zone_count"}
AllocFailures == IF AllocFails THEN Buffers ELSE {}

(* read_tables' NULL tests: zone_map's malloc is tested on inode_map, so   *)
(* its failure passes and the memset of zone_map faults.                   *)
AllocCaught(b) == b # "zone_map"

(* read_tables: the two bitmaps and the inode table as read (a short read *)
(* of any of them is a die(), exit 8), and the "Firstzone !=               *)
(* Norm_firstzone" warning, an uncorrected error.                          *)
ReadTables(d) == [imap |-> d.imap, zmap |-> d.zmap, inode |-> d.inode,
                  short |-> "tables" \in d.super, err |-> "firstzone" \in d.super]

(* check_root / check_root2: die() unless the root inode is a directory.   *)
RootIsDir(tbl) == tbl[ROOT_INO].mode = "dir"

(* main's gate: a device marked valid and not in error is not checked      *)
(* unless force is set.                                                    *)
CleanSkip(d) == "ERROR" \notin d.state /\ "VALID" \in d.state /\ ~force

(* main up to check(): read_superblock, the clean-state gate, read_tables, *)
(* check_root, then check(): counters cleared and check_zones(ROOT_INO).   *)
Start ==
    /\ pc = "start"
    /\ IF SuperblockFatal(disk)
       THEN /\ pc' = "exit" /\ exitcode' = 8
            /\ UNCHANGED <<sstate, imap, zmap, inode, inode_count, zone_count, errors,
                           zstack, target>>
       ELSE IF CleanSkip(disk)
       THEN /\ pc' = "exit" /\ exitcode' = 0
            /\ UNCHANGED <<sstate, imap, zmap, inode, inode_count, zone_count, errors,
                           zstack, target>>
       ELSE LET t == ReadTables(disk) IN
            /\ sstate' = disk.state /\ imap' = t.imap /\ zmap' = t.zmap
            /\ inode' = t.inode /\ errors' = t.err
            /\ inode_count' = [i \in 1..INODES |-> 0]
            /\ zone_count' = [z \in Zones |-> 0]
            /\ IF t.short \/ ~RootIsDir(t.inode)
               THEN pc' = "exit" /\ exitcode' = 8 /\ UNCHANGED <<zstack, target>>
               ELSE /\ zstack' = CheckZones(ROOT_INO, inode_count', t.inode)
                    /\ target' = ROOT_INO
                    /\ pc' = "zones" /\ UNCHANGED exitcode
    /\ UNCHANGED <<image, disk, changed, buf, dstack, fblk, idx>>

(* read_tables, past the gate, gets NULL from one of its mallocs: die()   *)
(* (exit 8), or a fault in memset for the zone map, whose NULL test is     *)
(* made on the inode map.                                                  *)
TablesUnallocated ==
    /\ pc = "start" /\ ~SuperblockFatal(disk) /\ ~CleanSkip(disk)
    /\ \E b \in AllocFailures :
         IF AllocCaught(b) THEN pc' = "exit" /\ exitcode' = 8
         ELSE pc' = "crash" /\ UNCHANGED exitcode
    /\ UNCHANGED <<image, disk, sstate, imap, zmap, inode, inode_count, zone_count, changed,
                   errors, buf, zstack, target, dstack, fblk, idx>>

(* add_zone on the next field of the innermost walker; when the field is   *)
(* an indirect one and add_zone returned a zone, the walker one level down *)
(* reads it into its static buffer and starts on its words.                *)
AddZoneStep ==
    /\ pc = "zones" /\ zstack # << >>
    /\ LET f == Head(zstack) IN
       /\ f.pos < Width(f)
       /\ \E r1, r2, r3 \in Replies :
          LET a    == AddZone(Field(f), r1, r2, r3)
              lvl  == ChildLevel(f)
              down == a.res # 0 /\ lvl > 0
              buf1 == IF f.kind = "inode" THEN buf ELSE [buf EXCEPT ![f.lvl][f.pos].w = a.val]
              next == [f EXCEPT !.pos = @ + 1, !.chg = @ \/ (f.kind = "ind" /\ a.fix)]
          IN /\ inode' = IF f.kind = "inode" THEN [inode EXCEPT ![f.ino].zone[f.pos] = a.val]
                         ELSE inode
             /\ buf' = IF down THEN [buf1 EXCEPT ![lvl] = ReadBlock(disk, a.res)] ELSE buf1
             /\ zmap' = IF a.mark THEN zmap \cup {a.res} ELSE zmap
             /\ zone_count' = a.zcount
             /\ changed' = (changed \/ a.mark \/ (f.kind = "inode" /\ a.fix))
             /\ errors' = (errors \/ a.err \/ (down /\ ReadErr(disk, a.res)))
             /\ zstack' = (IF down
                           THEN << [kind |-> "ind", ino |-> f.ino, lvl |-> lvl, blk |-> a.res,
                                    pos |-> 0, chg |-> FALSE] >>
                           ELSE << >>) \o << next >> \o Tail(zstack)
    /\ UNCHANGED <<image, disk, sstate, imap, inode_count, target, dstack, fblk, idx, pc, exitcode>>

(* The end of add_zone_ind / add_zone_dind (write the block back if a word *)
(* was cleared) or of check_zones.                                         *)
EndZoneWalk ==
    /\ pc = "zones" /\ zstack # << >>
    /\ LET f == Head(zstack) IN
       /\ f.pos = Width(f)
       /\ disk' = IF f.chg THEN WriteBlock(disk, f.blk, WalkerBuf(f)) ELSE disk
       /\ errors' = (errors \/ (f.chg /\ WriteErr(disk, f.blk)))
    /\ zstack' = Tail(zstack)
    /\ UNCHANGED <<image, sstate, imap, zmap, inode, inode_count, zone_count, changed, buf,
                   target, dstack, fblk, idx, pc, exitcode>>

(* After check_zones(ino) in check() and check_file: recursive_check(ino)  *)
(* if ino is a directory (a bad size is reported on entry); the stack      *)
(* overflows at depth StackLimit.                                          *)
RecursiveCheck ==
    /\ pc = "zones" /\ zstack = << >>
    /\ IF inode[target].mode = "dir"
       THEN IF Len(dstack) = StackLimit
            THEN pc' = "crash" /\ UNCHANGED <<dstack, errors>>
            ELSE /\ dstack' = << [dir |-> target, off |-> 0] >> \o dstack
                 /\ errors' = (errors \/ BadDirSize(inode[target].size))
                 /\ pc' = "dir"
       ELSE pc' = "dir" /\ UNCHANGED <<dstack, errors>>
    /\ UNCHANGED <<image, disk, sstate, imap, zmap, inode, inode_count, zone_count, changed,
                   buf, zstack, target, fblk, idx, exitcode>>

(* check_file(dir, offset), first call: block = map_block(dir, offset/BLOCK_SIZE). *)
MapBlockStep ==
    /\ pc = "dir" /\ dstack # << >>
    /\ LET d == Head(dstack) IN
       /\ d.off < inode[d.dir].size
       /\ \E r1, r2, r3 \in Replies :
            LET m == MapBlock(d.dir, d.off \div BLOCK, r1, r2, r3) IN
            /\ fblk' = m.res
            /\ inode' = m.inode
            /\ disk' = m.disk
            /\ changed' = (changed \/ m.chg)
            /\ errors' = (errors \/ m.err)
    /\ pc' = "file"
    /\ UNCHANGED <<image, sstate, imap, zmap, inode_count, zone_count, buf, zstack, target,
                   dstack, idx, exitcode>>

(* The rest of check_file: read the entry; remove an inode number above    *)
(* INODES; get_inode; check "." at offset 0 and ".." at offset dirsize,    *)
(* returning when they are right; otherwise check_zones(ino), followed by  *)
(* recursive_check for a directory.                                        *)
CheckFile ==
    /\ pc = "file"
    /\ LET d   == Head(dstack)
           blk == ReadBlock(disk, fblk)
           k   == (d.off % BLOCK) \div DIRSIZE
           e   == blk[k]
           bad == e.w > INODES
           ino == IF bad THEN 0 ELSE e.w
           ok  == DotOk(d.off, e, ino)
           wrong == (d.off = 0 \/ d.off = DIRSIZE) /\ ~ok
       IN \E r1, r2 \in Replies :
          LET g == GetInode(ino, r2) IN
          /\ disk' = IF bad /\ r1 THEN WriteBlock(disk, fblk, [blk EXCEPT ![k].w = 0]) ELSE disk
          /\ imap' = g.imap
          /\ inode_count' = g.count
          /\ changed' = (changed \/ g.chg)
          /\ errors' = (errors \/ ReadErr(disk, fblk) \/ (bad /\ ~r1)
                        \/ (bad /\ r1 /\ WriteErr(disk, fblk)) \/ g.err \/ wrong)
          /\ dstack' = << [d EXCEPT !.off = NextOffset(@)] >> \o Tail(dstack)
          /\ IF ino = 0 \/ ok
             THEN pc' = "dir" /\ UNCHANGED <<zstack, target>>
             ELSE /\ zstack' = CheckZones(ino, g.count, inode)
                  /\ target' = ino
                  /\ pc' = "zones"
    /\ UNCHANGED <<image, sstate, zmap, inode, zone_count, buf, fblk, idx, exitcode>>

(* recursive_check returns when offset reaches i_size; the return of       *)
(* recursive_check(ROOT_INO) continues check() with check_counts.          *)
EndDirectory ==
    /\ pc = "dir" /\ dstack # << >>
    /\ Head(dstack).off >= inode[Head(dstack).dir].size
    /\ dstack' = Tail(dstack)
    /\ IF Tail(dstack) = << >> THEN pc' = "inodes" /\ idx' = 1 ELSE UNCHANGED <<pc, idx>>
    /\ UNCHANGED <<image, disk, sstate, imap, zmap, inode, inode_count, zone_count, changed,
                   errors, buf, zstack, target, fblk, exitcode>>

(* check_counts, first loop: one iteration, for inode idx.                *)
CheckInodeCount ==
    /\ pc = "inodes"
    /\ \E r1, r2, r3 \in Replies :
       LET c == InodeCheck(idx, r1, r2, r3) IN
       /\ imap' = c.imap
       /\ inode' = c.inode
       /\ changed' = (changed \/ c.chg)
       /\ errors' = (errors \/ c.err)
    /\ IF idx = INODES THEN pc' = "zonecounts" /\ idx' = FIRSTZONE
       ELSE idx' = idx + 1 /\ UNCHANGED pc
    /\ UNCHANGED <<image, disk, sstate, zmap, inode_count, zone_count, buf, zstack, target,
                   dstack, fblk, exitcode>>

(* check_counts, second loop: one iteration, for zone idx.                *)
CheckZoneCount ==
    /\ pc = "zonecounts" /\ idx < ZONES
    /\ \E r \in Replies :
       LET c == ZoneCheck(idx, r) IN
       /\ zmap' = c.zmap
       /\ changed' = (changed \/ c.chg)
       /\ errors' = (errors \/ c.err)
    /\ idx' = idx + 1
    /\ UNCHANGED <<image, disk, sstate, imap, inode, inode_count, zone_count, buf, zstack,
                   target, dstack, fblk, pc, exitcode>>

(* The end of main: with changed, write_tables, whose write_super_block  *)
(* comes first (the tables follow in WriteTable); else write_super_block   *)
(* alone with -r/-a, and the exit code.                                    *)
WriteBack ==
    /\ pc = "zonecounts" /\ idx = ZONES
    /\ sstate' = IF changed \/ Repair THEN FinalState ELSE sstate
    /\ disk' = IF changed \/ Repair THEN [disk EXCEPT !.state = FinalState] ELSE disk
    /\ IF changed THEN pc' = "tables" /\ idx' = 1 /\ UNCHANGED exitcode
       ELSE pc' = "exit" /\ exitcode' = ExitCode /\ UNCHANGED idx
    /\ UNCHANGED <<image, imap, zmap, inode, inode_count, zone_count, changed, errors, buf,
                   zstack, target, dstack, fblk>>

(* write_tables after the superblock: the next table, and after the inode  *)
(* table main's exit code.                                                 *)
WriteTable ==
    /\ pc = "tables"
    /\ disk' = Flushed(TableOrder[idx])
    /\ IF idx = Len(TableOrder)
       THEN pc' = "exit" /\ exitcode' = ExitCode /\ UNCHANGED idx
       ELSE idx' = idx + 1 /\ UNCHANGED <<pc, exitcode>>
    /\ UNCHANGED <<image, sstate, imap, zmap, inode, inode_count, zone_count, changed, errors,
                   buf, zstack, target, dstack, fblk>>

(* fatalsig: SIGINT, SIGQUIT or SIGTERM after the handlers are installed   *)
(* (after read_tables) kills the process; what was written stays written,  *)
(* the in-memory tables are lost.  Not part of Next: fault models add it.  *)
Killed ==
    /\ pc \in {"zones", "dir", "file", "inodes", "zonecounts", "tables"}
    /\ pc' = "killed"
    /\ UNCHANGED <<image, disk, sstate, imap, zmap, inode, inode_count, zone_count, changed,
                   errors, buf, zstack, target, dstack, fblk, idx, exitcode>>

(* The process has ended (exit, a stack overflow or a fatal signal).       *)
Ended == pc \in {"exit", "crash", "killed"} /\ UNCHANGED vars

Next ==
    \/ Start \/ TablesUnallocated \/ AddZoneStep \/ EndZoneWalk \/ RecursiveCheck
    \/ MapBlockStep \/ CheckFile \/ EndDirectory
    \/ CheckInodeCount \/ CheckZoneCount \/ WriteBack \/ WriteTable
    \/ Ended

Spec == Init /\ [][Next]_vars

(* The checker is one sequential process that blocks on nothing but the   *)
(* operator (whose answers are the \E-bound inputs): it keeps taking steps. *)
Fairness == WF_vars(Next)

FairSpec == Spec /\ Fairness

-----------------------------------------------------------------------------
Frame == [kind : {"inode", "ind"}, ino : 1..INODES, lvl : 0..3, blk : ZoneNr,
          pos : 0..(NDIRECT + 3), chg : BOOLEAN]

TypeOK ==
    /\ image \in Image /\ disk \in Image
    /\ sstate \subseteq {"VALID", "ERROR"}
    /\ imap \subseteq 1..INODES /\ zmap \subseteq Zones
    /\ inode \in [1..INODES -> Inode]
    /\ inode_count \in [1..INODES -> 0..CountMax]
    /\ zone_count \in [Zones -> 0..CountMax]
    /\ changed \in BOOLEAN /\ errors \in BOOLEAN
    /\ buf \in [1..3 -> Block]
    /\ zstack \in Seq(Frame) /\ target \in 1..INODES
    /\ dstack \in Seq([dir : 1..INODES, off : Nat])
    /\ fblk \in {0} \cup Zones /\ idx \in Nat
    /\ pc \in {"start", "zones", "dir", "file", "inodes", "zonecounts", "tables", "exit", "crash", "killed"}
    /\ exitcode \in 0..8

Normal == pc = "exit" /\ exitcode < 8

(* recursive_check is never entered for a directory it is already          *)
(* checking: the traversal of check_file/recursive_check follows a tree.   *)
NoReentrantDirectory ==
    \A j, k \in 1..Len(dstack) : j # k => dstack[j].dir # dstack[k].dir

(* Every run of the checker ends: recursive_check's offset loop, the zone  *)
(* walks and check_counts' loops all finish (or the stack overflows).      *)
Termination == <>(pc \in {"exit", "crash"})

(* The device as FsckDevice sees it: the checker is in its "check" phase  *)
(* until write_tables' superblock write, in "flush" while the tables are   *)
(* written, "done" at the exit; a stack overflow or a signal leaves it     *)
(* where it was.                                                           *)
Device == INSTANCE FsckDevice WITH dev <- disk,
                                   phase <- CASE pc = "exit"   -> "done"
                                              [] pc = "tables" -> "flush"
                                              [] OTHER         -> "check"

(* The checker implements FsckDevice: every write it makes before the exit *)
(* (add_zone_ind/dind's write-back of their static blocks, map_block's and *)
(* check_file's inline rewrites) only zeroes fields of the block it read,  *)
(* and write_tables runs once, at the end.                                 *)
WritesOnlyClearFields == Device!Spec

(* After a repair run in which every fix was accepted (-a, or -r with no   *)
(* "no"), check_counts has left the inode bitmap and i_nlinks on the      *)
(* device agreeing with the directory entries that name each inode.       *)
RepairedLinkCounts ==
    Normal /\ Repair /\ (Automatic \/ ~errors) => LinkCountsAgree(disk)

(* A repair run that exits without the 4 bit has left every referenced    *)
(* inode's i_nlinks equal to the number of entries naming it.  The hazard: *)
(* inode_count is an unsigned char, and check_counts2 stores it in v2's    *)
(* 16-bit i_nlinks, lowering a count the counter could not reach; that is  *)
(* acceptable only because get_inode reports the saturation.              *)
UnreportedLinkCountsExact ==
    Normal /\ Repair /\ ~errors =>
        \A i \in 1..INODES : Refs(disk, i) > 0 => disk.inode[i].nlinks = Refs(disk, i)

(* After such a run the zone bitmap and the zone fields on the device are  *)
(* consistent: add_zone's clears and marks and check_counts' unmarks.      *)
RepairedZoneBitmap ==
    Normal /\ Repair /\ (Automatic \/ ~errors) => ZoneMapAgrees(disk)

(* A repair run that exits without the 4 bit has freed nothing the device *)
(* still stores a reference to: every zone a field of the stored tree names *)
(* is marked and every inode an entry names is marked.  The hazard: a      *)
(* block read_block cannot read is zeros to add_zone_ind and map_block, so *)
(* the zones and inodes it names look free to check_counts, which unmarks  *)
(* them; only the error read_block raises tells the operator.             *)
UnreportedRepairKeepsData ==
    Normal /\ Repair /\ ~errors =>
        /\ Referenced(Raw(disk)) \subseteq disk.zmap
        /\ \A i \in 1..INODES : Refs(Raw(disk), i) > 0 => i \in disk.imap

(* Without -r/-a the checker never writes to the device.                   *)
ReadOnlyNeverWrites == [][~Repair => disk' = disk]_vars

(* Without -r/-a the exit code has the 4 bit exactly when the image is     *)
(* inconsistent: every inconsistency is reported and nothing else is.      *)
DetectsInconsistency ==
    Normal /\ ~Repair => (errors <=> ~Consistent(image, WarnMode))

(* On a consistent device, when check_counts starts comparing zones, every *)
(* readable zone has been counted once if its bitmap bit is set and never  *)
(* otherwise: the zone walk of check_zones counts each zone exactly once.  *)
ConsistentCounts ==
    pc = "zonecounts" /\ Consistent(image, FALSE) =>
        \A z \in Zones \ image.bad : zone_count[z] = IF z \in zmap THEN 1 ELSE 0

(* The exit code has the 3 bit ("FILE SYSTEM HAS BEEN CHANGED") whenever  *)
(* the device was modified other than in its state flags.                  *)
ExitCodeReportsChange ==
    Normal /\ [disk EXCEPT !.state = image.state] # image => changed

(* read_tables either hands the traversal its tables or ends the program  *)
(* with die(), exit 8: an allocation failure is fatal with exit 8, never   *)
(* a write through a NULL map (the zone map's malloc result is unchecked). *)
TablesLoadOrDie == [][pc = "start" => pc' \in {"start", "zones", "exit"}]_vars

(* A device marked valid and not in error is left untouched unless -f is   *)
(* given.                                                                  *)
GateHonoured ==
    pc = "exit" /\ "VALID" \in image.state /\ "ERROR" \notin image.state /\ ~ForceOption
        => disk = image /\ exitcode = 0
=============================================================================
