# TLA+ models of mfsck (src/elks/tools/mfsck/mfsck.c)

`mfsck` checks a Minix v1 or v2 file system image and can also repair it. It is a single-threaded C
program. It reads the superblock, the two bitmaps and the inode table into memory, then:

1. walks the directory tree from the root, counting references to inodes and zones and
   validating zone numbers;
2. reconciles the counts with the bitmaps and the link counts;
3. writes the tables back if anything changed.

Operator questions (`ask`) decide every repair. Some repairs reach the device immediately: a
cleared word of an indirect block, or a removed directory entry. The others are kept in memory
until the final `write_tables`.

No threads or messages are involved. The hard parts are the following:

- two mutually recursive walks over a structure that is itself corrupt: the zone walk of
  `check_zones` and the directory walk of `recursive_check`/`check_file`;
- static buffers shared across recursion levels;
- fixes that are written inline, next to fixes that are deferred;
- the order of checks inside `check_counts`;
- unsigned arithmetic in `map_block`/`map_block2`;
- the exit code and the superblock state flags, which must report all of the above.

## Inventory

| Part | Source (mfsck.c) | State | Operations | Model |
|---|---|---|---|---|
| Block I/O | `read_block` 396–415, `write_block` 420–438 | device blocks, unreadable zones | read (zero-fill on error), write (refuse out-of-range, report failure) | `MinixImage`: `ReadBlock`, `ReadErr`, `WriteBlock`, `WriteErr` |
| Superblock and gate | `read_superblock` 590–625, `main` 1322–1375, `write_super_block` 536–555, `check_root` 767–781 | `Super.s_state`, the superblock's defects | die (exit 8) on a bad magic, zone size or map size; gate on VALID/ERROR/`force`; root must be a directory; state flags at the end | `MinixFsck`: `Start`, `SuperblockFatal`, `CleanSkip`, `RootIsDir`, `FinalState`, `force`; `MinixImage`: `SuperDefects` |
| Tables | `read_tables` 627–666, `check` 1255–1262 | `inode_map`, `zone_map`, `inode_buffer`, `inode_count`, `zone_count` | allocate (a NULL result dies, except the zone map's, whose test is made on the inode map), load, FIRSTZONE warning, clear the counters | `Start`, `ReadTables`, `TablesUnallocated`, `AllocCaught` |
| Operator | `ask` 253–293 | answers | no (read-only), default (-a), y/n (-r); a "no" sets `errors_uncorrected` | `Replies`, \E-bound answers |
| Zone accounting | `check_zone_nr` 347–368, `add_zone` 783–814, `add_zone_ind` 849–863, `add_zone_dind` 881–895, `check_zones` 929–945 | `zone_count`, `zone_map`, two static blocks | validate, clear duplicates, mark, count, inline rewrite | `CheckZoneNr`, `AddZone`, `CheckZones`, `AddZoneStep`, `EndZoneWalk` |
| Block map | `map_block` 445–477, `map_block2` 479–534 | on-stack ind/dind/tind | logical block to zone, inline rewrite | `MapBlock`/`MapLevel` in `MinixFsck`; `MapReads1`/`MapReads2` in `MapBlock` |
| Traversal | `recursive_check` 1100–1116, `check_file` 966–1031, `get_inode` 668–717 | `inode_count`, `inode_map` | per entry: map, read, remove bad inode number, count, "."/".." tests, recurse | `RecursiveCheck`, `MapBlockStep`, `CheckFile`, `EndDirectory`, `GetInode`, `DotOk`, `BadDirSize` |
| Reconciliation | `check_counts` 1145–1198, `bad_zone` 1136–1143 | bitmaps, `i_nlinks`, `i_mode` | mode clear (-m), unmark/mark inode, relink, unmark zone | `InodeCheck`/`CheckInodeCount`, `ZoneCheck`/`CheckZoneCount` |
| Write-back | `main` 1398–1417, `write_tables` 557–567 | device | superblock first, then inode map, zone map and inode table if changed; else superblock with -r/-a; exit code | `WriteBack`, `WriteTable`, `TableOrder`, `Flushed`, `ExitCode` |
| v2 variants | `*2` functions 371–391, 719–765, 816–847, 865–927, 947–964, 479–534, 1033–1134, 1200–1271 | 32-bit zones, triple indirect, a third static block | same control as v1, plus `add_zone_tind2`; `get_inode2` raises no error without `-r`/`-a` | the v1 operators on devices with `version = 2` (`TopLevel`, `Width`, `GetInode`); `map_block2`'s double and triple paths in `MapBlock` |
| Fatal signals | `fatalsig` 191–200, handlers installed at 1355 | — | kill the process after `read_tables`; nothing is rolled back | `Killed` (fault model, added by `MCIdempotence`) |
| Device-write contract | spec section 5 | device, phase | only zero fields while running; tables once at the exit | `FsckDevice`, refined by `MinixFsck` |
| CLI, mount check, terminal, listing | `main` 1273–1321, `check_mount`, `reset`, `get_current_name` | — | I/O and output | not modelled |

The hazards are listed in `PROJECT.json` at the lines where they bite. They include:

- a directory entered twice;
- static buffers reused across levels;
- fixes written inline that `changed` never records;
- the order of checks in `check_counts`;
- unreadable blocks;
- index arithmetic and wraparound in `map_block`/`map_block2`;
- counter saturation;
- the offset loop of `recursive_check` wrapping;
- a fatal signal or a `die()` between inline writes and the final write;
- the 8-bit link counter of `check_counts2` stored into a 16-bit field;
- `get_dirsize` reading the root's first zone before anything has validated it;
- `read_tables` testing the zone map's allocation on the inode map.

## Modules

- **`MinixImage`** holds the device and the consistency conditions.
  - **Device:** the version (1 or 2, from the magic number), the superblock's defects
    (`SuperDefects`: what `read_superblock` and `read_tables` reject or warn about), its state flags, the inode and zone bitmaps as sets, the inode
    table, the data zones, and the set `bad` of zones whose reads and writes fail.
  - **Block I/O:** the read and write operators of `read_block`/`write_block`.
  - **Consistency conditions of spec section 3:** stated declaratively over a whole device, as
    reference definitions that do not follow the code. They are:
    - `Reach`, the directories reachable through entries other than "." and "..";
    - `Refs`, the entries naming an inode;
    - `Fields`/`Referenced`, the zone fields of the files in the tree, down to the triple
      indirect blocks of a v2 inode (`LevelZones`, a `RECURSIVE` operator over the levels);
    - `LinkCountsAgree` and `ZoneMapAgrees`;
    - `Consistent`, which adds the "."/".." rules, the directory size, readable metadata and,
      with `-m`, cleared modes.
- **`MinixFsck`** is the checker, one action per call or loop iteration. The v2 functions
  repeat the v1 ones statement for statement, so one set of actions models both, taking the
  device's version where they differ: `check_zones2` also walks the triple-indirect slot, and
  `get_inode2` raises no error without `-r`/`-a`.
  - **Control flow:** the program counter `pc` follows main → check → check_counts →
    write-back.
  - **Recursion:** it uses two explicit stacks:
    - `zstack` holds the frames of `check_zones` and of the indirect walkers. Each frame has a
      position and, for a walker, its zone and its "block changed" flag.
    - `dstack` holds the frames of `recursive_check`: the directory and the next offset.
  - **Static buffers:** `buf[1]`, `buf[2]` and `buf[3]` are the `static blk[]` of
    `add_zone_ind`, `add_zone_dind` and `add_zone_tind2` (of their v2 twins on a v2 device).
  - **Answers:** each answer of `ask` is bound by `\E` over `Replies`.
  - **Data abstraction:**
    - A block is `NSLOT` words, read either as zone numbers or as directory entries.
    - Names are `"" . .. f`; only "." and ".." matter to the code.
    - Every zone number ≥ `ZONES` is represented by `ZONES`, and every inode number above
      `INODES` by `INODES + 1`.
  - **Counters:** they keep the unsigned char saturation at `CountMax` (255, or 3 where a run
    needs saturation to happen).
  - **Offsets:** `recursive_check`'s `unsigned int offset` and `i_size` have `OffBits` bits;
    `NextOffset` is `offset += dirsize` with its wraparound.
  - **Stack overflow:** it is `pc = "crash"` at depth `StackLimit`.
  - **The unchecked zone-map malloc:** `TablesUnallocated` also ends in `pc = "crash"`. Writing
    through the NULL map is undefined behaviour: a fault where memory is protected, or on ELKS
    a silent overwrite of the data segment. The model ends the run in either case, without
    the exit 8 that `die()` would give.
  - **Write-back:** `write_tables` is split as the code does it: `WriteBack` writes the
    superblock, then `WriteTable` writes the inode map, the zone map and the inode table, one
    step each, so a fatal signal can fall between any two. The write errors of
    `write_super_block` (549–552) and `write_tables` (561–566), which `die()` after a partial
    write, are not modelled as separate outcomes; a kill at the same point leaves the same
    device, so `CrashRecovered` covers them. Likewise `write_block`'s seek error (431).
  - **Fatal signals:** `Killed` moves any state after `read_tables` to `pc = "killed"`. It is
    not in `Next`; `MCIdempotence` adds it as a fault.
  - **Refinement:** `Device == INSTANCE FsckDevice WITH dev <- disk, phase <- ...` maps the
    checker onto the abstract device-write contract; `WritesOnlyClearFields == Device!Spec`.
- **`FsckDevice`** is the abstract specification of what the checker may do to the device,
  from spec section 5. While it runs (`phase = "check"`) a step may only set words of blocks to
  0 (`ClearFields`); at the end (`WriteSuper`, then `WriteTable` once per table, or `Finish`)
  the superblock is written with VALID set and then the bitmaps and inode table one at a time,
  or nothing is written, and the blocks are not touched.
- **`MCMinixFsck`** defines the devices: one well-formed tree (root, two subdirectories, one
  file, one free inode, one free zone) and 32 damages (21, 22 and 24 are used alone by violation runs, 32 only by `exit_code`; 25 and 26 only on v2). The runs start from the base tree or
  from one or two damages applied to it, so every run enumerates all the damage combinations
  of its set.
- **`MCIdempotence`** composes two runs of the checker. The first run may be killed at any step
  after `read_tables` (`Kill`, the fault). When it exits normally or is killed, the program is
  booted again on the device it left (`Rerun`); `first` records which. The first run's option
  `opts` is `-a` or `-r`; an `-r` run takes its steps from `Interactive`, an `INSTANCE` of
  `MCMinixFsck` with `Automatic <- FALSE`, so `ask` answers each question yes or no. The
  second run is always `-a` (`SecondStep`).
- **`MapBlock`** is a pure-algorithm module. It holds the index arithmetic of `map_block` and
  `map_block2` with unsigned wraparound at `Bits` bits, checked against the reference zone
  layout (`Layout`, via the `RECURSIVE` operator `Below`) for every block number up to
  `MaxBlk`.

How the state and actions map onto the code:

| Model | Code |
|---|---|
| `image` | the device at start; it is history for the properties |
| `disk` | the device file |
| `imap` / `zmap` / `inode` | the in-memory tables |
| `changed`, `errors` | `changed`, `errors_uncorrected` |
| `Start` | `read_superblock`, the gate, `read_tables`, `check_root`, and the start of `check()` |
| `TablesUnallocated` | a NULL from one of `read_tables`' mallocs (with `AllocFails`) |
| `AddZoneStep` / `EndZoneWalk` | one `add_zone` / the end of a walker, with its write-back |
| `RecursiveCheck` | entry into `recursive_check` |
| `MapBlockStep` / `CheckFile` | the two halves of `check_file` |
| `EndDirectory` | the end of the offset loop |
| `CheckInodeCount` / `CheckZoneCount` | one iteration of each `check_counts` loop |
| `WriteBack` | the end of `main`, and `write_super_block` (first in `write_tables`) |
| `WriteTable` | one table write of `write_tables`: inode map, zone map, inode table, in that order |
| `Killed` | `fatalsig` re-raising SIGINT/SIGQUIT/SIGTERM |
| `FsckDevice` `phase` | `"done"` once `pc = "exit"`, `"check"` before (and after a kill or stack overflow) |

## Runs

| Run | Expect | What it shows |
|---|---|---|
| `repair_auto` | pass | `-a`, 2-bit counters (`CountMax = 3`: the root's four links saturate its count), v1 and v2 base tree and ≤2 of damages 1–20, 23 and 27–31 (v2: 1–20, 23, 25, 26, 29–31), malloc failures allowed, under `FairSpec`. `RepairedLinkCounts`, `RepairedZoneBitmap`: a normal exit leaves the device's inode bitmap, `i_nlinks` (at the saturated count), zone fields and zone bitmap consistent with the tree. `UnreportedLinkCountsExact`: an exit without the 4 bit leaves every `i_nlinks` equal to the number of entries. The v2 root holds its four links exactly in its 16-bit field, which `check_counts2` lowers to the saturated count; the property holds because `get_inode` reports the saturation, and it has teeth on the devices with damage 23, whose root count does not saturate. `UnreportedRepairKeepsData`: an exit without the 4 bit has freed no zone or inode that the device, read with every block readable (`Raw`), still references. Damage 30 makes the root's indirect block unreadable: the zones behind it and the inodes their entries name look free, and `-a` unmarks them; the property holds because `read_block` raises the 4 bit. `Termination`: every run ends. `WritesOnlyClearFields`: the checker refines `FsckDevice`, so whatever a fatal signal leaves on the device differs from the original only by zeroed fields. |
| `readonly` | pass | No `-r`/`-a`, `-m`, v1 and v2, ≤2 of damages 1–21, 23 and 27–31 (v2: 1–21, 23, 25, 26, 29–31), malloc failures allowed. `ReadOnlyNeverWrites`: the device is never written. `DetectsInconsistency`: exit bit 4 is set exactly when `Consistent(image)` is false, in both directions. `ConsistentCounts`: on a consistent device every readable zone is counted once iff it is marked. `TypeOK`. |
| `idempotence` | pass | A first run with `-a` or `-r` (the operator answering each question yes or no), then an `-a` run, v1 and v2, ≤2 of damages 1–20, 23 and 27–31 (v2: 1–20, 23, 25, 26, 29–31), the first possibly killed at any step. `Idempotent`: after a normal first `-a` run the second changes nothing (spec property 1). `CrashRecovered`: after a killed first run, or an `-r` first run with any fixes refused, the second leaves link counts, bitmaps and zone fields consistent. |
| `map_block` | pass | `map_block` reads the slot and words the v1 layout gives, for every block of the largest v1 file (K = 5, 8-bit arithmetic). |
| `exit_code` | violation | Damages 1 and 32, each alone. Damage 1 (a stray inode number in an entry): `check_file` removes the entry and writes the block (line 983) without setting `changed`, so the run exits 0 (S3 expects 3); this is the trace TLC reports. Damage 32 (`/f`'s indirect block holding one word ≥ `ZONES`, nothing else wrong): `add_zone_ind` clears it and writes the block back (861) through its local `chg_blk`, and the run also exits 0; `Images <- IndirectRewriteImages` shows that trace. Damage 12, whose indirect block also carries a duplicate that `check_counts` repairs, exits 3. |
| `gate` | violation | Without `-f`, a valid device is still checked and repaired: `force` starts at 1 (line 129). |
| `dir_cycle` | violation | A directory whose entry 0 names itself as "f": `check_file` recurses into it again until the stack overflows. |
| `dotdot_unmarks` | violation | Damage 21 (`/d/..` names `/e`) under `-a`: `get_inode` counts `/e` at `/d`'s "..", so when the root's entry reaches `/e` its count is 2 and `check_zones` returns (line 935); zone 7, `/e`'s directory block, is never counted and `check_counts` unmarks it. The run exits 3, no uncorrected error, with a live block free (`RepairedZoneBitmap`, spec invariant 3). |
| `idempotence_warn` | violation | With `-m`, an orphaned inode is unmarked by run 1 and has its mode cleared only by run 2. |
| `map_block_bounds` | violation | `MapBlockInBounds`, over v1 and v2: a block number beyond the largest v1 file makes `map_block` read `dind[5]` of a 5-word array, and the inverted `blknr >= 256*256` test of `map_block2` (line 499) sends block 12, the first double-indirect block, to `tind[9]`. TLC reports the first counterexample it meets, the v1 one (block 37); with `MaxBlk = 36`, which keeps every v1 block inside the layout, it reports the v2 one. |
| `alloc_fails` | violation | `TablesLoadOrDie`: on the base device with every `malloc` of `read_tables` allowed to fail, a NULL zone map is tested on the inode map (line 633), so the program writes through it instead of dying with exit 8. |
| `dir_size_wrap` | violation | `/e` with `i_size = 2^OffBits − 1`: the offset goes 0, 2, …, 14 and wraps to 0, and `recursive_check` loops for ever (`Termination`, under weak fairness). |

Every property of a passing run has a mutant in `PROJECT.json`. A mutant is a plausible coding
error in one mapped operator, defined just before it: a dropped "." test, an off-by-one,
ignoring the answer of `ask`, a missing `continue`, and so on. Under the run's configuration,
TLC finds the property violated for every mutant.

## Bounds

- **Inodes, zones and layout.** There are 5 inodes and data zones 2..9; inode 5 and zone 9 are
  free, so damage has room. Each inode has one direct slot, one single-indirect slot and one
  double-indirect slot. A block holds two words, and an entry is two bytes, so a block holds
  two entries.
- **The base tree.** The root directory spans three blocks: one direct block and two reached
  through its indirect block. This makes `map_block` take its indirect path on every run.
  The tree has two subdirectories, so that ".." and sibling order matter.
- **Versions.** `repair_auto`, `readonly` and `idempotence` start on the v1 and the v2 base tree;
  damages 25 and 26 (v2 only) put a triple-indirect block with a duplicate and an invalid word,
  and an invalid triple-indirect zone, into the tree.
- **The damages.** They cover every check of the code:
  - zone numbers that are too small, too large or duplicated, in inode slots, in indirect
    blocks and in double-indirect blocks;
  - both bitmaps, in both directions;
  - link counts and modes;
  - an out-of-range inode number, a missing ".", a too-small directory, an unreadable
    directory block, an unreadable indirect block (damage 30) and an unreadable marked zone;
  - an indirect block whose only defect is a word ≥ `ZONES` (damage 32);
  - a bad magic number and a too-small zone map (exit 8 before the gate), an inode table cut
    short (damage 31: `read_tables`' short read, exit 8 after the gate), and a first data
    zone other than the normal one (an uncorrected warning);
  - an orphaned file, an orphaned directory (damage 23: `/e`'s entry deleted), and a root that
    is not a directory (exit 8).

  Pairs of damages exercise their interactions, for example a duplicated zone inside an
  indirect block that is itself bad.
- **The stack and the counters.** `StackLimit = 6` is above the depth of any tree in the set,
  so only a cycle reaches it. `CountMax = 255` keeps the real width, where saturation never
  happens; `repair_auto` narrows the counters to 2 bits (`CountMax = 3`, with `i_nlinks`, an
  8-bit field as wide as the counter in v1, narrowed alike), so that the root's fourth
  reference saturates its count on every device but those with damage 23. v2's 16-bit
  `i_nlinks` keeps twice the counter's width there (`LinkMax2 = 15`, 65535 elsewhere).
- **Offsets.** `OffBits = 4` keeps the code's relation: `i_size` and `offset` have the same
  width, and the base tree's directories (12 and 4 bytes) stay below 2^4 − `DIRSIZE`, so only
  damage 24 wraps.
- **`MapBlock`.** `K = 5` and `Bits = 8` keep the code's relation 2^Bits > K³. With that
  relation, the wrapped `blknr - K²` divided by K² exceeds K, as 2^32/65536 exceeds 256 in
  the code.

## Fairness

`FairSpec == Spec /\ WF_vars(Next)`. The program is one sequential process that waits on
nothing but the operator (whose answers are `\E`-bound inputs), so some step of `Next` is
enabled until it ends, and weak fairness of `Next` only says that the process is not
suspended for ever. `Termination` is checked under it. `Ended` is the terminated program,
which is why deadlock checking stays on. Fatal signals are not assumed to happen or not: they
are a fault action outside `Next`, and no fairness is attached to them.

## Not modelled

- **The command line** (`main` 1294–1313): its result is the constants `Repair`, `Automatic`,
  `WarnMode` and `ForceOption`, and each cfg gives a combination the parser produces (`-a`,
  `-r`, neither; `ForceOption = TRUE` is the code's, since `force` starts at 1, and `gate`
  sets it FALSE to ask what the spec asks). The parse itself, the usage error (exit 16), `-V`,
  and the `isatty` check of `-r` (exit 8) end the program before the device is opened and
  change nothing a property is about.
- **Output only:** `check_mount` (an advisory probe, Linux builds only), the terminal handling
  (including `fatalsig`'s `reset`), the listing and statistics, and the name list.
- **A second entry naming a directory.** `check_zones` skips an inode counted before but
  `recursive_check` does not, so such a directory is walked twice and `-a` sets link counts
  above the number of entries; `RepairedLinkCounts` fails on that device. No run includes it;
  the same skip (line 935) reached through a misdirected ".." is the run `dotdot_unmarks`.
- **`get_dirsize`:** the stride is the constant `DIRSIZE`, so a stride chosen from a damaged
  root block is not modelled (hazard at line 576).
- **`map_block2` in the checker:** only its direct and single-indirect paths; v2 directories in
  the devices are small enough never to take the double or triple path, whose arithmetic (and
  its inverted test) is the module `MapBlock`.
- **A misdirected "." that the link counts hide:** `check_file` checks entry 0 by name only
  (line 997); such a device goes unreported in read-only mode. It was a violation run in an
  earlier version of the project and gave its place to `dotdot_unmarks`; `DetectsInconsistency`
  still covers the cases the link counts reveal.

## Plan for the next sittings

1. **A directory named by two entries:** `RepairedLinkCounts` fails on it (see "Not
   modelled"); it is a candidate for a violation run of its own.
2. **`get_dirsize`:** a model of the stride probe needs devices whose blocks hold enough entries
   for the probe offsets 16, 32, …, 512, with the stride as a per-device field.
