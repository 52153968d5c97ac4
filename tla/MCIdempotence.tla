--------------------------- MODULE MCIdempotence ---------------------------
(***************************************************************************)
(* Two runs of mfsck in sequence.  The first is started with -a or with -r *)
(* (the operator answering each question either way); when it ends         *)
(* normally, or is killed by a fatal signal at any step after read_tables, *)
(* the program is started again with -a on the device the first one left.  *)
(***************************************************************************)
EXTENDS MCMinixFsck

VARIABLES
    run,     \* 1 during the first run, 2 during the second
    opts,    \* the first run's option: "-a" or "-r"
    first    \* how the first run ended: "running", "exit" or "killed"

ivars == <<vars, run, opts, first>>

(* The checker started with -r: the same module, ask() reading y or n.     *)
Interactive == INSTANCE MCMinixFsck WITH Automatic <- FALSE

IInit == Init /\ run = 1 /\ opts \in {"-a", "-r"} /\ first = "running"

(* A step of the first run, under its option.                              *)
FirstStep ==
    /\ run = 1
    /\ IF opts = "-a" THEN Next ELSE Interactive!Next
    /\ UNCHANGED <<run, opts, first>>

(* A step of the second run, always -a.                                    *)
SecondStep == run = 2 /\ Next /\ UNCHANGED <<run, opts, first>>

(* A fatal signal ends the first run.                                      *)
Kill == run = 1 /\ Killed /\ UNCHANGED <<run, opts, first>>

(* The first run has exited (not with 8) or was killed, and the checker is *)
(* started again.                                                          *)
Rerun ==
    /\ run = 1 /\ (Normal \/ pc = "killed")
    /\ run' = 2 /\ first' = pc /\ UNCHANGED opts
    /\ LET b == Boot(disk) IN
       /\ image' = b.image /\ disk' = b.disk /\ sstate' = b.sstate
       /\ imap' = b.imap /\ zmap' = b.zmap /\ inode' = b.inode
       /\ inode_count' = b.inode_count /\ zone_count' = b.zone_count
       /\ changed' = b.changed /\ errors' = b.errors /\ buf' = b.buf
       /\ zstack' = b.zstack /\ target' = b.target /\ dstack' = b.dstack
       /\ fblk' = b.fblk /\ idx' = b.idx /\ pc' = b.pc /\ exitcode' = b.exitcode

INext == FirstStep \/ SecondStep \/ Kill \/ Rerun

ISpec == IInit /\ [][INext]_ivars

(* A second automatic repair run finds nothing left to change: every      *)
(* repair of a first -a run (check_zones' clears and marks, check_counts'  *)
(* unmarks and relinks, the inline block rewrites) reaches a fixpoint.     *)
Idempotent ==
    run = 2 /\ opts = "-a" /\ first = "exit" /\ Normal => ~changed /\ disk = image

(* A first run left incomplete, killed at any point after read_tables      *)
(* (with add_zone_ind/dind's, map_block's and check_file's inline writes   *)
(* done, or inside write_tables after the superblock) or run with -r and  *)
(* some fixes refused,                                                     *)
(* leaves a device that the next automatic run repairs completely: its     *)
(* link counts, inode bitmap, zone fields and zone bitmap agree.           *)
CrashRecovered ==
    run = 2 /\ (first = "killed" \/ opts = "-r") /\ Normal =>
        LinkCountsAgree(disk) /\ ZoneMapAgrees(disk)
=============================================================================
