----------------------------- MODULE FsckDevice -----------------------------
(***************************************************************************)
(* What the checker promises about its writes to the device (spec section  *)
(* 5, fatal signals): while it traverses, a write to a block only sets     *)
(* fields (zone-number words, entry inode numbers) to 0, so whatever was   *)
(* written before a fatal signal is an image in which "any individual      *)
(* zone-pointer field" may be 0; the superblock, the bitmaps and the inode *)
(* table are written once, at the end, the superblock first and with the   *)
(* state flag VALID, then one table at a time.                             *)
(***************************************************************************)
EXTENDS MinixImage

CONSTANT Images   \* the devices the checker may be started on

VARIABLES
    dev,     \* the device
    phase    \* "check" while the checker runs, "flush" while it writes the tables, "done" once it has exited

(* Block c is block b with some of its words set to 0.                     *)
Cleared(b, c) == \A k \in DOMAIN b : c[k] = b[k] \/ c[k] = [b[k] EXCEPT !.w = 0]

Init == dev \in Images /\ phase = "check"

(* A write during the traversal: blocks lose fields, nothing else changes. *)
ClearFields ==
    /\ phase = "check" /\ phase' = "check"
    /\ dev'.version = dev.version /\ dev'.super = dev.super
    /\ dev'.state = dev.state /\ dev'.imap = dev.imap /\ dev'.zmap = dev.zmap
    /\ dev'.inode = dev.inode /\ dev'.bad = dev.bad
    /\ DOMAIN dev'.block = DOMAIN dev.block
    /\ \A z \in DOMAIN dev.block : Cleared(dev.block[z], dev'.block[z])

(* The flush begins: the superblock is written with VALID set; of the     *)
(* superblock only the state flags change.  The tables may follow.         *)
WriteSuper ==
    /\ phase = "check" /\ phase' \in {"flush", "done"}
    /\ dev' \in Image /\ "VALID" \in dev'.state
    /\ dev' = [dev EXCEPT !.state = dev'.state]

(* One table of the flush is written: the inode map, the zone map or the   *)
(* inode table, nothing else.                                              *)
WriteTable ==
    /\ phase = "flush" /\ phase' \in {"flush", "done"}
    /\ dev' \in Image
    /\ \E t \in {"imap", "zmap", "inode"} : dev' = [dev EXCEPT ![t] = dev'[t]]

(* The checker ends without writing the superblock: the device is as the  *)
(* traversal left it.                                                      *)
Finish == phase = "check" /\ phase' = "done" /\ dev' = dev

Next == ClearFields \/ WriteSuper \/ WriteTable \/ Finish

Spec == Init /\ [][Next]_<<dev, phase>>
=============================================================================
