---------------------------- MODULE BlockService ----------------------------
(***************************************************************************)
(* The virtual drives behind the block port: the QNICE firmware's single   *)
(* polling thread (M2M/rom/shell.asm HANDLE_IO, HANDLE_DRV_RD,             *)
(* HANDLE_DRV_WR; CORE/m2m-rom/flpdrv.asm for the internal drive), the     *)
(* shared block buffer (CORE/vhdl/vd_glue.vhd) and the mounts.             *)
(*                                                                         *)
(* InternalA says that drive A: is the MEGA65's own floppy drive: its      *)
(* blocks can fail, and each acknowledge leaves the block-error level as   *)
(* it sets it.  The other drives' handlers never touch the level.          *)
(***************************************************************************)
EXTENDS StorageData

CONSTANT InternalA
ASSUME InternalAAssumption == InternalA \in BOOLEAN

VARIABLES
  ack,       \* the acknowledge levels
  copying,   \* the acknowledged block is still being copied to the buffer
  blk_err,   \* the block-error level (FLP_CTL_BLKERR)
  buf,       \* the dual-port block buffer
  slot,      \* the image each drive has mounted (drive_mounted is its level)
  flp_ro,    \* the internal drive's disk is write-protected (FLP_RO)
  disk       \* the content of the images

serviceVars == <<ack, copying, blk_err, buf, slot, flp_ro, disk>>

ServiceTypeOK ==
  /\ ack \in [VDrives -> BOOLEAN]
  /\ copying \in BOOLEAN /\ blk_err \in BOOLEAN
  /\ buf \in Block
  /\ slot \in [VDrives -> Slots] /\ flp_ro \in BOOLEAN
  /\ disk \in [DiskSectors -> Block]

ServiceInit ==
  /\ ack = [d \in VDrives |-> FALSE]
  /\ copying = FALSE /\ blk_err = FALSE
  /\ buf = ZeroBlock
  /\ slot = [d \in VDrives |-> NoImage] /\ flp_ro = FALSE
  /\ disk = [s \in DiskSectors |-> ImageBlock(s[1], s[2])]

Mounted(d) == slot[d] # NoImage
Internal(d) == InternalA /\ d = 0
FirmwareIdle == \A d \in VDrives : ~ack[d]

HasSector(d, l) == <<slot[d], l>> \in DiskSectors
Stored(d, l) ==
  IF HasSector(d, l) THEN disk[<<slot[d], l>>] ELSE ZeroBlock

Store(d, l) ==
  disk' = IF HasSector(d, l) THEN [disk EXCEPT ![<<slot[d], l>>] = buf] ELSE disk

SetAck(d, level) == ack' = [ack EXCEPT ![d] = level]

(* An image block is read: the acknowledge is high while it is copied.     *)
ImageReadBegins(d) ==
  /\ FirmwareIdle /\ ~Internal(d)
  /\ SetAck(d, TRUE) /\ copying' = TRUE
  /\ UNCHANGED <<blk_err, buf, slot, flp_ro, disk>>

(* An image block is written, then acknowledged with a pulse.              *)
ImageWrite(d, l) ==
  /\ FirmwareIdle /\ ~Internal(d)
  /\ Store(d, l)
  /\ SetAck(d, TRUE)
  /\ UNCHANGED <<copying, blk_err, buf, slot, flp_ro>>

(* The internal drive: the work is done first, then the level and a pulse. *)
(* No disk, a sector it does not have or a write to a protected disk fail. *)
(* Bug: the write protection of the disk is not looked at.                 *)
RefusedIfAbsent(d, op, l) == ~HasSector(d, l)
Refused(d, op, l) == ~HasSector(d, l) \/ (op = "write" /\ flp_ro)

InternalServe(d, op, l, err) ==
  /\ FirmwareIdle /\ Internal(d)
  /\ Refused(d, op, l) => err
  /\ IF op = "read" /\ ~err THEN buf' = Stored(d, l) ELSE buf' = buf
  /\ IF op = "write" /\ ~err THEN Store(d, l) ELSE disk' = disk
  /\ blk_err' = err
  /\ SetAck(d, TRUE)
  /\ UNCHANGED <<copying, slot, flp_ro>>

AckEnds(d, l) ==
  /\ ack[d]
  /\ buf' = IF copying THEN Stored(d, l) ELSE buf
  /\ SetAck(d, FALSE) /\ copying' = FALSE
  /\ UNCHANGED <<blk_err, slot, flp_ro, disk>>

(* A mount or unmount: between two blocks, the firmware is one thread.  A  *)
(* change of the internal drive's disk also drops the error level.         *)
Mount(d, img, ro) ==
  /\ FirmwareIdle
  /\ slot' = [slot EXCEPT ![d] = img]
  /\ blk_err' = (blk_err /\ ~Internal(d))
  /\ flp_ro' = IF Internal(d) THEN ro ELSE flp_ro
  /\ UNCHANGED <<ack, copying, buf, disk>>

(* The bridge's side of the buffer.                                        *)
PutByte(i, b) ==
  /\ buf' = [buf EXCEPT ![i] = b]
  /\ UNCHANGED <<ack, copying, blk_err, slot, flp_ro, disk>>
=============================================================================
