----------------------------- MODULE MgmtBridge -----------------------------
(***************************************************************************)
(* The storage bridge (CORE/rtl/mgmt_bridge.sv): one state machine that    *)
(* serves the ATA controller's and the floppy controller's requests from   *)
(* the framework's virtual drives over the block port.                     *)
(*                                                                         *)
(* Actions take what the machine reads from its neighbours as parameters;  *)
(* StoragePath supplies them and adds what the neighbours do in the same   *)
(* step.  A state of the source that only waits for a bus cycle is part of *)
(* the step it belongs to; the sector streams to and from the floppy       *)
(* controller move one byte per step.                                      *)
(***************************************************************************)
EXTENDS StorageData

VARIABLES
  bstate, seq_ret,
  xzero,                   \* the stream sends zeros (XM_FDD_ZERO)
  xcnt,
  blk_op, blk_drv, blk_lba,   \* the block port's request
  fd_is_wr, fd_drv, fd_lba,
  fd_pend, fd_wait,        \* mount strobe seen; ejected, insert to come
  fd_image, fd_ro_lat,     \* latched at the strobe: an image, read-only
  fd_mounted, fd_ro,
  fd_hold, fd_dead, fd_blk_wr,
  hd_mount_pend, hd_image, hd_ro_lat, hd_present, hd_ro,
  ide_rd_act, ide_wr_act, ide_rem, cur_lba

portVars == <<blk_op, blk_drv, blk_lba>>
streamVars == <<xzero, xcnt>>
fdVars == <<fd_is_wr, fd_drv, fd_lba, fd_dead, fd_blk_wr>>
fdMountVars == <<fd_pend, fd_wait, fd_image, fd_ro_lat, fd_mounted, fd_ro>>
hdVars == <<ide_rd_act, ide_wr_act, ide_rem, cur_lba>>
hdMountVars == <<hd_mount_pend, hd_image, hd_ro_lat, hd_present, hd_ro>>
bridgeVars == <<bstate, seq_ret, portVars, streamVars, fdVars, fdMountVars,
                fd_hold, hdVars, hdMountVars>>

BridgeStates == {"IDLE", "TX", "RX", "BLK_ACK_HI", "BLK_ACK_LO",
  "FDD_REQ", "FDD_DISPATCH", "FDD_RD_CHK", "FDD_WR_STORE", "FDD_WAIT",
  "FDD_ERR", "IDE_MOUNT_GEO", "IDE_RD_FETCH", "IDE_RD_TX", "IDE_WR_STORE",
  "IDE_STEP"}
Returns == {"IDLE", "FDD_RD_TX", "FDD_WAIT", "FDD_WR_STORE",
  "IDE_MOUNT_GEO", "IDE_RD_TX", "IDE_STEP"}

BridgeTypeOK ==
  /\ bstate \in BridgeStates /\ seq_ret \in Returns
  /\ xzero \in BOOLEAN /\ xcnt \in Place
  /\ blk_op \in {"none", "read", "write"}
  /\ blk_drv \in VDrives /\ blk_lba \in Nat
  /\ fd_is_wr \in BOOLEAN /\ fd_drv \in Floppies /\ fd_lba \in Nat
  /\ fd_pend \in [Floppies -> BOOLEAN] /\ fd_wait \in [Floppies -> BOOLEAN]
  /\ fd_image \in [Floppies -> BOOLEAN]
  /\ fd_ro_lat \in [Floppies -> BOOLEAN]
  /\ fd_mounted \in [Floppies -> BOOLEAN] /\ fd_ro \in [Floppies -> BOOLEAN]
  /\ fd_hold \in BOOLEAN /\ fd_dead \in BOOLEAN /\ fd_blk_wr \in BOOLEAN
  /\ hd_mount_pend \in BOOLEAN /\ hd_image \in BOOLEAN
  /\ hd_ro_lat \in BOOLEAN /\ hd_present \in BOOLEAN /\ hd_ro \in BOOLEAN
  /\ ide_rd_act \in BOOLEAN /\ ide_wr_act \in BOOLEAN
  /\ ide_rem \in 0 .. 511 /\ cur_lba \in Nat

BridgeInit ==
  /\ bstate = "IDLE" /\ seq_ret = "IDLE"
  /\ xzero = FALSE /\ xcnt = 0
  /\ blk_op = "none" /\ blk_drv = 0 /\ blk_lba = 0
  /\ fd_is_wr = FALSE /\ fd_drv = 0 /\ fd_lba = 0
  /\ fd_pend = [d \in Floppies |-> FALSE]
  /\ fd_wait = [d \in Floppies |-> FALSE]
  /\ fd_image = [d \in Floppies |-> FALSE]
  /\ fd_ro_lat = [d \in Floppies |-> FALSE]
  /\ fd_mounted = [d \in Floppies |-> FALSE]
  /\ fd_ro = [d \in Floppies |-> FALSE]
  /\ fd_hold = FALSE /\ fd_dead = FALSE /\ fd_blk_wr = FALSE
  /\ hd_mount_pend = FALSE /\ hd_image = FALSE /\ hd_ro_lat = FALSE
  /\ hd_present = FALSE /\ hd_ro = FALSE
  /\ ide_rd_act = FALSE /\ ide_wr_act = FALSE
  /\ ide_rem = 0 /\ cur_lba = 0

-----------------------------------------------------------------------------
(* The dispatcher's order: hard disk mount, ATA request, floppy ejects,    *)
(* floppy inserts, floppy request.  ide is the ATA request level.          *)
HdQuiet(ide) == ~hd_mount_pend /\ ide = "none"
EjectDue(d) == fd_pend[d] /\ ~fd_wait[d]
NoEjectDue == \A d \in Floppies : ~EjectDue(d)

Ask(op, d, l, ret) ==
  /\ blk_op' = op /\ blk_drv' = d /\ blk_lba' = l
  /\ bstate' = "BLK_ACK_HI" /\ seq_ret' = ret

-----------------------------------------------------------------------------
(* Mount strobes of the framework: latched on the rising edge.             *)
FloppyStrobe(d, image, ro) ==
  /\ fd_pend' = [fd_pend EXCEPT ![d] = TRUE]
  /\ fd_image' = [fd_image EXCEPT ![d] = image]
  /\ fd_ro_lat' = [fd_ro_lat EXCEPT ![d] = ro]
  /\ UNCHANGED <<bstate, seq_ret, portVars, streamVars, fdVars, fd_wait,
       fd_mounted, fd_ro, hdVars, hdMountVars>>

HdStrobe(image, ro) ==
  /\ hd_mount_pend' = TRUE /\ hd_image' = image /\ hd_ro_lat' = ro
  /\ UNCHANGED <<bstate, seq_ret, portVars, streamVars, fdVars, fdMountVars,
       hdVars, hd_present, hd_ro>>

(* Hard disk mount: block 0 is fetched for the geometry (abstracted), only *)
(* then the controller is told that the unit is present.                   *)
MountHd ==
  /\ bstate = "IDLE" /\ hd_mount_pend
  /\ hd_mount_pend' = FALSE
  /\ hd_present' = hd_image /\ hd_ro' = hd_ro_lat
  /\ ide_rd_act' = FALSE /\ ide_wr_act' = FALSE
  /\ IF hd_image THEN Ask("read", HardDisk, 0, "IDE_MOUNT_GEO")
     ELSE bstate' = "IDE_MOUNT_GEO" /\ UNCHANGED <<seq_ret, portVars>>
  /\ UNCHANGED <<streamVars, fdVars, fdMountVars, ide_rem, cur_lba, hd_image,
       hd_ro_lat>>

MountHdDone ==
  /\ bstate = "IDE_MOUNT_GEO" /\ bstate' = "IDLE"
  /\ UNCHANGED <<seq_ret, portVars, streamVars, fdVars, fdMountVars, hdVars,
       hdMountVars>>

-----------------------------------------------------------------------------
(* The ATA commands.                                                       *)
IdeReset(ide) ==
  /\ bstate = "IDLE" /\ ~hd_mount_pend /\ ide = "reset"
  /\ ide_rd_act' = FALSE /\ ide_wr_act' = FALSE
  /\ UNCHANGED <<bstate, seq_ret, portVars, streamVars, fdVars, fdMountVars,
       ide_rem, cur_lba, hdMountVars>>

(* A count of 0 means 256.                                                 *)
IdeDispatch(ide, cmd) ==
  /\ bstate = "IDLE" /\ ~hd_mount_pend /\ ide = "command"
  /\ ide_rd_act' = (cmd.op = "read") /\ ide_wr_act' = (cmd.op = "write")
  /\ ide_rem' = cmd.count /\ cur_lba' = cmd.lba
  /\ bstate' = IF cmd.op = "read" THEN "IDE_RD_FETCH" ELSE "IDLE"
  /\ UNCHANGED <<seq_ret, portVars, streamVars, fdVars, fdMountVars,
       hdMountVars>>

(* The PC has emptied or filled the sector buffer.                         *)
IdeData(ide) ==
  /\ bstate = "IDLE" /\ ~hd_mount_pend /\ ide = "data"
  /\ bstate' = IF ide_rd_act THEN "IDE_RD_FETCH"
               ELSE IF ide_wr_act THEN "IDE_WR_STORE" ELSE "IDLE"
  /\ UNCHANGED <<seq_ret, portVars, streamVars, fdVars, fdMountVars, hdVars,
       hdMountVars>>

(* Bug: the last sector of the image counts as outside.                    *)
HdInRangeShort(mounted) ==
  hd_present /\ mounted /\ cur_lba < HdSectors - 1
HdInRange(mounted) ==
  hd_present /\ mounted /\ cur_lba < HdSectors

IdeFetch(mounted) ==
  /\ bstate = "IDE_RD_FETCH"
  /\ xzero' = ~HdInRange(mounted)
  /\ IF HdInRange(mounted) THEN Ask("read", HardDisk, cur_lba, "IDE_RD_TX")
     ELSE bstate' = "IDE_RD_TX" /\ UNCHANGED <<seq_ret, portVars>>
  /\ UNCHANGED <<xcnt, fdVars, fdMountVars, hdVars, hdMountVars>>

(* Bug: the next sector of a transfer is the same one.                     *)
SameSector ==
  cur_lba' = cur_lba /\ ide_rem' = (ide_rem + 511) % 512
NextSector ==
  cur_lba' = cur_lba + 1 /\ ide_rem' = (ide_rem + 511) % 512

(* Bug: the count is compared before it is decremented.                    *)
LastSectorLate == ide_rem = 0
LastSector == ide_rem' = 0

IdeSendSector ==
  /\ bstate = "IDE_RD_TX" /\ bstate' = "IDLE"
  /\ NextSector
  /\ ide_rd_act' = (ide_rd_act /\ ~LastSector)
  /\ UNCHANGED <<seq_ret, portVars, streamVars, fdVars, fdMountVars,
       ide_wr_act, hdMountVars>>

(* A write beyond the image or to a read-only image is dropped.            *)
IdeStore(mounted) ==
  /\ bstate = "IDE_WR_STORE"
  /\ IF HdInRange(mounted) /\ ~hd_ro
     THEN Ask("write", HardDisk, cur_lba, "IDE_STEP")
     ELSE bstate' = "IDE_STEP" /\ UNCHANGED <<seq_ret, portVars>>
  /\ UNCHANGED <<streamVars, fdVars, fdMountVars, hdVars, hdMountVars>>

IdeStored ==
  /\ bstate = "IDE_STEP" /\ bstate' = "IDLE"
  /\ NextSector
  /\ ide_wr_act' = ~LastSector
  /\ UNCHANGED <<seq_ret, portVars, streamVars, fdVars, fdMountVars,
       ide_rd_act, hdMountVars>>

-----------------------------------------------------------------------------
(* Floppy media.                                                           *)
Eject(ide, d) ==
  /\ bstate = "IDLE" /\ HdQuiet(ide)
  /\ EjectDue(d) /\ (d = 1 => ~EjectDue(0))
  /\ fd_pend' = [fd_pend EXCEPT ![d] = FALSE]
  /\ fd_wait' = [fd_wait EXCEPT ![d] = TRUE]
  /\ UNCHANGED <<bstate, seq_ret, portVars, streamVars, fdVars, fd_image,
       fd_ro_lat, fd_mounted, fd_ro, hdVars, hdMountVars>>

(* Bug: the read-only flag of the new disk is forgotten.                   *)
InsertForgetsRo(ide, d) ==
  /\ bstate = "IDLE" /\ HdQuiet(ide) /\ NoEjectDue
  /\ fd_wait[d]
  /\ fd_wait' = [fd_wait EXCEPT ![d] = FALSE]
  /\ fd_mounted' = [fd_mounted EXCEPT ![d] = fd_image[d]]
  /\ UNCHANGED <<bstate, seq_ret, portVars, streamVars, fdVars, fd_pend,
       fd_ro, fd_image, fd_ro_lat, hdVars, hdMountVars>>

(* The eject timer has run out: it may do so at any later step.            *)
Insert(ide, d) ==
  /\ bstate = "IDLE" /\ HdQuiet(ide) /\ NoEjectDue
  /\ fd_wait[d]
  /\ fd_wait' = [fd_wait EXCEPT ![d] = FALSE]
  /\ fd_mounted' = [fd_mounted EXCEPT ![d] = fd_image[d]]
  /\ fd_ro' = [fd_ro EXCEPT ![d] = fd_ro_lat[d]]
  /\ UNCHANGED <<bstate, seq_ret, portVars, streamVars, fdVars, fd_pend,
       fd_image, fd_ro_lat, hdVars, hdMountVars>>

-----------------------------------------------------------------------------
(* Floppy service.                                                         *)
(* Bug: a parked request is dispatched again.                              *)
NotOnlyHeld == ~fd_dead
NotParked == ~fd_hold /\ ~fd_dead

FddRequest(ide, requesting) ==
  /\ bstate = "IDLE" /\ HdQuiet(ide) /\ NoEjectDue
  /\ requesting /\ NotParked
  /\ bstate' = "FDD_REQ"
  /\ UNCHANGED <<seq_ret, portVars, streamVars, fdVars, fdMountVars, hdVars,
       hdMountVars>>

FddSampleKind(writing) ==
  /\ bstate = "FDD_REQ" /\ bstate' = "FDD_DISPATCH"
  /\ fd_is_wr' = writing
  /\ UNCHANGED <<seq_ret, portVars, streamVars, fd_drv, fd_lba, fd_dead,
       fd_blk_wr, fdMountVars, hdVars, hdMountVars>>

(* mounted is the framework's level for drive d.                           *)
FdOk(d, l, mounted) == fd_mounted[d] /\ mounted /\ l < TotalSectors

FddDispatch(d, l, mounted) ==
  /\ bstate = "FDD_DISPATCH"
  /\ fd_drv' = d /\ fd_lba' = l
  /\ xcnt' = 0
  /\ IF fd_is_wr
     THEN /\ bstate' = "RX" /\ seq_ret' = "FDD_WR_STORE"
          /\ xzero' = FALSE /\ UNCHANGED blk_op
     ELSE IF FdOk(d, l, mounted)
          THEN /\ bstate' = "BLK_ACK_HI" /\ seq_ret' = "FDD_RD_TX"
               /\ xzero' = FALSE /\ blk_op' = "read"
          ELSE /\ bstate' = "TX" /\ seq_ret' = "FDD_WAIT"
               /\ xzero' = TRUE /\ UNCHANGED blk_op
  /\ blk_drv' = d /\ blk_lba' = l
  /\ UNCHANGED <<fd_is_wr, fd_dead, fd_blk_wr, fdMountVars, hdVars,
       hdMountVars>>

(* Bug: only the kind and the sector of the request are compared.          *)
FddCheckAnyDrive(reading, d, l) ==
  /\ bstate = "FDD_RD_CHK"
  /\ IF reading /\ l = fd_lba
     THEN bstate' = "TX" /\ seq_ret' = "FDD_WAIT" /\ xcnt' = 0
     ELSE bstate' = "IDLE" /\ UNCHANGED <<seq_ret, xcnt>>
  /\ UNCHANGED <<portVars, xzero, fdVars, fdMountVars, hdVars, hdMountVars>>

(* The block is there: does the controller still wait for it?  reading and *)
(* d, l are its request now.                                               *)
FddCheck(reading, d, l) ==
  /\ bstate = "FDD_RD_CHK"
  /\ IF reading /\ d = fd_drv /\ l = fd_lba
     THEN bstate' = "TX" /\ seq_ret' = "FDD_WAIT" /\ xcnt' = 0
     ELSE bstate' = "IDLE" /\ UNCHANGED <<seq_ret, xcnt>>
  /\ UNCHANGED <<portVars, xzero, fdVars, fdMountVars, hdVars, hdMountVars>>

(* One byte of the stream from or to the controller's FIFO.                *)
StreamStep(s) ==
  /\ bstate = s
  /\ IF xcnt = BlockBytes - 1
     THEN bstate' = seq_ret /\ xcnt' = 0
     ELSE bstate' = s /\ xcnt' = xcnt + 1
  /\ UNCHANGED <<seq_ret, portVars, xzero, fdVars, fdMountVars, hdVars,
       hdMountVars>>

(* Bug: a stored sector returns through FDD_WAIT, as a read does.          *)
AfterStoreWait == "FDD_WAIT"
AfterStore == "IDLE"

FddStore(mounted) ==
  /\ bstate = "FDD_WR_STORE"
  /\ IF FdOk(fd_drv, fd_lba, mounted) /\ ~fd_ro[fd_drv]
     THEN /\ bstate' = "BLK_ACK_HI" /\ seq_ret' = AfterStore
          /\ blk_op' = "write" /\ fd_blk_wr' = TRUE
     ELSE /\ bstate' = "FDD_WAIT" /\ seq_ret' = "FDD_WAIT"
          /\ UNCHANGED <<blk_op, fd_blk_wr>>
  /\ UNCHANGED <<blk_drv, blk_lba, streamVars, fd_is_wr, fd_drv, fd_lba,
       fd_dead, fdMountVars, hdVars, hdMountVars>>

FddWaitOver(requesting) ==
  /\ bstate = "FDD_WAIT" /\ ~requesting /\ bstate' = "IDLE"
  /\ UNCHANGED <<seq_ret, portVars, streamVars, fdVars, fdMountVars, hdVars,
       hdMountVars>>

FddError ==
  /\ bstate = "FDD_ERR" /\ bstate' = "IDLE"
  /\ UNCHANGED <<seq_ret, portVars, streamVars, fdVars, fdMountVars, hdVars,
       hdMountVars>>

-----------------------------------------------------------------------------
(* The block port: the request is held until the acknowledge rises, the    *)
(* outcome counts when it falls.                                           *)
AckRises(ack) ==
  /\ bstate = "BLK_ACK_HI" /\ ack[blk_drv]
  /\ bstate' = "BLK_ACK_LO" /\ blk_op' = "none"
  /\ UNCHANGED <<seq_ret, blk_drv, blk_lba, streamVars, fdVars, fdMountVars,
       hdVars, hdMountVars>>

(* Bug: the error of a failed write is not looked at.                      *)
ErrorIgnored(err) == FALSE
WriteFailed(err) == err /\ fd_blk_wr

(* Bug: the mark of a floppy write outlives its block.                     *)
AckFallsKeepsMark(ack, err) ==
  /\ bstate = "BLK_ACK_LO" /\ ~ack[blk_drv]
  /\ bstate' = IF seq_ret # "FDD_RD_TX" THEN seq_ret
               ELSE IF err THEN "FDD_ERR" ELSE "FDD_RD_CHK"
  /\ fd_dead' = (fd_dead \/ WriteFailed(err))
  /\ UNCHANGED <<seq_ret, portVars, streamVars, fd_is_wr, fd_drv, fd_lba,
       fd_blk_wr, fdMountVars, hdVars, hdMountVars>>

AckFalls(ack, err) ==
  /\ bstate = "BLK_ACK_LO" /\ ~ack[blk_drv]
  /\ bstate' = IF seq_ret # "FDD_RD_TX" THEN seq_ret
               ELSE IF err THEN "FDD_ERR" ELSE "FDD_RD_CHK"
  /\ fd_dead' = (fd_dead \/ WriteFailed(err))
  /\ fd_blk_wr' = FALSE
  /\ UNCHANGED <<seq_ret, portVars, streamVars, fd_is_wr, fd_drv, fd_lba,
       fdMountVars, hdVars, hdMountVars>>

(* Every clock: the hold follows the request down.                         *)
HoldNext(parked, requesting) == fd_hold' = (parked /\ requesting)
=============================================================================
