------------------------- MODULE StoragePathHardDisk -------------------------
(***************************************************************************)
(* The hard disk for every image, every size of it, every set of commands  *)
(* and mounts, resets and floppy work between its sectors: the counts of   *)
(* the PC's side and of the bridge's agree, the sector offered is the one  *)
(* the command is at, and a write that ends well is on the image.          *)
(*                                                                         *)
(* The invariant follows a sector around: which registers go together      *)
(* (TaskInv), how far either side has counted (ReadCount, WriteCount),     *)
(* the block on the port (BlockInv), and the bytes at each place they      *)
(* stop (HdInPlace, ReadBytes, WriteBytes).                                *)
(***************************************************************************)
EXTENDS StoragePathProofs, Integers

(* The bridge at work on a sector of the PC's command.                     *)
BlockFor(ret) == InBlock /\ seq_ret = ret
Fetching == bstate \in {"IDE_RD_FETCH", "IDE_RD_TX"} \/ BlockFor("IDE_RD_TX")
Storing == bstate \in {"IDE_WR_STORE", "IDE_STEP"} \/ BlockFor("IDE_STEP")
Mounting == bstate = "IDE_MOUNT_GEO" \/ BlockFor("IDE_MOUNT_GEO")

(* What the image slots hold and the bridge has latched of the hard disk's.*)
SlotInv ==
  /\ slot[HardDisk] \in HdImages \cup {NoImage}
  /\ \A d \in Floppies : slot[d] \in FloppyImages \cup {NoImage}
  /\ hd_image = Mounted(HardDisk)
  /\ ~hd_mount_pend => hd_present = hd_image
  /\ hd_steady => ~hd_mount_pend /\ hd_present
  /\ hd_steady /\ Mounting =>
       ide_request = "command" \/ ide_regs.op = "none"

(* Which registers go together.  A command whose service SRST has cut off  *)
(* leaves the bridge at work for no command at all.                        *)
TaskInv ==
  /\ ide_request # "none" \/ Fetching \/ Storing \/ ide_srst =>
       ide_status = "busy"
  /\ ide_request = "reset" \/ ide_srst => ide_regs.op = "none"
  /\ ide_request = "data" => ide_regs.op \in {"read", "write"}
  /\ ide_status = "drq" => ide_regs.op # "identify"
  /\ Fetching => ide_regs.op \in {"read", "none"}
  /\ Storing => ide_regs.op \in {"write", "none"}

(* How far a command has come: the sectors left on either side.            *)
Left == ide_regs.count - host_moved
At == ide_regs.lba + host_moved
ReadCount ==
  ide_regs.op = "read" =>
    /\ ide_status # "ok"
    /\ ide_request = "command" => host_moved = 0
    /\ Fetching => /\ ide_rd_act /\ ~ide_wr_act
                   /\ Left > 0 /\ ide_rem = Left /\ cur_lba = At
    /\ ide_request = "data" /\ ~Fetching =>
         /\ Left > 0 /\ ~ide_wr_act
         /\ ide_rd_act => ide_rem = Left /\ cur_lba = At
    /\ ide_status = "drq" =>
         /\ Left > 1 /\ ~ide_wr_act
         /\ ide_rd_act => ide_rem = Left - 1 /\ cur_lba = At + 1
    /\ ide_status = "drq_last" => Left = 1
    /\ ide_status = "ready" /\ hd_steady => Left = 0
WriteCount ==
  ide_regs.op = "write" =>
    /\ ide_status # "drq_last"
    /\ ide_request = "command" => host_moved = 0 /\ ~Storing
    /\ ide_request = "data" \/ Storing =>
         /\ host_moved > 0 /\ Left >= 0
         /\ Storing \/ ide_wr_act => ide_rem = Left + 1 /\ cur_lba = At - 1
         /\ ~ide_rd_act
         /\ ide_buf = CpuBlock(HardDisk, At - 1)
    /\ ide_status = "drq" =>
         /\ Left > 0 /\ ~ide_rd_act
         /\ ide_wr_act => ide_rem = Left /\ cur_lba = At
    /\ ide_status = "ok" => Left = 0
    /\ ide_status = "ready" => ~hd_steady

(* The block under way.                                                    *)
BlockInv ==
  /\ bstate = "BLK_ACK_HI" =>
       (blk_op = "write" <=> seq_ret \in {"IDLE", "IDE_STEP"})
  /\ BlockFor("IDLE") => blk_drv \in Floppies
  /\ BlockFor("IDE_RD_TX") \/ BlockFor("IDE_STEP") =>
       blk_drv = HardDisk /\ blk_lba = cur_lba /\ cur_lba < HdSectors
  /\ BlockFor("IDE_RD_TX") => ~xzero /\ (ack[HardDisk] => copying)
  /\ BlockFor("IDE_STEP") => ~copying
  /\ BlockFor("IDE_MOUNT_GEO") => blk_drv = HardDisk

(* The bytes of a read, from the image to the PC.                          *)
HdInPlace ==
  \A img \in HdImages, l \in 0 .. HdSectors - 1, i \in Place :
    BelongsAt(disk[<<img, l>>][i], img, l, i)
Offers(b, l) ==
  IF hd_steady THEN \A i \in Place : BelongsAt(b[i], slot[HardDisk], l, i)
               ELSE b = ZeroBlock \/ \A i \in Place : InPlace(b[i], l, i)
ReadBytes ==
  ide_regs.op = "read" =>
    /\ BlockFor("IDE_RD_TX") /\ bstate = "BLK_ACK_LO" /\ ~ack[HardDisk] =>
         Offers(buf, cur_lba)
    /\ bstate = "IDE_RD_TX" =>
         IF xzero THEN cur_lba < HdSectors => ~hd_steady
                  ELSE cur_lba < HdSectors /\ Offers(buf, cur_lba)

(* The bytes of a write, from the PC to the image.                         *)
Stands(l) ==
  l < HdSectors => disk[<<slot[HardDisk], l>>] = CpuBlock(HardDisk, l)
Done == IF ide_status \in {"drq", "ok"} THEN host_moved ELSE host_moved - 1
WriteBytes ==
  /\ bstate = "IDE_WR_STORE" \/ BlockFor("IDE_STEP") =>
       buf = CpuBlock(HardDisk, cur_lba)
  /\ ide_regs.op = "write" /\ hd_steady /\ ~hd_ro =>
       /\ \A k \in 0 .. Done - 1 : Stands(ide_regs.lba + k)
       /\ \/ bstate = "IDE_STEP"
          \/ (BlockFor("IDE_STEP") /\ (bstate = "BLK_ACK_LO" \/ ack[HardDisk]))
          => Stands(cur_lba)

HdInv ==
  /\ SlotInv /\ TaskInv /\ ReadCount /\ WriteCount /\ BlockInv
  /\ HdInPlace /\ ReadBytes /\ HdReadDataInPlace /\ WriteBytes

-----------------------------------------------------------------------------
(* Types, and what a step leaves alone.                                    *)

LEMMA HdTypes ==
  ASSUME Inv
  PROVE  /\ ide_regs \in IdeCommand /\ ide_regs.op \in IdeOps
         /\ ide_regs.lba \in Nat /\ ide_regs.count \in 1 .. 256
         /\ host_moved \in Nat /\ cur_lba \in Nat /\ ide_rem \in 0 .. 511
         /\ ide_request \in IdeRequests /\ ide_status \in IdeStatuses
         /\ ide_srst \in BOOLEAN /\ ide_rd_act \in BOOLEAN
         /\ ide_wr_act \in BOOLEAN /\ hd_present \in BOOLEAN
         /\ hd_image \in BOOLEAN /\ hd_mount_pend \in BOOLEAN
         /\ hd_steady \in BOOLEAN /\ hd_ro \in BOOLEAN /\ xzero \in BOOLEAN
         /\ copying \in BOOLEAN /\ ack \in [VDrives -> BOOLEAN]
         /\ bstate \in BridgeStates /\ seq_ret \in Returns
         /\ HdSectors \in Nat \ {0}
BY GeometryAssumption
DEF Inv, TypeOK, IdeTypeOK, IdeCommand, BridgeTypeOK, ServiceTypeOK

LEMMA Drives ==
  /\ HardDisk \in VDrives /\ HardDisk \notin Floppies
  /\ Floppies \subseteq VDrives
  /\ \A d : Internal(d) => d \in Floppies
BY DEF VDrives, Floppies, HardDisk, Internal

hdSide == <<ide_request, ide_status, ide_srst, ide_regs, ide_buf, host_moved,
            ide_rd_act, ide_wr_act, ide_rem, cur_lba, hd_mount_pend, hd_image,
            hd_present, hd_ro, hd_steady>>
Working == Fetching \/ Storing \/ Mounting

LEMMA CountsKept ==
  ASSUME HdInv, UNCHANGED hdSide, Fetching' <=> Fetching, Storing' <=> Storing
  PROVE  TaskInv' /\ ReadCount' /\ WriteCount'
<1>1. /\ UNCHANGED <<ide_request, ide_status, ide_srst, ide_regs, ide_buf,
                     host_moved, ide_rd_act, ide_wr_act, ide_rem, cur_lba,
                     hd_steady>>
      /\ At' = At /\ Left' = Left
  BY DEF hdSide, At, Left
<1>2. TaskInv'
  BY <1>1 DEF HdInv, TaskInv
<1>3. ReadCount'
  BY <1>1 DEF HdInv, ReadCount
<1>4. WriteCount'
  BY <1>1 DEF HdInv, WriteCount
<1> QED
  BY <1>2, <1>3, <1>4

(* The sectors of the hard disk's images, whatever floppies are written.   *)
HdDiskKept ==
  \A img \in HdImages, l \in 0 .. HdSectors - 1 :
    disk'[<<img, l>>] = disk[<<img, l>>]

LEMMA StandsKept ==
  ASSUME Inv, HdInv, HdDiskKept, UNCHANGED slot, hd_steady,
         NEW l \in Nat, Stands(l)
  PROVE  Stands(l)'
<1>1. slot[HardDisk] \in HdImages
  BY HdTypes DEF HdInv, SlotInv, Mounted
<1>2. CASE l < HdSectors
  <2>1. l \in 0 .. HdSectors - 1
    BY <1>2, HdTypes
  <2> QED
    BY <1>1, <2>1 DEF Stands, HdDiskKept
<1> QED
  BY <1>2 DEF Stands

(* The bridge is busy elsewhere, before and after.                         *)
LEMMA Elsewhere ==
  ASSUME Inv, HdInv, UNCHANGED <<hdSide, slot>>, ~Working, ~Working',
         HdDiskKept, BlockInv'
  PROVE  HdInv'
<1>1. UNCHANGED <<ide_request, ide_status, ide_srst, ide_regs, ide_buf,
                  host_moved, hd_mount_pend, hd_image, hd_present, hd_ro,
                  hd_steady>>
  BY DEF hdSide
<1>2. TaskInv' /\ ReadCount' /\ WriteCount'
  BY CountsKept DEF Working
<1>3. SlotInv'
  BY <1>1 DEF HdInv, SlotInv, Mounted, Working
<1>4. HdInPlace'
  BY DEF HdInv, HdInPlace, HdDiskKept
<1>5. ReadBytes'
  BY DEF ReadBytes, Working, Fetching
<1>6. HdReadDataInPlace'
  BY <1>1 DEF HdInv, HdReadDataInPlace, DataRequest
<1>7. WriteBytes'
  <2>1. ASSUME ide_regs'.op = "write", hd_steady', ~hd_ro',
               NEW k \in 0 .. Done' - 1
        PROVE  Stands(ide_regs.lba + k)'
    <3>1. Done' = Done
      BY <1>1 DEF Done
    <3>2. ide_regs.lba + k \in Nat
      BY HdTypes
    <3>3. Stands(ide_regs.lba + k)
      BY <1>1, <2>1, <3>1 DEF HdInv, WriteBytes
    <3> QED
      BY <1>1, <2>1, <3>2, <3>3, StandsKept
  <2> QED
    BY <1>1, <2>1 DEF WriteBytes, Working, Storing, Stands
<1> QED
  BY <1>2, <1>3, <1>4, <1>5, <1>6, <1>7 DEF HdInv

hdRest == <<bstate, seq_ret, blk_op, blk_drv, blk_lba, xzero, ack, copying,
            buf, slot, disk>>

LEMMA Unmoved ==
  ASSUME Inv, HdInv, UNCHANGED <<hdSide, hdRest>>
  PROVE  HdInv'
<1>1. UNCHANGED <<ide_request, ide_status, ide_srst, ide_regs, ide_buf,
                  host_moved, hd_mount_pend, hd_image, hd_present, hd_ro,
                  hd_steady, cur_lba, bstate, seq_ret, blk_op, blk_drv, blk_lba,
                  xzero, ack, copying, buf, slot, disk>>
  BY DEF hdSide, hdRest
<1>2. /\ \A r : BlockFor(r)' <=> BlockFor(r)
      /\ (Fetching' <=> Fetching) /\ (Storing' <=> Storing)
      /\ (Mounting' <=> Mounting)
  BY <1>1 DEF BlockFor, InBlock, Fetching, Storing, Mounting
<1>3. TaskInv' /\ ReadCount' /\ WriteCount'
  BY <1>2, CountsKept
<1>4. SlotInv'
  BY <1>1, <1>2 DEF HdInv, SlotInv, Mounted
<1>5. BlockInv'
  BY <1>1, <1>2 DEF HdInv, BlockInv
<1>6. HdInPlace' /\ HdReadDataInPlace'
  BY <1>1 DEF HdInv, HdInPlace, HdReadDataInPlace, DataRequest
<1>7. ReadBytes'
  BY <1>1, <1>2 DEF HdInv, ReadBytes, Offers
<1>8. WriteBytes'
  BY <1>1, <1>2 DEF HdInv, WriteBytes, Stands, Done
<1> QED
  BY <1>3, <1>4, <1>5, <1>6, <1>7, <1>8 DEF HdInv

(* The floppy controller, its media, and a mount in a floppy slot.         *)
LEMMA FloppyUsers ==
  ASSUME Inv, HdInv,
         \/ \E cmd \in FdcCommands : StartCommand(cmd)
         \/ Result \/ FdcWrote \/ FdcStep \/ Dma \/ SoftReset
         \/ \E d \in Floppies : BridgeEject(d) \/ BridgeInsert(d)
         \/ UNCHANGED vars
  PROVE  HdInv'
<1>1. CASE \/ \E cmd \in FdcCommands : StartCommand(cmd)
           \/ Result \/ FdcWrote \/ FdcStep \/ Dma \/ SoftReset
  <2>1. FdcAlone /\ UNCHANGED hd_steady
    BY <1>1 DEF StartCommand, Result, FdcWrote, FdcStep, Dma, SoftReset,
       historyVars
  <2> QED
    BY <2>1, Unmoved DEF FdcAlone, BridgeRests, hdSide, hdRest, ideVars,
       serviceVars, portVars, streamVars, hdVars, hdMountVars
<1>2. CASE \E d \in Floppies : BridgeEject(d) \/ BridgeInsert(d)
  BY <1>2, Unmoved DEF BridgeEject, BridgeInsert, Eject, Insert, ChangeFdc,
     hdSide, hdRest, ideVars, serviceVars, portVars, streamVars, hdVars,
     hdMountVars, historyVars
<1>3. CASE UNCHANGED vars
  BY <1>3, Unmoved DEF vars, hdSide, hdRest, ideVars, serviceVars, bridgeVars,
     portVars, streamVars, hdVars, hdMountVars, historyVars
<1> QED
  BY <1>1, <1>2, <1>3

LEMMA FloppyMounted ==
  ASSUME Inv, HdInv, NEW m \in FloppyMounts, MountFloppy(m)
  PROVE  HdInv'
<1>0. m.drv \in Floppies /\ m.img \in FloppyImages \cup {NoImage}
  BY ScenarioAssumption
<1>1. UNCHANGED <<hdSide, bstate, seq_ret, blk_op, blk_drv, blk_lba, xzero, ack,
                  copying, buf, disk>>
  BY DEF MountFloppy, FloppyStrobe, Mount, hdSide, ideVars, portVars,
     streamVars, hdVars, hdMountVars
<1>2. slot'[HardDisk] = slot[HardDisk]
      /\ \A d \in Floppies : slot'[d] \in FloppyImages \cup {NoImage}
  <2>1. slot \in [VDrives -> Slots] /\ slot' = [slot EXCEPT ![m.drv] = m.img]
    BY DEF MountFloppy, Mount, Inv, TypeOK, ServiceTypeOK
  <2> QED
    BY <1>0, <2>1, Drives DEF HdInv, SlotInv
<1>3. UNCHANGED <<ide_request, ide_status, ide_srst, ide_regs, ide_buf,
                  host_moved, hd_mount_pend, hd_image, hd_present, hd_ro,
                  hd_steady, cur_lba>>
  BY <1>1 DEF hdSide
<1>4. /\ \A r : BlockFor(r)' <=> BlockFor(r)
      /\ (Fetching' <=> Fetching) /\ (Storing' <=> Storing)
      /\ (Mounting' <=> Mounting)
  BY <1>1 DEF BlockFor, InBlock, Fetching, Storing, Mounting
<1>5. TaskInv' /\ ReadCount' /\ WriteCount'
  BY <1>1, <1>4, CountsKept
<1>6. SlotInv'
  BY <1>2, <1>3, <1>4 DEF HdInv, SlotInv, Mounted
<1>7. BlockInv'
  BY <1>1, <1>3, <1>4 DEF HdInv, BlockInv
<1>8. HdInPlace' /\ HdReadDataInPlace'
  BY <1>1, <1>2, <1>3 DEF HdInv, HdInPlace, HdReadDataInPlace, DataRequest
<1>9. ReadBytes'
  BY <1>1, <1>2, <1>3, <1>4 DEF HdInv, ReadBytes, Offers
<1>10. WriteBytes'
  BY <1>1, <1>2, <1>3, <1>4 DEF HdInv, WriteBytes, Stands, Done
<1> QED
  BY <1>5, <1>6, <1>7, <1>8, <1>9, <1>10 DEF HdInv

(* The bridge's work for the floppies.                                     *)
LEMMA FloppyWork ==
  ASSUME Inv, HdInv,
         \/ BridgeRequest \/ BridgeSampleKind \/ BridgeDispatch \/ BridgeCheck
         \/ BridgeSendByte \/ BridgeTakeByte \/ BridgeStore \/ BridgeWaitOver
         \/ BridgeError
  PROVE  HdInv'
<1>1. UNCHANGED <<hdSide, slot, disk, ack, copying>>
  BY DEF BridgeRequest, BridgeSampleKind, BridgeDispatch, BridgeCheck,
     BridgeSendByte, BridgeTakeByte, BridgeStore, BridgeWaitOver, BridgeError,
     FddRequest, FddSampleKind, FddDispatch, FddCheck, StreamStep, FddStore,
     FddWaitOver, FddError, PutByte, KeepFdc, ChangeFdc, hdSide, ideVars,
     serviceVars, hdVars, hdMountVars, historyVars
<1>2. bstate \in {"IDLE", "FDD_REQ", "FDD_DISPATCH", "FDD_RD_CHK", "TX", "RX",
                  "FDD_WR_STORE", "FDD_WAIT", "FDD_ERR"}
  BY DEF BridgeRequest, BridgeSampleKind, BridgeDispatch, BridgeCheck,
     BridgeSendByte, BridgeTakeByte, BridgeStore, BridgeWaitOver, BridgeError,
     FddRequest, FddSampleKind, FddDispatch, FddCheck, StreamStep, FddStore,
     FddWaitOver, FddError
<1>3. \/ bstate' \in {"IDLE", "FDD_REQ", "FDD_DISPATCH", "FDD_RD_CHK", "TX",
                      "RX", "FDD_WR_STORE", "FDD_WAIT", "FDD_ERR"}
      \/ bstate' = "BLK_ACK_HI" /\ seq_ret' = "FDD_RD_TX" /\ blk_op' = "read"
      \/ /\ bstate' = "BLK_ACK_HI" /\ seq_ret' = "IDLE" /\ blk_op' = "write"
         /\ blk_drv' \in Floppies
  <2>1. CASE BridgeRequest \/ BridgeSampleKind \/ BridgeCheck \/ BridgeWaitOver
             \/ BridgeError
    BY <2>1 DEF BridgeRequest, BridgeSampleKind, BridgeCheck, BridgeWaitOver,
       BridgeError, FddRequest, FddSampleKind, FddCheck, FddWaitOver, FddError
  <2>2. CASE BridgeDispatch
    BY <2>2 DEF BridgeDispatch, FddDispatch
  <2>3. CASE BridgeSendByte \/ BridgeTakeByte
    <3>1. bstate' \in {bstate, seq_ret} /\ seq_ret \in {"FDD_WAIT", "FDD_WR_STORE"}
      BY <2>3 DEF BridgeSendByte, BridgeTakeByte, StreamStep, Inv, Handshake
    <3> QED
      BY <1>2, <3>1
  <2>4. CASE BridgeStore
    <3>1. blk_drv = fd_drv /\ fd_drv \in Floppies
      BY <2>4 DEF BridgeStore, FddStore, Inv, Handshake, TypeOK, BridgeTypeOK
    <3> QED
      BY <2>4, <3>1 DEF BridgeStore, FddStore, AfterStore
  <2> QED
    BY <2>1, <2>2, <2>3, <2>4
<1>4. ~Working /\ ~Working'
  BY <1>2, <1>3 DEF Working, Fetching, Storing, Mounting, BlockFor, InBlock
<1>5. BlockInv'
  BY <1>3 DEF BlockInv, BlockFor, InBlock
<1>6. HdDiskKept
  BY <1>1 DEF HdDiskKept
<1> QED
  BY <1>1, <1>4, <1>5, <1>6, Elsewhere

-----------------------------------------------------------------------------
(* The PC's ATA driver and the resets.  The bridge does not move.          *)

LEMMA BridgeHolds ==
  ASSUME Inv, HdInv, BridgeRests, UNCHANGED serviceVars
  PROVE  /\ UNCHANGED <<bstate, seq_ret, blk_op, blk_drv, blk_lba, xzero,
                        ide_rd_act, ide_wr_act, ide_rem, cur_lba, hd_mount_pend,
                        hd_image, hd_present, hd_ro, ack, copying, buf, slot,
                        disk>>
         /\ \A r : BlockFor(r)' <=> BlockFor(r)
         /\ (Fetching' <=> Fetching) /\ (Storing' <=> Storing)
         /\ (Mounting' <=> Mounting)
         /\ BlockInv' /\ HdInPlace'
<1>1. UNCHANGED <<bstate, seq_ret, blk_op, blk_drv, blk_lba, xzero,
                  ide_rd_act, ide_wr_act, ide_rem, cur_lba, hd_mount_pend,
                  hd_image, hd_present, hd_ro, ack, copying, buf, slot, disk>>
  BY DEF BridgeRests, serviceVars, portVars, streamVars, hdVars, hdMountVars
<1>2. /\ \A r : BlockFor(r)' <=> BlockFor(r)
      /\ (Fetching' <=> Fetching) /\ (Storing' <=> Storing)
      /\ (Mounting' <=> Mounting)
  BY <1>1 DEF BlockFor, InBlock, Fetching, Storing, Mounting
<1>3. BlockInv'
  BY <1>1, <1>2 DEF HdInv, BlockInv
<1>4. HdInPlace'
  BY <1>1 DEF HdInv, HdInPlace
<1> QED
  BY <1>1, <1>2, <1>3, <1>4

LEMMA CommandStarts ==
  ASSUME Inv, HdInv, IdeStart
  PROVE  HdInv'
<1>1. PICK cmd \in IdeCommands : HostCommand(cmd)
  BY DEF IdeStart
<1>2. /\ ide_request' = "command" /\ ide_status' = "busy" /\ ide_regs' = cmd
      /\ host_moved' = 0 /\ ~ide_srst /\ ~ide_srst' /\ ide_status # "busy"
      /\ ide_buf' = ide_buf
  BY <1>1 DEF HostCommand
<1>3. /\ hd_steady' = (hd_present /\ ~hd_mount_pend)
      /\ BridgeRests /\ UNCHANGED serviceVars
  BY DEF IdeStart, IdeAlone
<1>4. ~Fetching /\ ~Storing
  BY <1>2 DEF HdInv, TaskInv
<1>5. /\ ~Fetching' /\ ~Storing'
      /\ UNCHANGED <<bstate, hd_mount_pend, hd_image, hd_present, hd_ro, buf,
                     slot, cur_lba, ack, xzero>>
      /\ BlockInv' /\ HdInPlace'
  BY <1>3, <1>4, BridgeHolds
<1>6. TaskInv'
  BY <1>2, <1>5 DEF TaskInv
<1>7. ReadCount' /\ WriteCount'
  BY <1>2, <1>5 DEF ReadCount, WriteCount
<1>8. SlotInv'
  BY <1>2, <1>3, <1>5, HdTypes DEF HdInv, SlotInv, Mounted
<1>9. ReadBytes' /\ HdReadDataInPlace'
  BY <1>2, <1>5 DEF ReadBytes, HdReadDataInPlace, DataRequest, Fetching
<1>10. WriteBytes'
  <2>1. Done' = 0 - 1
    BY <1>2 DEF Done
  <2>2. \A k \in 0 .. Done' - 1 : FALSE
    BY <2>1
  <2> QED
    BY <1>5, <2>2 DEF WriteBytes, Storing
<1> QED
  BY <1>5, <1>6, <1>7, <1>8, <1>9, <1>10 DEF HdInv

LEMMA SectorRead ==
  ASSUME Inv, HdInv, HostReadSector, IdeAlone, UNCHANGED hd_steady
  PROVE  HdInv'
<1>1. /\ ide_status \in {"drq", "drq_last"} /\ ~ide_srst /\ ~ide_srst'
      /\ ide_regs.op \in {"read", "identify"} /\ host_moved' = host_moved + 1
      /\ UNCHANGED <<ide_regs, ide_buf>>
      /\ \/ /\ ide_status = "drq_last" /\ ide_status' = "ready"
            /\ ide_request' = ide_request
         \/ ide_status = "drq" /\ ide_status' = "busy" /\ ide_request' = "data"
  BY DEF HostReadSector, DataRequest
<1>2. BridgeRests /\ UNCHANGED serviceVars
  BY DEF IdeAlone
<1>3. ~Fetching /\ ~Storing /\ ide_request = "none"
  BY <1>1, HdTypes DEF HdInv, TaskInv
<1>4. /\ ~Fetching' /\ ~Storing' /\ (Mounting' <=> Mounting)
      /\ UNCHANGED <<bstate, hd_mount_pend, hd_image, hd_present, hd_ro, buf,
                     slot, cur_lba, ack, xzero, ide_rd_act, ide_wr_act, ide_rem>>
      /\ BlockInv' /\ HdInPlace'
  BY <1>2, <1>3, BridgeHolds
<1>5. At' = At + 1 /\ Left' = Left - 1 /\ At \in Nat /\ Left \in Int
  BY <1>1, HdTypes DEF At, Left
<1>6. TaskInv'
  BY <1>1, <1>3, <1>4, HdTypes DEF HdInv, TaskInv
<1>7. ReadCount'
  <2>1. CASE ide_regs.op = "read" /\ ide_status = "drq"
    BY <1>1, <1>4, <1>5, <2>1, HdTypes DEF HdInv, ReadCount
  <2>2. CASE ide_regs.op = "read" /\ ide_status = "drq_last"
    BY <1>1, <1>3, <1>4, <1>5, <2>2, HdTypes DEF HdInv, ReadCount
  <2> QED
    BY <1>1, <2>1, <2>2 DEF ReadCount
<1>8. WriteCount' /\ WriteBytes'
  BY <1>1, <1>4, HdTypes DEF HdInv, WriteCount, WriteBytes, Storing
<1>9. SlotInv'
  BY <1>1, <1>3, <1>4, HdTypes DEF HdInv, SlotInv, Mounted, TaskInv
<1>10. ReadBytes' /\ HdReadDataInPlace'
  BY <1>1, <1>4 DEF ReadBytes, HdReadDataInPlace, DataRequest, Fetching
<1> QED
  BY <1>4, <1>6, <1>7, <1>8, <1>9, <1>10 DEF HdInv

LEMMA SectorWritten ==
  ASSUME Inv, HdInv, HostWriteSector, IdeAlone, UNCHANGED hd_steady
  PROVE  HdInv'
<1>1. /\ ide_status \in {"drq", "drq_last"} /\ ~ide_srst /\ ~ide_srst'
      /\ ide_regs.op = "write" /\ host_moved' = host_moved + 1
      /\ ide_regs' = ide_regs
      /\ ide_buf' = CpuBlock(HardDisk, ide_regs.lba + host_moved)
      /\ ide_status' = "busy" /\ ide_request' = "data"
  BY DEF HostWriteSector, DataRequest
<1>2. BridgeRests /\ UNCHANGED serviceVars
  BY DEF IdeAlone
<1>3. ~Fetching /\ ~Storing /\ ide_request = "none" /\ ide_status = "drq"
  BY <1>1, HdTypes DEF HdInv, TaskInv, WriteCount
<1>4. /\ ~Fetching' /\ ~Storing' /\ (Mounting' <=> Mounting)
      /\ UNCHANGED <<bstate, hd_mount_pend, hd_image, hd_present, hd_ro, buf,
                     slot, disk, cur_lba, ack, xzero, ide_rd_act, ide_wr_act,
                     ide_rem>>
      /\ BlockInv' /\ HdInPlace'
  BY <1>2, <1>3, BridgeHolds
<1>5. At' = At + 1 /\ Left' = Left - 1 /\ At \in Nat /\ Left \in Int
  BY <1>1, HdTypes DEF At, Left
<1>6. TaskInv'
  BY <1>1, <1>3, <1>4, HdTypes DEF HdInv, TaskInv
<1>7. ReadCount' /\ ReadBytes' /\ HdReadDataInPlace'
  BY <1>1 DEF ReadCount, ReadBytes, HdReadDataInPlace
<1>8. WriteCount'
  <2>1. /\ Left > 0 /\ ~ide_rd_act
        /\ ide_wr_act => ide_rem = Left /\ cur_lba = At
    BY <1>1, <1>3 DEF HdInv, WriteCount
  <2>2. ide_buf' = CpuBlock(HardDisk, At' - 1)
    <3>1. At' - 1 = ide_regs.lba + host_moved
      BY <1>5 DEF At
    <3> QED
      BY <1>1, <3>1
  <2>3. host_moved' > 0
    BY <1>1, HdTypes
  <2> QED
    BY <1>1, <1>4, <1>5, <2>1, <2>2, <2>3 DEF WriteCount
<1>9. SlotInv'
  BY <1>1, <1>3, <1>4, HdTypes DEF HdInv, SlotInv, Mounted, TaskInv
<1>10. WriteBytes'
  <2>1. Done' = Done
    BY <1>1, <1>3, HdTypes DEF Done
  <2>2. \A l : Stands(l)' <=> Stands(l)
    BY <1>4 DEF Stands
  <2> QED
    BY <1>1, <1>4, <2>1, <2>2 DEF HdInv, WriteBytes, Storing
<1> QED
  BY <1>4, <1>6, <1>7, <1>8, <1>9, <1>10 DEF HdInv

(* SRST and the button leave no command.                                   *)
LEMMA Cancelled ==
  ASSUME Inv, HdInv, BridgeRests, UNCHANGED serviceVars, UNCHANGED hd_steady,
         ide_request' = "reset", ide_status' = "busy", ide_regs' = NoCommand
  PROVE  HdInv'
<1>1. /\ UNCHANGED <<bstate, hd_mount_pend, hd_image, hd_present, buf, slot,
                     cur_lba>>
      /\ \A r : BlockFor(r)' <=> BlockFor(r)
      /\ (Fetching' <=> Fetching) /\ (Storing' <=> Storing)
      /\ (Mounting' <=> Mounting)
      /\ BlockInv' /\ HdInPlace'
  BY BridgeHolds
<1>2. ide_regs'.op = "none"
  BY DEF NoCommand
<1>3. TaskInv' /\ ReadCount' /\ WriteCount' /\ ReadBytes' /\ HdReadDataInPlace'
  BY <1>1, <1>2 DEF TaskInv, ReadCount, WriteCount, ReadBytes,
     HdReadDataInPlace
<1>4. SlotInv'
  BY <1>1, <1>2 DEF HdInv, SlotInv, Mounted
<1>5. WriteBytes'
  BY <1>1, <1>2 DEF HdInv, WriteBytes
<1> QED
  BY <1>1, <1>3, <1>4, <1>5 DEF HdInv

LEMMA SrstReleased ==
  ASSUME Inv, HdInv, SrstOff, IdeAlone, UNCHANGED hd_steady
  PROVE  HdInv'
<1>1. BridgeRests /\ UNCHANGED serviceVars
  BY DEF IdeAlone
<1>2. /\ UNCHANGED <<bstate, hd_mount_pend, hd_image, hd_present, hd_ro, buf, slot,
                     cur_lba>>
      /\ \A r : BlockFor(r)' <=> BlockFor(r)
      /\ (Fetching' <=> Fetching) /\ (Storing' <=> Storing)
      /\ (Mounting' <=> Mounting)
      /\ BlockInv' /\ HdInPlace'
  BY <1>1, BridgeHolds
<1>3. /\ ide_srst /\ ~ide_srst'
      /\ UNCHANGED <<ide_request, ide_status, ide_regs>>
  BY DEF SrstOff
<1>4. ide_regs.op = "none"
  BY <1>3 DEF HdInv, TaskInv
<1>5. ReadCount' /\ WriteCount' /\ ReadBytes' /\ HdReadDataInPlace'
  BY <1>3, <1>4 DEF ReadCount, WriteCount, ReadBytes, HdReadDataInPlace
<1>6. TaskInv'
  BY <1>2, <1>3 DEF HdInv, TaskInv
<1>7. SlotInv'
  BY <1>2, <1>3 DEF HdInv, SlotInv, Mounted
<1>8. WriteBytes'
  BY <1>2, <1>3, <1>4 DEF HdInv, WriteBytes
<1> QED
  BY <1>2, <1>5, <1>6, <1>7, <1>8 DEF HdInv

LEMMA AtaUsers ==
  ASSUME Inv, HdInv, IdeStart \/ IdeTransfer \/ IdeSrst \/ ResetButton
  PROVE  HdInv'
<1>1. CASE IdeTransfer
  BY <1>1, SectorRead, SectorWritten DEF IdeTransfer
<1>2. CASE IdeSrst
  <2>1. CASE SrstOn
    BY <1>2, <2>1, Cancelled DEF IdeSrst, IdeAlone, SrstOn
  <2>2. CASE SrstOff
    BY <1>2, <2>2, SrstReleased DEF IdeSrst
  <2> QED
    BY <1>2, <2>1, <2>2 DEF IdeSrst
<1>3. CASE ResetButton
  BY <1>3, Cancelled DEF ResetButton, IdeHardReset
<1> QED
  BY <1>1, <1>2, <1>3, CommandStarts

-----------------------------------------------------------------------------
(* The bridge's work for the hard disk.                                    *)

LEMMA MountStarts ==
  ASSUME Inv, HdInv, BridgeMountHd
  PROVE  HdInv'
<1>1. /\ bstate = "IDLE" /\ hd_mount_pend /\ ~hd_mount_pend'
      /\ hd_present' = hd_image /\ ~ide_rd_act' /\ ~ide_wr_act'
      /\ bstate' = "IDE_MOUNT_GEO" \/ /\ bstate' = "BLK_ACK_HI" /\ blk_op' = "read"
                                      /\ seq_ret' = "IDE_MOUNT_GEO"
                                      /\ blk_drv' = HardDisk
      /\ UNCHANGED <<ide_request, ide_status, ide_srst, ide_regs, ide_buf,
                     host_moved, hd_image, hd_steady, slot, disk, buf>>
  BY DEF BridgeMountHd, MountHd, Ask, WithIde, KeepIde, ideVars, serviceVars,
     historyVars
<1>2. ~hd_steady
  BY <1>1 DEF HdInv, SlotInv
<1>3. ~Fetching /\ ~Storing /\ ~Fetching' /\ ~Storing'
  BY <1>1 DEF Fetching, Storing, BlockFor, InBlock
<1>4. TaskInv'
  BY <1>1, <1>3 DEF HdInv, TaskInv
<1>5. Left' = Left
  BY <1>1 DEF Left
<1>6. ReadCount' /\ WriteCount'
  <2>1. At' = At
    BY <1>1 DEF At
  <2>2. ReadCount'
    BY <1>1, <1>2, <1>3, <1>5 DEF HdInv, ReadCount
  <2>3. WriteCount'
    BY <1>1, <1>2, <1>3, <1>5, <2>1 DEF HdInv, WriteCount
  <2> QED
    BY <2>2, <2>3
<1>7. SlotInv'
  BY <1>1, <1>2 DEF HdInv, SlotInv, Mounted
<1>8. BlockInv'
  BY <1>1 DEF BlockInv, BlockFor, InBlock
<1>9. HdInPlace' /\ ReadBytes' /\ HdReadDataInPlace' /\ WriteBytes'
  <2>1. HdInPlace' /\ HdReadDataInPlace'
    BY <1>1 DEF HdInv, HdInPlace, HdReadDataInPlace, DataRequest
  <2>2. ReadBytes' /\ WriteBytes'
    BY <1>1, <1>2 DEF ReadBytes, WriteBytes, BlockFor, InBlock
  <2> QED
    BY <2>1, <2>2
<1> QED
  BY <1>4, <1>6, <1>7, <1>8, <1>9 DEF HdInv

(* Every other step of the bridge on the task leaves the slots alone.      *)
LEMMA TaskStep ==
  ASSUME Inv, HdInv,
         \/ BridgeMountHdDone \/ BridgeIdeReset \/ BridgeIdeDispatch
         \/ BridgeIdeData \/ BridgeIdeFetch \/ BridgeIdeSend \/ BridgeIdeStore
         \/ BridgeIdeStored
  PROVE  /\ UNCHANGED <<slot, disk, ack, copying, hd_image, hd_present, hd_ro,
                        hd_mount_pend, hd_steady, ide_srst, ide_regs, host_moved>>
         /\ HdInPlace' /\ At' = At /\ Left' = Left
         /\ \A l : Stands(l)' <=> Stands(l)
         /\ \A v \in VDrives : ~ack[v] /\ ~copying
<1>1. UNCHANGED <<slot, disk, ack, copying, hd_image, hd_present, hd_ro,
                  hd_mount_pend, hd_steady, ide_srst, ide_regs, host_moved>>
  BY DEF BridgeMountHdDone, BridgeIdeReset, BridgeIdeDispatch, BridgeIdeData,
     BridgeIdeFetch, BridgeIdeSend, BridgeIdeStore, BridgeIdeStored, MountHdDone,
     IdeReset, IdeDispatch, IdeData, IdeFetch, IdeSendSector, IdeStore,
     IdeStored, WithIde, KeepIde, Reply, ideVars, serviceVars, historyVars,
     hdMountVars
<1>2. ~InBlock
  BY DEF BridgeMountHdDone, BridgeIdeReset, BridgeIdeDispatch, BridgeIdeData,
     BridgeIdeFetch, BridgeIdeSend, BridgeIdeStore, BridgeIdeStored, MountHdDone,
     IdeReset, IdeDispatch, IdeData, IdeFetch, IdeSendSector, IdeStore,
     IdeStored, InBlock
<1>3. HdInPlace'
  BY <1>1 DEF HdInv, HdInPlace
<1>4. At' = At /\ Left' = Left /\ \A l : Stands(l)' <=> Stands(l)
  BY <1>1 DEF At, Left, Stands
<1> QED
  BY <1>1, <1>2, <1>3, <1>4, Quiet

(* A step that ends where no command's sector is at work.                  *)
LEMMA TaskRests ==
  ASSUME Inv, HdInv, bstate' \in {"IDLE", "IDE_RD_FETCH"},
         UNCHANGED <<slot, hd_image, hd_present, hd_mount_pend, hd_steady>>
  PROVE  SlotInv' /\ BlockInv' /\ ReadBytes' /\ ~Storing' /\ ~Mounting'
<1>1. BlockInv' /\ ReadBytes' /\ ~Storing' /\ ~Mounting'
  BY DEF BlockInv, ReadBytes, Storing, Mounting, BlockFor, InBlock
<1>2. SlotInv'
  BY <1>1 DEF HdInv, SlotInv, Mounted
<1> QED
  BY <1>1, <1>2

LEMMA MountEnds ==
  ASSUME Inv, HdInv, BridgeMountHdDone
  PROVE  HdInv'
<1>1. /\ bstate = "IDE_MOUNT_GEO" /\ bstate' = "IDLE" /\ ide_buf' = ide_buf
      /\ UNCHANGED <<ide_rd_act, ide_wr_act, ide_rem, cur_lba, buf>>
      /\ \/ UNCHANGED <<ide_request, ide_status>>
         \/ /\ ide_request = "none" /\ ~ide_srst
            /\ ide_request' = "none" /\ ide_status' = "ready"
  BY DEF BridgeMountHdDone, MountHdDone, Answer, hdVars, serviceVars
<1>2. /\ UNCHANGED <<slot, disk, hd_image, hd_present, hd_ro, hd_mount_pend,
                     hd_steady, ide_srst, ide_regs, host_moved>>
      /\ HdInPlace' /\ At' = At /\ Left' = Left /\ \A l : Stands(l)' <=> Stands(l)
  BY TaskStep
<1>3. SlotInv' /\ BlockInv' /\ ReadBytes' /\ ~Storing' /\ ~Mounting'
  BY <1>1, <1>2, TaskRests
<1>4. ~Fetching /\ ~Storing /\ ~Fetching'
  BY <1>1 DEF Fetching, Storing, BlockFor, InBlock
<1>5. UNCHANGED <<ide_request, ide_status>> \/ ide_regs.op = "none" \/ ~hd_steady
  BY <1>1 DEF HdInv, SlotInv, Mounting
<1>6. TaskInv'
  BY <1>1, <1>2, <1>3, <1>4 DEF HdInv, TaskInv
<1>7. ReadCount'
  BY <1>1, <1>2, <1>3, <1>4, <1>5 DEF HdInv, ReadCount
<1>8. WriteCount'
  BY <1>1, <1>2, <1>3, <1>4, <1>5 DEF HdInv, WriteCount
<1>9. HdReadDataInPlace'
  BY <1>1, <1>2 DEF HdInv, HdReadDataInPlace, DataRequest
<1>10. WriteBytes'
  <2>1. CASE ide_regs.op = "write" /\ hd_steady
    BY <1>1, <1>2, <1>3, <1>5, <2>1 DEF HdInv, WriteBytes, Done, Storing
  <2> QED
    BY <1>1, <1>2, <1>3, <2>1 DEF WriteBytes, Storing
<1> QED
  BY <1>2, <1>3, <1>6, <1>7, <1>8, <1>9, <1>10 DEF HdInv

LEMMA TaskReset ==
  ASSUME Inv, HdInv, BridgeIdeReset
  PROVE  HdInv'
<1>1. /\ bstate = "IDLE" /\ bstate' = "IDLE" /\ ide_request = "reset"
      /\ IF ide_srst THEN UNCHANGED <<ide_request, ide_status>>
                     ELSE ide_request' = "none" /\ ide_status' = "ready"
  BY DEF BridgeIdeReset, IdeReset, Reply, Answer
<1>2. /\ UNCHANGED <<slot, disk, hd_image, hd_present, hd_ro, hd_mount_pend,
                     hd_steady, ide_srst, ide_regs, host_moved>>
      /\ HdInPlace'
  BY TaskStep
<1>3. SlotInv' /\ BlockInv' /\ ReadBytes' /\ ~Storing' /\ ~Mounting'
  BY <1>1, <1>2, TaskRests
<1>4. ide_regs.op = "none"
  BY <1>1 DEF HdInv, TaskInv
<1>5. ~Fetching'
  BY <1>1 DEF Fetching, BlockFor, InBlock
<1>6. TaskInv'
  BY <1>1, <1>2, <1>3, <1>4, <1>5 DEF HdInv, TaskInv
<1>7. ReadCount' /\ WriteCount' /\ HdReadDataInPlace'
  BY <1>2, <1>4 DEF ReadCount, WriteCount, HdReadDataInPlace
<1>8. WriteBytes'
  BY <1>2, <1>3, <1>4 DEF WriteBytes, Storing
<1> QED
  BY <1>2, <1>3, <1>6, <1>7, <1>8 DEF HdInv

LEMMA TaskDispatched ==
  ASSUME Inv, HdInv, BridgeIdeDispatch
  PROVE  HdInv'
<1>0. /\ bstate = "IDLE" /\ ide_request = "command" /\ ide_buf' = ide_buf
      /\ bstate' = IF ide_regs.op = "read" THEN "IDE_RD_FETCH" ELSE "IDLE"
      /\ ide_rd_act' = (ide_regs.op = "read") /\ ide_wr_act' = (ide_regs.op = "write")
      /\ ide_rem' = ide_regs.count /\ cur_lba' = ide_regs.lba
  BY DEF BridgeIdeDispatch, IdeDispatch
<1>1. \/ ide_regs.op = "read" /\ UNCHANGED <<ide_request, ide_status>>
      \/ /\ ide_regs.op # "read" /\ ide_srst /\ UNCHANGED <<ide_request, ide_status>>
      \/ /\ ~ide_srst /\ ide_request' = "none"
         /\ \/ ide_regs.op = "write" /\ ide_status' = "drq"
            \/ /\ ide_regs.op \notin {"read", "write"}
               /\ ide_status' \in {"drq_last", "ok", "abort"}
  BY DEF BridgeIdeDispatch, Reply, Answer, ideVars
<1>2. /\ UNCHANGED <<slot, disk, hd_image, hd_present, hd_ro, hd_mount_pend,
                     hd_steady, ide_srst, ide_regs, host_moved>>
      /\ HdInPlace' /\ At' = At /\ Left' = Left
  BY TaskStep
<1>3. SlotInv' /\ BlockInv' /\ ReadBytes' /\ ~Storing' /\ ~Mounting'
  BY <1>0, <1>2, TaskRests
<1>4. Fetching' <=> ide_regs.op = "read"
  BY <1>0 DEF Fetching, BlockFor, InBlock
<1>5. ide_status = "busy" /\ (ide_srst => ide_regs.op = "none")
  BY <1>0 DEF HdInv, TaskInv
<1>6. ide_regs.op \in {"read", "write"} =>
        /\ host_moved = 0 /\ At = ide_regs.lba /\ Left = ide_regs.count /\ Left > 0
  BY <1>0, HdTypes DEF HdInv, ReadCount, WriteCount, At, Left
<1>7. TaskInv'
  BY <1>0, <1>1, <1>2, <1>3, <1>4, <1>5 DEF HdInv, TaskInv
<1>8. ReadCount'
  BY <1>0, <1>1, <1>2, <1>4, <1>5, <1>6, HdTypes DEF ReadCount
<1>9. WriteCount'
  BY <1>0, <1>1, <1>2, <1>3, <1>5, <1>6, HdTypes DEF WriteCount
<1>10. HdReadDataInPlace'
  BY <1>0, <1>1, <1>2, <1>5 DEF HdReadDataInPlace, DataRequest
<1>11. WriteBytes'
  <2>1. ASSUME ide_regs.op = "write"
        PROVE  \A k \in 0 .. Done' - 1 : FALSE
    <3>1. Done' = 0
      BY <1>1, <1>2, <1>5, <1>6, <2>1 DEF Done
    <3> QED
      BY <3>1
  <2> QED
    BY <1>0, <1>2, <1>3, <2>1 DEF WriteBytes, Storing
<1> QED
  BY <1>2, <1>3, <1>7, <1>8, <1>9, <1>10, <1>11 DEF HdInv

LEMMA TaskData ==
  ASSUME Inv, HdInv, BridgeIdeData
  PROVE  HdInv'
<1>0. /\ bstate = "IDLE" /\ ide_request = "data" /\ ide_buf' = ide_buf
      /\ bstate' = IF ide_rd_act THEN "IDE_RD_FETCH"
                   ELSE IF ide_wr_act THEN "IDE_WR_STORE" ELSE "IDLE"
      /\ UNCHANGED <<ide_rd_act, ide_wr_act, ide_rem, cur_lba>>
      /\ ~ide_rd_act /\ ide_wr_act => buf' = ide_buf
  BY DEF BridgeIdeData, IdeData, KeepIde, ideVars, hdVars
<1>1. IF ide_rd_act \/ ide_wr_act
      THEN UNCHANGED <<ide_request, ide_status>>
      ELSE ~ide_srst => ide_request' = "none" /\ ide_status' = "abort"
  BY DEF BridgeIdeData, KeepIde, Reply, Answer, ideVars
<1>2. /\ UNCHANGED <<slot, disk, hd_image, hd_present, hd_ro, hd_mount_pend,
                     hd_steady, ide_srst, ide_regs, host_moved>>
      /\ HdInPlace' /\ At' = At /\ Left' = Left /\ \A l : Stands(l)' <=> Stands(l)
  BY TaskStep
<1>3. ide_status = "busy" /\ ~ide_srst /\ ide_regs.op \in {"read", "write"}
  BY <1>0 DEF HdInv, TaskInv
<1>4. ~Fetching /\ ~Storing
  BY <1>0 DEF Fetching, Storing, BlockFor, InBlock
<1>5. CASE ide_regs.op = "read"
  <2>1. /\ Left > 0 /\ ~ide_wr_act
        /\ ide_rd_act => ide_rem = Left /\ cur_lba = At
    BY <1>0, <1>4, <1>5 DEF HdInv, ReadCount
  <2>2. bstate' \in {"IDLE", "IDE_RD_FETCH"}
        /\ (bstate' = "IDE_RD_FETCH" <=> ide_rd_act)
    BY <1>0, <2>1
  <2>3. SlotInv' /\ BlockInv' /\ ReadBytes' /\ ~Storing' /\ ~Mounting'
    BY <1>2, <2>2, TaskRests
  <2>4. Fetching' <=> ide_rd_act
    BY <2>2 DEF Fetching, BlockFor, InBlock
  <2>5. TaskInv'
    BY <1>0, <1>1, <1>2, <1>3, <1>5, <2>1, <2>3, <2>4 DEF TaskInv
  <2>6. ReadCount'
    BY <1>0, <1>1, <1>2, <1>3, <1>5, <2>1, <2>4 DEF ReadCount
  <2>7. HdReadDataInPlace'
    BY <1>1, <1>2, <1>3, <2>1 DEF HdReadDataInPlace, DataRequest
  <2>8. WriteCount' /\ WriteBytes'
    BY <1>2, <1>5, <2>3 DEF WriteCount, WriteBytes, Storing
  <2> QED
    BY <1>2, <2>3, <2>5, <2>6, <2>7, <2>8 DEF HdInv
<1>6. CASE ide_regs.op = "write"
  <2>1. /\ ~ide_rd_act /\ host_moved > 0 /\ Left >= 0
        /\ ide_wr_act => ide_rem = Left + 1 /\ cur_lba = At - 1
        /\ ide_buf = CpuBlock(HardDisk, At - 1)
    BY <1>0, <1>6 DEF HdInv, WriteCount
  <2>2. bstate' = IF ide_wr_act THEN "IDE_WR_STORE" ELSE "IDLE"
    BY <1>0, <2>1
  <2>3. ~Fetching' /\ ~Mounting' /\ BlockInv' /\ (Storing' <=> ide_wr_act)
        /\ (bstate' = "IDE_WR_STORE" <=> ide_wr_act)
        /\ bstate' # "IDE_STEP" /\ \A r : ~BlockFor(r)'
    BY <2>2 DEF Fetching, Mounting, Storing, BlockInv, BlockFor, InBlock
  <2>4. SlotInv'
    BY <1>2, <2>3 DEF HdInv, SlotInv, Mounted
  <2>5. TaskInv'
    BY <1>0, <1>1, <1>2, <1>3, <1>6, <2>1, <2>3 DEF TaskInv
  <2>6. WriteCount'
    BY <1>0, <1>1, <1>2, <1>3, <1>6, <2>1, <2>3 DEF WriteCount
  <2>7. ReadCount' /\ ReadBytes' /\ HdReadDataInPlace'
    BY <1>2, <1>6 DEF ReadCount, ReadBytes, HdReadDataInPlace
  <2>8. WriteBytes'
    <3>1. Done' = Done
      BY <1>1, <1>2, <1>3, <2>1 DEF Done
    <3>2. bstate' = "IDE_WR_STORE" => buf' = CpuBlock(HardDisk, cur_lba')
      BY <1>0, <2>1, <2>3
    <3> QED
      BY <1>2, <2>3, <3>1, <3>2 DEF HdInv, WriteBytes
  <2> QED
    BY <1>2, <2>3, <2>4, <2>5, <2>6, <2>7, <2>8 DEF HdInv
<1> QED
  BY <1>3, <1>5, <1>6

LEMMA SectorFetched ==
  ASSUME Inv, HdInv, BridgeIdeFetch
  PROVE  HdInv'
<1>0. /\ bstate = "IDE_RD_FETCH"
      /\ UNCHANGED <<ide_request, ide_status, ide_buf, ide_rd_act, ide_wr_act,
                     ide_rem, cur_lba, buf>>
      /\ xzero' = ~HdInRange(Mounted(HardDisk))
      /\ IF HdInRange(Mounted(HardDisk))
         THEN /\ bstate' = "BLK_ACK_HI" /\ seq_ret' = "IDE_RD_TX"
              /\ blk_op' = "read" /\ blk_drv' = HardDisk /\ blk_lba' = cur_lba
         ELSE bstate' = "IDE_RD_TX"
  BY DEF BridgeIdeFetch, IdeFetch, Ask, KeepIde, ideVars, hdVars, serviceVars
<1>1. UNCHANGED <<ide_request, ide_status, ide_buf, ide_rd_act, ide_wr_act,
                  ide_rem, cur_lba, buf>>
  BY <1>0
<1>2. /\ UNCHANGED <<slot, disk, ack, copying, hd_image, hd_present, hd_ro,
                     hd_mount_pend, hd_steady, ide_srst, ide_regs, host_moved>>
      /\ HdInPlace' /\ At' = At /\ Left' = Left /\ \A l : Stands(l)' <=> Stands(l)
      /\ \A v \in VDrives : ~ack[v] /\ ~copying
  BY TaskStep
<1>3. Fetching /\ ~Storing /\ Fetching' /\ ~Storing' /\ ~Mounting'
      /\ ~BlockFor("IDE_STEP")' /\ bstate' # "IDE_STEP"
      /\ bstate' # "IDE_WR_STORE" /\ bstate' # "BLK_ACK_LO"
  BY <1>0 DEF Fetching, Storing, Mounting, BlockFor, InBlock
<1>4. TaskInv'
  BY <1>1, <1>2, <1>3 DEF HdInv, TaskInv
<1>5. ReadCount' /\ WriteCount'
  BY <1>1, <1>2, <1>3 DEF HdInv, ReadCount, WriteCount, TaskInv
<1>6. SlotInv'
  BY <1>2, <1>3 DEF HdInv, SlotInv, Mounted
<1>7. HdReadDataInPlace'
  BY <1>1, <1>2 DEF HdInv, HdReadDataInPlace, DataRequest
<1>8. WriteBytes'
  <2>1. Done' = Done
    BY <1>1, <1>2 DEF Done
  <2> QED
    BY <1>1, <1>2, <1>3, <2>1 DEF HdInv, WriteBytes
<1>9. BlockInv' /\ ReadBytes'
  <2>1. CASE HdInRange(Mounted(HardDisk))
    <3>1. cur_lba' < HdSectors /\ ~xzero' /\ ~ack'[HardDisk]
      BY <1>0, <1>2, <2>1, Drives DEF HdInRange
    <3> QED
      BY <1>0, <2>1, <3>1 DEF BlockInv, ReadBytes, BlockFor, InBlock
  <2>2. CASE ~HdInRange(Mounted(HardDisk))
    <3>1. cur_lba' < HdSectors => ~hd_steady'
      BY <1>1, <1>2, <2>2 DEF HdInv, SlotInv, HdInRange
    <3> QED
      BY <1>0, <2>2, <3>1 DEF BlockInv, ReadBytes, BlockFor, InBlock
  <2> QED
    BY <2>1, <2>2
<1> QED
  BY <1>2, <1>4, <1>5, <1>6, <1>7, <1>8, <1>9 DEF HdInv

(* The count of the bridge goes down by one.                               *)
LEMMA CountsDown ==
  ASSUME Inv, NextSector
  PROVE  /\ cur_lba' = cur_lba + 1
         /\ ide_rem > 0 => ide_rem' = ide_rem - 1
BY HdTypes DEF NextSector

LEMMA SectorSent ==
  ASSUME Inv, HdInv, BridgeIdeSend
  PROVE  HdInv'
<1>0. /\ bstate = "IDE_RD_TX" /\ bstate' = "IDLE" /\ NextSector
      /\ ide_rd_act' = (ide_rd_act /\ ~LastSector)
      /\ ide_wr_act' = ide_wr_act /\ buf' = buf
      /\ ide_buf' = IF xzero THEN ZeroBlock ELSE buf
      /\ IF ide_srst THEN UNCHANGED <<ide_request, ide_status>>
         ELSE /\ ide_request' = "none"
              /\ ide_status' = IF LastSector THEN "drq_last" ELSE "drq"
  BY DEF BridgeIdeSend, IdeSendSector, Reply, Answer, serviceVars
<1>1. /\ UNCHANGED <<slot, disk, hd_image, hd_present, hd_ro, hd_mount_pend,
                     hd_steady, ide_srst, ide_regs, host_moved>>
      /\ HdInPlace' /\ At' = At /\ Left' = Left
  BY TaskStep
<1>2. SlotInv' /\ BlockInv' /\ ReadBytes' /\ ~Storing' /\ ~Mounting'
  BY <1>0, <1>1, TaskRests
<1>3. Fetching /\ ~Fetching'
  BY <1>0 DEF Fetching, BlockFor, InBlock
<1>4. ide_status = "busy" /\ ide_regs.op \in {"read", "none"}
      /\ (ide_srst => ide_regs.op = "none")
  BY <1>3 DEF HdInv, TaskInv
<1>5. TaskInv'
  BY <1>0, <1>1, <1>2, <1>3, <1>4 DEF HdInv, TaskInv
<1>6. WriteCount' /\ WriteBytes'
  BY <1>1, <1>2, <1>4 DEF WriteCount, WriteBytes, Storing
<1>7. ReadCount'
  <2>1. SUFFICES ASSUME ide_regs.op = "read"
                 PROVE  ReadCount'
    BY <1>1 DEF ReadCount
  <2>2. /\ ide_rd_act /\ ~ide_wr_act /\ Left > 0 /\ ide_rem = Left
        /\ cur_lba = At
    BY <1>3, <2>1 DEF HdInv, ReadCount
  <2>3. ide_rem' = Left - 1 /\ cur_lba' = At + 1
    BY <1>0, <2>2, CountsDown, HdTypes
  <2>4. LastSector <=> Left = 1
    BY <2>2, <2>3, HdTypes DEF LastSector, Left
  <2>5. /\ ide_request' = "none"
        /\ ide_status' = IF Left = 1 THEN "drq_last" ELSE "drq"
        /\ ide_rd_act' = (Left # 1) /\ ~ide_wr_act'
    BY <1>0, <1>4, <2>1, <2>2, <2>4
  <2>6. Left \in Int
    BY HdTypes DEF Left
  <2> QED
    BY <1>1, <1>3, <2>2, <2>3, <2>5, <2>6 DEF ReadCount
<1>8. HdReadDataInPlace'
  <2>1. SUFFICES ASSUME ide_regs.op = "read"
                 PROVE  HdReadDataInPlace'
    BY <1>1 DEF HdReadDataInPlace
  <2>2. cur_lba = At
    BY <1>3, <2>1 DEF HdInv, ReadCount
  <2>3. IF xzero THEN cur_lba < HdSectors => ~hd_steady
                 ELSE cur_lba < HdSectors /\ Offers(buf, cur_lba)
    BY <1>0, <2>1 DEF HdInv, ReadBytes
  <2>4. IF At < HdSectors THEN Offers(ide_buf', At) ELSE ide_buf' = ZeroBlock
    BY <1>0, <2>2, <2>3 DEF Offers
  <2> QED
    BY <1>1, <2>4, HdTypes DEF HdReadDataInPlace, Offers, At
<1> QED
  BY <1>1, <1>2, <1>5, <1>6, <1>7, <1>8 DEF HdInv

LEMMA SectorStores ==
  ASSUME Inv, HdInv, BridgeIdeStore
  PROVE  HdInv'
<1>0. /\ bstate = "IDE_WR_STORE"
      /\ UNCHANGED <<ide_request, ide_status, ide_buf, ide_rd_act, ide_wr_act,
                     ide_rem, cur_lba, buf>>
      /\ IF HdInRange(Mounted(HardDisk)) /\ ~hd_ro
         THEN /\ bstate' = "BLK_ACK_HI" /\ seq_ret' = "IDE_STEP"
              /\ blk_op' = "write" /\ blk_drv' = HardDisk /\ blk_lba' = cur_lba
         ELSE bstate' = "IDE_STEP"
  BY DEF BridgeIdeStore, IdeStore, Ask, KeepIde, ideVars, hdVars, serviceVars
<1>1. UNCHANGED <<ide_request, ide_status, ide_buf, ide_rd_act, ide_wr_act,
                  ide_rem, cur_lba, buf>>
  BY <1>0
<1>2. /\ UNCHANGED <<slot, disk, ack, copying, hd_image, hd_present, hd_ro,
                     hd_mount_pend, hd_steady, ide_srst, ide_regs, host_moved>>
      /\ HdInPlace' /\ At' = At /\ Left' = Left /\ \A l : Stands(l)' <=> Stands(l)
      /\ \A v \in VDrives : ~ack[v] /\ ~copying
  BY TaskStep
<1>3. Storing /\ ~Fetching /\ Storing' /\ ~Fetching' /\ ~Mounting'
      /\ ~BlockFor("IDE_RD_TX")' /\ bstate' # "IDE_RD_TX"
      /\ bstate' # "IDE_WR_STORE" /\ bstate' # "BLK_ACK_LO"
  BY <1>0 DEF Fetching, Storing, Mounting, BlockFor, InBlock
<1>4. TaskInv'
  BY <1>1, <1>2, <1>3 DEF HdInv, TaskInv
<1>5. ReadCount' /\ WriteCount'
  BY <1>1, <1>2, <1>3 DEF HdInv, ReadCount, WriteCount, TaskInv
<1>6. SlotInv'
  BY <1>2, <1>3 DEF HdInv, SlotInv, Mounted
<1>7. HdReadDataInPlace' /\ ReadBytes'
  BY <1>1, <1>2, <1>3 DEF HdInv, HdReadDataInPlace, DataRequest, ReadBytes
<1>8. BlockInv'
  <2>1. CASE HdInRange(Mounted(HardDisk)) /\ ~hd_ro
    <3>1. cur_lba' < HdSectors /\ ~copying'
      BY <1>1, <1>2, <2>1, Drives DEF HdInRange
    <3> QED
      BY <1>0, <2>1, <3>1 DEF BlockInv, BlockFor, InBlock
  <2>2. CASE ~(HdInRange(Mounted(HardDisk)) /\ ~hd_ro)
    BY <1>0, <2>2 DEF BlockInv, BlockFor, InBlock
  <2> QED
    BY <2>1, <2>2
<1>9. WriteBytes'
  <2>1. buf' = CpuBlock(HardDisk, cur_lba')
    BY <1>0, <1>1 DEF HdInv, WriteBytes
  <2>2. Done' = Done
    BY <1>1, <1>2 DEF Done
  <2>3. hd_steady /\ ~hd_ro /\ bstate' = "IDE_STEP" => Stands(cur_lba)
    <3>1. hd_steady /\ ~hd_ro /\ bstate' = "IDE_STEP" => ~(cur_lba < HdSectors)
      BY <1>0 DEF HdInv, SlotInv, HdInRange
    <3> QED
      BY <3>1 DEF Stands
  <2>4. ~ack'[HardDisk]
    BY <1>2, Drives
  <2> QED
    BY <1>1, <1>2, <1>3, <2>1, <2>2, <2>3, <2>4 DEF HdInv, WriteBytes
<1> QED
  BY <1>2, <1>4, <1>5, <1>6, <1>7, <1>8, <1>9 DEF HdInv

LEMMA SectorStored ==
  ASSUME Inv, HdInv, BridgeIdeStored
  PROVE  HdInv'
<1>0. /\ bstate = "IDE_STEP" /\ bstate' = "IDLE" /\ NextSector
      /\ ide_wr_act' = ~LastSector /\ ide_rd_act' = ide_rd_act
      /\ ide_buf' = ide_buf
      /\ IF ide_srst THEN UNCHANGED <<ide_request, ide_status>>
         ELSE /\ ide_request' = "none"
              /\ ide_status' = IF LastSector THEN "ok" ELSE "drq"
  BY DEF BridgeIdeStored, IdeStored, Reply, Answer
<1>1. /\ UNCHANGED <<slot, disk, hd_image, hd_present, hd_ro, hd_mount_pend,
                     hd_steady, ide_srst, ide_regs, host_moved>>
      /\ HdInPlace' /\ At' = At /\ Left' = Left /\ \A l : Stands(l)' <=> Stands(l)
  BY TaskStep
<1>2. SlotInv' /\ BlockInv' /\ ReadBytes' /\ ~Storing' /\ ~Mounting'
  BY <1>0, <1>1, TaskRests
<1>3. Storing /\ ~Fetching'
  BY <1>0 DEF Storing, Fetching, BlockFor, InBlock
<1>4. ide_status = "busy" /\ ide_regs.op \in {"write", "none"}
      /\ (ide_srst => ide_regs.op = "none")
  BY <1>3 DEF HdInv, TaskInv
<1>5. TaskInv'
  BY <1>0, <1>1, <1>2, <1>3, <1>4 DEF HdInv, TaskInv
<1>6. ReadCount' /\ HdReadDataInPlace'
  BY <1>1, <1>4 DEF ReadCount, HdReadDataInPlace
<1>7. ASSUME ide_regs.op = "write"
      PROVE  /\ ide_rem = Left + 1 /\ cur_lba = At - 1 /\ ~ide_rd_act
             /\ host_moved > 0 /\ Left >= 0 /\ Left \in Int
             /\ ide_rem' = Left /\ cur_lba' = At
             /\ ide_request' = "none"
             /\ ide_status' = IF Left = 0 THEN "ok" ELSE "drq"
             /\ ide_wr_act' = (Left # 0)
  <2>1. /\ ide_rem = Left + 1 /\ cur_lba = At - 1 /\ ~ide_rd_act
        /\ host_moved > 0 /\ Left >= 0
    BY <1>3, <1>7 DEF HdInv, WriteCount
  <2>2. Left \in Int /\ At \in Int
    BY HdTypes DEF Left, At
  <2>3. ide_rem' = Left /\ cur_lba' = At
    BY <1>0, <2>1, <2>2, CountsDown
  <2>4. LastSector <=> Left = 0
    BY <2>3 DEF LastSector
  <2> QED
    BY <1>0, <1>4, <1>7, <2>1, <2>2, <2>3, <2>4
<1>8. WriteCount'
  BY <1>0, <1>1, <1>2, <1>7 DEF WriteCount
<1>9. WriteBytes'
  <2>1. ASSUME ide_regs.op = "write", hd_steady, ~hd_ro,
               NEW k \in 0 .. Done' - 1
        PROVE  Stands(ide_regs.lba + k)'
    <3>1. Done' = host_moved /\ Done = host_moved - 1
      BY <1>1, <1>4, <1>7, <2>1 DEF Done
    <3>2. CASE k = host_moved - 1
      <4>1. ide_regs.lba + k = cur_lba
        BY <1>7, <2>1, <3>2, HdTypes DEF At
      <4>2. Stands(cur_lba)
        BY <1>0, <2>1 DEF HdInv, WriteBytes
      <4> QED
        BY <1>1, <4>1, <4>2
    <3>3. CASE k # host_moved - 1
      <4>1. k \in 0 .. Done - 1
        BY <2>1, <3>1, <3>3, HdTypes
      <4>2. Stands(ide_regs.lba + k)
        BY <2>1, <4>1 DEF HdInv, WriteBytes
      <4> QED
        BY <1>1, <4>2
    <3> QED
      BY <3>2, <3>3
  <2>2. bstate' \notin {"IDE_WR_STORE", "IDE_STEP"} /\ \A r : ~BlockFor(r)'
    BY <1>0 DEF BlockFor, InBlock
  <2> QED
    BY <1>1, <2>1, <2>2 DEF WriteBytes
<1> QED
  BY <1>1, <1>2, <1>5, <1>6, <1>8, <1>9 DEF HdInv

-----------------------------------------------------------------------------
(* The block port: the acknowledge rises and falls, the firmware serves.   *)

LEMMA AskDropped ==
  ASSUME Inv, HdInv, BridgeAckRises
  PROVE  HdInv'
<1>1. /\ bstate = "BLK_ACK_HI" /\ bstate' = "BLK_ACK_LO" /\ ack[blk_drv]
      /\ UNCHANGED <<seq_ret, blk_drv, blk_lba, xzero, hdSide, ack, copying, buf,
                     slot, disk>>
  BY DEF BridgeAckRises, AckRises, KeepFdc, hdSide, ideVars, serviceVars,
     streamVars, hdVars, hdMountVars, historyVars
<1>2. UNCHANGED <<ide_request, ide_status, ide_srst, ide_regs, ide_buf,
                  host_moved, hd_mount_pend, hd_image, hd_present, hd_ro,
                  hd_steady, cur_lba>>
  BY <1>1 DEF hdSide
<1>3. /\ \A r : BlockFor(r)' <=> BlockFor(r)
      /\ (Fetching' <=> Fetching) /\ (Storing' <=> Storing)
      /\ (Mounting' <=> Mounting)
  BY <1>1 DEF BlockFor, InBlock, Fetching, Storing, Mounting
<1>4. TaskInv' /\ ReadCount' /\ WriteCount'
  BY <1>1, <1>3, CountsKept
<1>5. SlotInv'
  BY <1>1, <1>2, <1>3 DEF HdInv, SlotInv, Mounted
<1>6. BlockInv'
  BY <1>1, <1>2, <1>3 DEF HdInv, BlockInv
<1>7. HdInPlace' /\ HdReadDataInPlace'
  BY <1>1, <1>2 DEF HdInv, HdInPlace, HdReadDataInPlace, DataRequest
<1>8. BlockFor("IDE_RD_TX") \/ BlockFor("IDE_STEP") => ack[HardDisk]
  BY <1>1 DEF HdInv, BlockInv
<1>9. ReadBytes'
  BY <1>1, <1>2, <1>3, <1>8 DEF ReadBytes
<1>10. WriteBytes'
  <2>1. Done' = Done /\ \A l : Stands(l)' <=> Stands(l)
    BY <1>1, <1>2 DEF Done, Stands
  <2> QED
    BY <1>1, <1>2, <1>3, <1>8, <2>1 DEF HdInv, WriteBytes
<1> QED
  BY <1>4, <1>5, <1>6, <1>7, <1>9, <1>10 DEF HdInv

LEMMA BlockEnds ==
  ASSUME Inv, HdInv, BridgeAckFalls
  PROVE  HdInv'
<1>0. bstate' = IF seq_ret # "FDD_RD_TX" THEN seq_ret
                ELSE IF blk_err THEN "FDD_ERR" ELSE "FDD_RD_CHK"
  BY DEF BridgeAckFalls, AckFalls
<1>1. /\ bstate = "BLK_ACK_LO" /\ ~ack[blk_drv]
      /\ bstate' \in {seq_ret, "FDD_ERR", "FDD_RD_CHK"}
      /\ seq_ret \in {"IDE_RD_TX", "IDE_STEP", "IDE_MOUNT_GEO"} =>
           bstate' = seq_ret
      /\ UNCHANGED <<seq_ret, blk_op, blk_drv, blk_lba, xzero, hdSide, ack,
                     copying, buf, slot, disk>>
  BY <1>0 DEF BridgeAckFalls, AckFalls, KeepFdc, hdSide, ideVars, serviceVars,
     streamVars, portVars, hdVars, hdMountVars, historyVars
<1>2. UNCHANGED <<ide_request, ide_status, ide_srst, ide_regs, ide_buf,
                  host_moved, hd_mount_pend, hd_image, hd_present, hd_ro,
                  hd_steady, cur_lba>>
  BY <1>1 DEF hdSide
<1>3. seq_ret \in {"IDLE", "FDD_RD_TX", "IDE_MOUNT_GEO", "IDE_RD_TX", "IDE_STEP"}
      /\ bstate' \in {"IDLE", "FDD_ERR", "FDD_RD_CHK", "IDE_MOUNT_GEO",
                      "IDE_RD_TX", "IDE_STEP"}
  BY <1>0, <1>1, HdTypes DEF Inv, Handshake, InBlock, Returns
<1>4. /\ (Fetching' <=> Fetching) /\ (Storing' <=> Storing)
      /\ (Mounting' <=> Mounting)
      /\ \A r : ~BlockFor(r)'
      /\ \A r \in {"IDE_RD_TX", "IDE_STEP"} : bstate' = r => BlockFor(r)
  BY <1>0, <1>1, <1>3 DEF BlockFor, InBlock, Fetching, Storing, Mounting
<1>5. TaskInv' /\ ReadCount' /\ WriteCount'
  BY <1>1, <1>4, CountsKept
<1>6. SlotInv'
  BY <1>1, <1>2, <1>4 DEF HdInv, SlotInv, Mounted
<1>7. BlockInv'
  BY <1>3, <1>4 DEF BlockInv
<1>8. HdInPlace' /\ HdReadDataInPlace'
  BY <1>1, <1>2 DEF HdInv, HdInPlace, HdReadDataInPlace, DataRequest
<1>9. ReadBytes'
  <2>1. bstate' = "IDE_RD_TX" =>
          ~xzero /\ cur_lba < HdSectors /\ ~ack[HardDisk]
    BY <1>1, <1>4 DEF HdInv, BlockInv
  <2> QED
    BY <1>1, <1>2, <1>4, <2>1 DEF HdInv, ReadBytes, Offers
<1>10. WriteBytes'
  <2>1. Done' = Done /\ \A l : Stands(l)' <=> Stands(l)
    BY <1>1, <1>2 DEF Done, Stands
  <2> QED
    BY <1>1, <1>2, <1>3, <1>4, <2>1 DEF HdInv, WriteBytes
<1> QED
  BY <1>5, <1>6, <1>7, <1>8, <1>9, <1>10 DEF HdInv

(* A store in a floppy slot is not on the hard disk's images.              *)
LEMMA FloppyStored ==
  ASSUME Inv, HdInv, NEW d \in Floppies, NEW l, Store(d, l) \/ disk' = disk
  PROVE  HdDiskKept
<1>1. slot[d] \in FloppyImages \cup {NoImage}
  BY DEF HdInv, SlotInv
<1>2. slot[d] \notin HdImages
  BY <1>1, ImagesAssumption
<1>3. disk \in [DiskSectors -> Block]
  BY DEF Inv, TypeOK, ServiceTypeOK
<1>4. \A img \in HdImages, k \in 0 .. HdSectors - 1 :
        <<img, k>> \in DiskSectors /\ <<img, k>> # <<slot[d], l>>
  BY <1>2 DEF DiskSectors, Images, Sectors
<1>5. CASE disk' = [disk EXCEPT ![<<slot[d], l>>] = buf]
  BY <1>3, <1>4, <1>5 DEF HdDiskKept
<1> QED
  BY <1>5 DEF Store, HdDiskKept

LEMMA Ours ==
  ASSUME Inv, HdInv, Working, InBlock
  PROVE  blk_drv = HardDisk
BY DEF HdInv, BlockInv, Working, Fetching, Storing, Mounting, InBlock, BlockFor

LEMMA FloppyServed ==
  ASSUME Inv, HdInv, FirmwareAlone, InBlock, NEW l,
         UNCHANGED <<slot, copying>>,
         blk_drv \in Floppies, Store(blk_drv, l) \/ disk' = disk
  PROVE  HdInv'
<1>1. ~Working /\ HdDiskKept
  BY Ours, FloppyStored, Drives
<1>2. /\ UNCHANGED <<hdSide, bstate, seq_ret, blk_op, blk_drv>>
  BY DEF FirmwareAlone, BridgeRests, hdSide, ideVars, portVars, hdVars,
     hdMountVars, historyVars
<1>3. ~Working' /\ \A r : BlockFor(r)' <=> BlockFor(r)
  BY <1>1, <1>2 DEF Working, Fetching, Storing, Mounting, BlockFor, InBlock
<1>4. BlockInv'
  <2>1. \A r \in {"IDE_RD_TX", "IDE_STEP", "IDE_MOUNT_GEO"} : ~BlockFor(r)'
    BY <1>3 DEF Working, Fetching, Storing, Mounting
  <2> QED
    BY <1>2, <1>3, <2>1 DEF HdInv, BlockInv
<1> QED
  BY <1>1, <1>2, <1>3, <1>4, Elsewhere

(* What a step of the firmware leaves alone.                               *)
LEMMA BridgeWaits ==
  ASSUME Inv, HdInv, FirmwareAlone, UNCHANGED slot
  PROVE  /\ UNCHANGED <<ide_request, ide_status, ide_srst, ide_regs, ide_buf,
                        host_moved, hd_mount_pend, hd_image, hd_present, hd_ro,
                        hd_steady, cur_lba, bstate, seq_ret, blk_op, blk_drv,
                        blk_lba, xzero>>
         /\ \A r : BlockFor(r)' <=> BlockFor(r)
         /\ TaskInv' /\ ReadCount' /\ WriteCount' /\ SlotInv'
         /\ HdReadDataInPlace' /\ Done' = Done
<1>1. UNCHANGED <<hdSide, bstate, seq_ret, blk_op, blk_drv, blk_lba, xzero>>
  BY DEF FirmwareAlone, BridgeRests, hdSide, ideVars, portVars, hdVars,
     streamVars, hdMountVars, historyVars
<1>2. UNCHANGED <<ide_request, ide_status, ide_srst, ide_regs, ide_buf,
                  host_moved, hd_mount_pend, hd_image, hd_present, hd_ro,
                  hd_steady, cur_lba>>
  BY <1>1 DEF hdSide
<1>3. /\ \A r : BlockFor(r)' <=> BlockFor(r)
      /\ (Fetching' <=> Fetching) /\ (Storing' <=> Storing)
      /\ (Mounting' <=> Mounting)
  BY <1>1 DEF BlockFor, InBlock, Fetching, Storing, Mounting
<1>4. TaskInv' /\ ReadCount' /\ WriteCount'
  BY <1>1, <1>3, CountsKept
<1>5. SlotInv'
  BY <1>2, <1>3 DEF HdInv, SlotInv, Mounted
<1>6. HdReadDataInPlace' /\ Done' = Done
  BY <1>2 DEF HdInv, HdReadDataInPlace, DataRequest, Done
<1> QED
  BY <1>1, <1>2, <1>3, <1>4, <1>5, <1>6

LEMMA HdReadBegins ==
  ASSUME Inv, HdInv, blk_op = "read", ImageReadBegins(blk_drv), FirmwareAlone
  PROVE  HdInv'
<1>1. /\ UNCHANGED <<buf, slot, disk>> /\ copying'
      /\ bstate = "BLK_ACK_HI"
  BY DEF ImageReadBegins, Inv, Handshake
<1>2. /\ UNCHANGED <<ide_request, ide_status, ide_srst, ide_regs, ide_buf,
                     host_moved, hd_mount_pend, hd_image, hd_present, hd_ro,
                     hd_steady, cur_lba, bstate, seq_ret, blk_op, blk_drv,
                     blk_lba, xzero>>
      /\ \A r : BlockFor(r)' <=> BlockFor(r)
      /\ TaskInv' /\ ReadCount' /\ WriteCount' /\ SlotInv'
      /\ HdReadDataInPlace' /\ Done' = Done
  BY <1>1, BridgeWaits
<1>3. ~BlockFor("IDE_STEP")
  BY <1>1 DEF HdInv, BlockInv, BlockFor
<1>4. BlockInv'
  BY <1>1, <1>2, <1>3 DEF HdInv, BlockInv
<1>5. HdInPlace'
  BY <1>1 DEF HdInv, HdInPlace
<1>6. ReadBytes'
  BY <1>1, <1>2 DEF ReadBytes
<1>7. WriteBytes'
  <2>1. \A l : Stands(l)' <=> Stands(l)
    BY <1>1 DEF Stands
  <2> QED
    BY <1>1, <1>2, <1>3, <2>1 DEF HdInv, WriteBytes
<1> QED
  BY <1>2, <1>4, <1>5, <1>6, <1>7 DEF HdInv

LEMMA HdWritten ==
  ASSUME Inv, HdInv, blk_op = "write", ImageWrite(blk_drv, blk_lba),
         FirmwareAlone, BlockFor("IDE_STEP")
  PROVE  HdInv'
<1>1. /\ UNCHANGED <<buf, slot, copying>> /\ bstate = "BLK_ACK_HI"
      /\ blk_drv = HardDisk /\ blk_lba = cur_lba /\ cur_lba < HdSectors
      /\ ~copying /\ seq_ret = "IDE_STEP"
      /\ buf = CpuBlock(HardDisk, cur_lba) /\ Store(HardDisk, cur_lba)
  BY DEF ImageWrite, Inv, Handshake, HdInv, BlockInv, WriteBytes, BlockFor
<1>2. /\ UNCHANGED <<ide_request, ide_status, ide_srst, ide_regs, ide_buf,
                     host_moved, hd_mount_pend, hd_image, hd_present, hd_ro,
                     hd_steady, cur_lba, bstate, seq_ret, blk_op, blk_drv,
                     blk_lba, xzero>>
      /\ \A r : BlockFor(r)' <=> BlockFor(r)
      /\ TaskInv' /\ ReadCount' /\ WriteCount' /\ SlotInv'
      /\ HdReadDataInPlace' /\ Done' = Done
  BY <1>1, BridgeWaits
<1>3. BlockInv'
  BY <1>1, <1>2 DEF HdInv, BlockInv, BlockFor
<1>4. disk \in [DiskSectors -> Block]
      /\ slot[HardDisk] \in HdImages \cup {NoImage}
      /\ cur_lba \in 0 .. HdSectors - 1
  BY <1>1, HdTypes DEF Inv, TypeOK, ServiceTypeOK, HdInv, SlotInv
<1>5. \A img \in HdImages, k \in 0 .. HdSectors - 1 :
        <<img, k>> \in DiskSectors
  BY DEF DiskSectors, Images, Sectors
<1>6. \A img \in HdImages, k \in 0 .. HdSectors - 1 :
        disk'[<<img, k>>] =
          IF img = slot[HardDisk] /\ k = cur_lba THEN CpuBlock(HardDisk, k)
                                                 ELSE disk[<<img, k>>]
  <2>1. CASE slot[HardDisk] \in HdImages
    <3>1. disk' = [disk EXCEPT ![<<slot[HardDisk], cur_lba>>] =
                                 CpuBlock(HardDisk, cur_lba)]
      BY <1>1, <1>4, <1>5, <2>1 DEF Store, HasSector
    <3> QED
      BY <1>4, <1>5, <3>1
  <2>2. CASE slot[HardDisk] = NoImage
    <3>1. NoImage \notin Images
      BY ImagesAssumption DEF Images
    <3>2. \A s \in DiskSectors : s[1] # NoImage
      BY <3>1, SectorsNat
    <3>3. disk' = disk
      BY <1>1, <2>2, <3>2 DEF Store, HasSector
    <3> QED
      BY <2>2, <3>1, <3>3 DEF Images
  <2> QED
    BY <1>4, <2>1, <2>2
<1>7. HdInPlace'
  <2>1. \A img \in HdImages : \A l, i :
          i \in Place => BelongsAt(CpuBlock(HardDisk, l)[i], img, l, i)
    BY DEF BelongsAt, InPlace, CpuBlock, CpuByte, Homes
  <2> QED
    BY <1>6, <2>1 DEF HdInv, HdInPlace
<1>8. ReadBytes'
  BY <1>1, <1>2 DEF ReadBytes
<1>9. ASSUME NEW l \in Nat, Stands(l) \/ l = cur_lba, hd_steady
      PROVE  Stands(l)'
  <2>1. slot[HardDisk] \in HdImages
    BY <1>9 DEF HdInv, SlotInv, Mounted
  <2>2. l < HdSectors => l \in 0 .. HdSectors - 1
    BY HdTypes
  <2> QED
    BY <1>1, <1>6, <1>9, <2>1, <2>2 DEF Stands
<1>10. WriteBytes'
  <2>1. ASSUME ide_regs.op = "write", hd_steady, ~hd_ro, NEW k \in 0 .. Done - 1
        PROVE  Stands(ide_regs.lba + k)'
    <3>1. Stands(ide_regs.lba + k)
      BY <2>1 DEF HdInv, WriteBytes
    <3>2. ide_regs.lba + k \in Nat
      BY HdTypes
    <3> QED
      BY <1>2, <1>9, <2>1, <3>1, <3>2
  <2>2. hd_steady => Stands(cur_lba)'
    BY <1>2, <1>9, HdTypes
  <2> QED
    BY <1>1, <1>2, <2>1, <2>2 DEF WriteBytes
<1> QED
  BY <1>2, <1>3, <1>7, <1>8, <1>10 DEF HdInv

LEMMA BlockServed == ASSUME Inv, HdInv, Serve PROVE HdInv'
<1>1. FirmwareAlone /\ InBlock /\ bstate = "BLK_ACK_HI"
  BY DEF Serve, Inv, Handshake, InBlock
<1>2. CASE blk_op = "read" /\ ImageReadBegins(blk_drv)
  BY <1>1, <1>2, HdReadBegins
<1>3. CASE blk_op = "write" /\ ImageWrite(blk_drv, blk_lba)
  <2>1. CASE BlockFor("IDE_STEP")
    BY <1>1, <1>3, <2>1, HdWritten
  <2>2. CASE ~BlockFor("IDE_STEP")
    <3>1. BlockFor("IDLE")
      BY <1>1, <1>3, <2>2 DEF HdInv, BlockInv, BlockFor
    <3>2. blk_drv \in Floppies
      BY <3>1 DEF HdInv, BlockInv
    <3> QED
      BY <1>1, <1>3, <3>2, FloppyServed DEF ImageWrite
  <2> QED
    BY <2>1, <2>2
<1>4. CASE \E err \in BOOLEAN : InternalServe(blk_drv, blk_op, blk_lba, err)
  BY <1>1, <1>4, Drives, FloppyServed DEF InternalServe
<1> QED
  BY <1>2, <1>3, <1>4 DEF Serve

LEMMA BlockCopied == ASSUME Inv, HdInv, NEW d \in VDrives, Served(d) PROVE HdInv'
<1>1. /\ FirmwareAlone /\ UNCHANGED <<slot, disk>> /\ ~copying'
      /\ buf' = IF copying THEN Stored(d, blk_lba) ELSE buf
      /\ d = blk_drv /\ bstate = "BLK_ACK_LO" /\ ack[d] /\ ~ack'[d]
  BY HdTypes DEF Served, AckEnds, SetAck, AckRiseSeen, Inv, Handshake, InBlock
<1>2. /\ UNCHANGED <<ide_request, ide_status, ide_srst, ide_regs, ide_buf,
                     host_moved, hd_mount_pend, hd_image, hd_present, hd_ro,
                     hd_steady, cur_lba, bstate, seq_ret, blk_op, blk_drv,
                     blk_lba, xzero>>
      /\ \A r : BlockFor(r)' <=> BlockFor(r)
      /\ TaskInv' /\ ReadCount' /\ WriteCount' /\ SlotInv'
      /\ HdReadDataInPlace' /\ Done' = Done
  BY <1>1, BridgeWaits
<1>3. BlockInv'
  BY <1>1, <1>2 DEF HdInv, BlockInv
<1>4. HdInPlace'
  BY <1>1 DEF HdInv, HdInPlace
<1>5. ReadBytes'
  <2>1. ASSUME BlockFor("IDE_RD_TX")
        PROVE  Offers(buf, cur_lba)'
    <3>1. /\ buf' = Stored(HardDisk, cur_lba) /\ cur_lba \in 0 .. HdSectors - 1
      BY <1>1, <2>1, HdTypes DEF HdInv, BlockInv
    <3>2. CASE slot[HardDisk] \in HdImages
      <4>1. HasSector(HardDisk, cur_lba)
        BY <3>1, <3>2 DEF HasSector, DiskSectors, Images, Sectors
      <4>2. buf' = disk[<<slot[HardDisk], cur_lba>>]
        BY <3>1, <4>1 DEF Stored
      <4> QED
        BY <1>1, <1>2, <3>1, <3>2, <4>2 DEF HdInv, HdInPlace, Offers, BelongsAt
    <3>3. CASE slot[HardDisk] = NoImage
      <4>1. ~hd_steady
        BY <3>3 DEF HdInv, SlotInv, Mounted
      <4>2. NoImage \notin Images
        BY ImagesAssumption DEF Images
      <4>3. ~HasSector(HardDisk, cur_lba)
        BY <3>3, <4>2, SectorsNat DEF HasSector
      <4> QED
        BY <1>2, <3>1, <4>1, <4>3 DEF Stored, Offers
    <3> QED
      BY <3>2, <3>3 DEF HdInv, SlotInv
  <2> QED
    BY <1>1, <1>2, <2>1 DEF ReadBytes
<1>6. WriteBytes'
  <2>1. \A l : Stands(l)' <=> Stands(l)
    BY <1>1 DEF Stands
  <2>2. BlockFor("IDE_STEP") => buf' = buf
    BY <1>1 DEF HdInv, BlockInv
  <2> QED
    BY <1>1, <1>2, <2>1, <2>2 DEF HdInv, WriteBytes
<1> QED
  BY <1>2, <1>3, <1>4, <1>5, <1>6 DEF HdInv

-----------------------------------------------------------------------------
(* The hard disk is swapped.                                               *)
LEMMA HdSwapped == ASSUME Inv, HdInv, NEW m \in HdMounts, MountHardDisk(m) PROVE HdInv'
<1>0. m.img \in HdImages \cup {NoImage}
  BY ScenarioAssumption
<1>1. /\ UNCHANGED <<bstate, seq_ret, blk_op, blk_drv, blk_lba, xzero, ack,
                     copying, buf, disk, ide_request, ide_status, ide_srst,
                     ide_regs, ide_buf, host_moved, ide_rd_act, ide_wr_act,
                     ide_rem, cur_lba, hd_present, hd_ro>>
      /\ ~hd_steady' /\ hd_mount_pend' /\ hd_image' = (m.img # NoImage)
      /\ bstate # "BLK_ACK_LO" /\ slot' = [slot EXCEPT ![HardDisk] = m.img]
  BY DEF MountHardDisk, HdStrobe, Mount, AckFallSeen, ideVars, portVars,
     streamVars, hdVars
<1>2. /\ \A r : BlockFor(r)' <=> BlockFor(r)
      /\ (Fetching' <=> Fetching) /\ (Storing' <=> Storing)
      /\ (Mounting' <=> Mounting)
  BY <1>1 DEF BlockFor, InBlock, Fetching, Storing, Mounting
<1>3. At' = At /\ Left' = Left
  BY <1>1 DEF At, Left
<1>4. TaskInv'
  BY <1>1, <1>2 DEF HdInv, TaskInv
<1>5. ReadCount' /\ WriteCount'
  <2>1. ReadCount'
    BY <1>1, <1>2, <1>3 DEF HdInv, ReadCount
  <2>2. WriteCount'
    BY <1>1, <1>2, <1>3 DEF HdInv, WriteCount
  <2> QED
    BY <2>1, <2>2
<1>6. SlotInv'
  <2>1. slot \in [VDrives -> Slots]
    BY DEF Inv, TypeOK, ServiceTypeOK
  <2>2. slot'[HardDisk] = m.img /\ \A d \in Floppies : slot'[d] = slot[d]
    BY <1>1, <2>1, Drives
  <2> QED
    BY <1>0, <1>1, <2>2 DEF HdInv, SlotInv, Mounted
<1>7. BlockInv'
  BY <1>1, <1>2 DEF HdInv, BlockInv
<1>8. HdInPlace' /\ HdReadDataInPlace'
  BY <1>1 DEF HdInv, HdInPlace, HdReadDataInPlace, DataRequest,
     BelongsAt
<1>9. ReadBytes' /\ WriteBytes'
  BY <1>1, <1>2 DEF HdInv, ReadBytes, WriteBytes, Offers, BelongsAt
<1> QED
  BY <1>4, <1>5, <1>6, <1>7, <1>8, <1>9 DEF HdInv

LEMMA HdStarts == Init => HdInv
<1> SUFFICES ASSUME Init PROVE HdInv
  OBVIOUS
<1>1. /\ ide_request = "reset" /\ ide_status = "busy" /\ ~ide_srst
      /\ ide_regs.op = "none" /\ bstate = "IDLE" /\ ~hd_steady
      /\ hd_image = FALSE /\ hd_present = FALSE /\ ~hd_mount_pend
      /\ slot = [d \in VDrives |-> NoImage]
      /\ disk = [s \in DiskSectors |-> ImageBlock(s[1], s[2])]
  BY DEF Init, IdeInit, BridgeInit, ServiceInit, NoCommand
<1>2. \A r : ~BlockFor(r)
  BY <1>1 DEF BlockFor, InBlock
<1>3. SlotInv
  BY <1>1, Drives DEF SlotInv, Mounted
<1>4. TaskInv /\ ReadCount /\ WriteCount /\ BlockInv /\ ReadBytes /\ WriteBytes
      /\ HdReadDataInPlace
  BY <1>1, <1>2 DEF TaskInv, ReadCount, WriteCount, BlockInv, ReadBytes,
     WriteBytes, HdReadDataInPlace, Fetching, Storing
<1>5. HdInPlace
  <2>1. \A img \in HdImages, l \in 0 .. HdSectors - 1 :
          disk[<<img, l>>] = ImageBlock(img, l)
    BY <1>1 DEF DiskSectors, Images, Sectors
  <2>2. \A img, l, i : i \in Place => BelongsAt(ImageBlock(img, l)[i], img, l, i)
    BY DEF BelongsAt, InPlace, ImageBlock, ImageByte
  <2> QED
    BY <2>1, <2>2 DEF HdInPlace
<1> QED
  BY <1>3, <1>4, <1>5 DEF HdInv

LEMMA HdInductive == Inv /\ HdInv /\ [Next]_vars => HdInv'
<1> SUFFICES ASSUME Inv, HdInv, [Next]_vars PROVE HdInv'
  OBVIOUS
<1>1. CASE \/ \E cmd \in FdcCommands : StartCommand(cmd)
           \/ Result \/ FdcWrote \/ FdcStep \/ Dma \/ SoftReset
           \/ UNCHANGED vars
  BY <1>1, FloppyUsers
<1>2. CASE IdeStart \/ IdeTransfer \/ IdeSrst \/ ResetButton
  BY <1>2, AtaUsers
<1>3. CASE BridgeNext
  BY <1>3, MountStarts, MountEnds, TaskReset, TaskDispatched, TaskData,
     SectorFetched, SectorSent, SectorStores, SectorStored, FloppyUsers,
     FloppyWork, AskDropped, BlockEnds DEF BridgeNext
<1>4. CASE Serve \/ \E d \in VDrives : Served(d)
  BY <1>4, BlockServed, BlockCopied
<1>5. CASE \/ \E m \in FloppyMounts : MountFloppy(m)
           \/ \E m \in HdMounts : MountHardDisk(m)
  BY <1>5, FloppyMounted, HdSwapped
<1> QED
  BY <1>1, <1>2, <1>3, <1>4, <1>5 DEF Next, Machine

LEMMA HdInvariant == Spec => []HdInv
BY HdStarts, HdInductive, Invariant, PTL DEF Spec

(* A read offers the PC the sector its count says, whole and in order, for *)
(* every image, transfer length, mount and reset: what is fetched between  *)
(* two sectors, and what the floppy drives do there, never shows.          *)
THEOREM HdReadsInPlace == Spec => []HdReadDataInPlace
<1>1. HdInv => HdReadDataInPlace
  BY DEF HdInv
<1> QED
  BY <1>1, HdInvariant, PTL

(* A write that ends well is on the image in every sector it counts.       *)
THEOREM HdWritesStored == Spec => []HdWritesAreStored
<1>1. ASSUME Inv, HdInv
      PROVE  HdWritesAreStored
  <2>1. SUFFICES ASSUME ide_status = "ok", ide_regs.op = "write", hd_steady, ~hd_ro,
                        NEW k \in 0 .. ide_regs.count - 1
                 PROVE  Stands(ide_regs.lba + k)
    BY DEF HdWritesAreStored, Stands
  <2>2. Left = 0
    BY <1>1, <2>1 DEF HdInv, WriteCount
  <2>3. Done = ide_regs.count
    BY <1>1, <2>1, <2>2, HdTypes DEF Done, Left
  <2> QED
    BY <1>1, <2>1, <2>3 DEF HdInv, WriteBytes
<1> QED
  BY <1>1, Invariant, HdInvariant, PTL

(* The drive asks for the sectors a command counts, no fewer and no more.  *)
THEOREM HdCountsExact == Spec => []HdCountExact
<1>1. ASSUME Inv, HdInv
      PROVE  HdCountExact
  <2>1. Left \in Int /\ (Left > 0 <=> host_moved < ide_regs.count)
        /\ (Left = 0 <=> host_moved = ide_regs.count)
    BY <1>1, HdTypes DEF Left
  <2>2. CASE ide_regs.op = "read"
    BY <1>1, <2>1, <2>2 DEF HdInv, ReadCount, HdCountExact, DataRequest
  <2>3. CASE ide_regs.op = "write"
    BY <1>1, <2>1, <2>3 DEF HdInv, WriteCount, HdCountExact, DataRequest
  <2> QED
    BY <2>2, <2>3 DEF HdCountExact
<1> QED
  BY <1>1, Invariant, HdInvariant, PTL
=============================================================================
