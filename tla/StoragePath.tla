----------------------------- MODULE StoragePath -----------------------------
(***************************************************************************)
(* The storage path of the machine: the PC with its floppy and ATA         *)
(* controllers, the bridge, and the virtual drives of the framework.       *)
(* Every action is one component's step with what its neighbours do in it. *)
(***************************************************************************)
EXTENDS Floppy, IdeTask, MgmtBridge, BlockService

CONSTANTS
  FdcCommands,   \* the floppy commands the PC issues
  IdeCommands,   \* the ATA commands the PC issues
  FloppyMounts,  \* [drv, img, ro]: the floppy mounts the user makes
  HdMounts,      \* [img, ro]: the hard disk mounts the user makes
  SoftResets,    \* the PC's resets: "fdc" of the floppy controller, "select"
                 \* by a DOR that selects the other drive, "ata" by SRST
  HardResets,    \* whether the reset button is pressed
  FastCpu        \* whether a new command can overtake a 512-byte stream

ASSUME ScenarioAssumption ==
  /\ FdcCommands \subseteq FdcCommand
  /\ IdeCommands \subseteq IdeCommand
  /\ FloppyMounts \subseteq
       [drv : Floppies, img : FloppyImages \cup {NoImage}, ro : BOOLEAN]
  /\ HdMounts \subseteq [img : HdImages \cup {NoImage}, ro : BOOLEAN]
  /\ SoftResets \subseteq {"fdc", "select", "ata"}
  /\ HardResets \in BOOLEAN /\ FastCpu \in BOOLEAN

VARIABLES
  steady,    \* history: no mount on the drive since its command began
  completed, \* history: the sectors the floppy controller reported written
  hd_steady  \* history: the hard disk was there when its command began and
             \* has not been swapped since

historyVars == <<steady, completed, hd_steady>>
vars == <<fdcVars, ideVars, bridgeVars, serviceVars, historyVars>>

TypeOK ==
  /\ FdcTypeOK /\ IdeTypeOK /\ BridgeTypeOK /\ ServiceTypeOK
  /\ steady \in BOOLEAN
  /\ completed \subseteq Floppies \X Nat
  /\ hd_steady \in BOOLEAN

Init ==
  /\ FdcInit /\ IdeInit /\ BridgeInit /\ ServiceInit
  /\ steady = FALSE /\ completed = {} /\ hd_steady = FALSE

-----------------------------------------------------------------------------
(* Timing the model takes from the code.  A bus cycle of the bridge takes  *)
(* a few clocks, a stream of 512 bytes about 3600 and the store decision   *)
(* behind it a few: less than the controller's 4000-clock wait, and the    *)
(* cycles always, the stream unless FastCpu, less than a PC needs to issue *)
(* the bytes of a new command.  The firmware's next handler starts long    *)
(* after the bridge has seen the last one's acknowledge fall, and its      *)
(* acknowledge outlives the bridge's two synchroniser clocks.              *)
Streaming == bstate \in {"TX", "RX", "FDD_WR_STORE", "FDD_WAIT"}
OnTheBus == bstate \in {"FDD_REQ", "FDD_DISPATCH", "FDD_RD_CHK"}
(* Bug: the acknowledge falls before the synchroniser has passed it on.    *)
AckTooShort == TRUE
AckRiseSeen == bstate # "BLK_ACK_HI"
AckFallSeen == bstate # "BLK_ACK_LO"

-----------------------------------------------------------------------------
(* The PC and its floppy controller.                                       *)
BridgeRests == UNCHANGED <<bstate, seq_ret, portVars, streamVars, fdVars,
                           fdMountVars, hdVars, hdMountVars>>
FdcAlone ==
  /\ BridgeRests /\ HoldNext(fd_hold, Requesting')
  /\ UNCHANGED <<ideVars, serviceVars>>

StartCommand(cmd) ==
  /\ ~OnTheBus /\ (FastCpu \/ ~Streaming)
  /\ StartHangs(cmd) \/ StartRejected(cmd) \/ StartAccepted(cmd)
  /\ steady' = ~(fd_pend[cmd.drv] \/ fd_wait[cmd.drv])
  /\ FdcAlone /\ UNCHANGED <<completed, hd_steady>>

Result == ReadResult /\ FdcAlone /\ UNCHANGED historyVars

FdcWrote ==
  /\ UpdateSector
  /\ completed' = IF pending = "write" /\ steady
                  THEN completed \cup {<<drive, goal>>} ELSE completed
  /\ FdcAlone /\ UNCHANGED <<steady, hd_steady>>

FdcStep ==
  /\ \/ PrepareCount \/ CountLogical \/ Prepare \/ SdControl
     \/ PadWriteByte \/ CheckTc \/ FormatInputEnds
     \/ WaitOver /\ ~Streaming
  /\ FdcAlone /\ UNCHANGED historyVars

Dma ==
  /\ \/ DmaReadByte \/ DmaWriteByte \/ FormatShortId
     \/ \E c \in 0 .. Cylinders - 1 : FormatId(c, SectorsPerTrack - dma_left + 1)
  /\ FdcAlone /\ UNCHANGED historyVars

SoftReset ==
  \E d \in Floppies :
    /\ (IF d = drive THEN "fdc" ELSE "select") \in SoftResets
    /\ SwReset(d) /\ FdcAlone /\ UNCHANGED historyVars

-----------------------------------------------------------------------------
(* The PC and the ATA controller.                                          *)
IdeAlone ==
  /\ BridgeRests /\ HoldNext(fd_hold, Requesting)
  /\ UNCHANGED <<fdcVars, serviceVars, steady, completed>>

IdeStart ==
  /\ \E cmd \in IdeCommands : HostCommand(cmd)
  /\ hd_steady' = (hd_present /\ ~hd_mount_pend)
  /\ IdeAlone
IdeTransfer ==
  (HostReadSector \/ HostWriteSector) /\ IdeAlone /\ UNCHANGED hd_steady
IdeSrst ==
  /\ "ata" \in SoftResets
  /\ (SrstOn \/ SrstOff) /\ IdeAlone /\ UNCHANGED hd_steady

(* The reset button: both controllers, not the bridge nor the framework.   *)
ResetButton ==
  /\ HardResets
  /\ HardReset /\ IdeHardReset
  /\ BridgeRests /\ HoldNext(fd_hold, FALSE)
  /\ UNCHANGED serviceVars
  /\ steady' = FALSE /\ UNCHANGED <<completed, hd_steady>>

-----------------------------------------------------------------------------
(* The bridge and the ATA controller.                                      *)
WithIde == HoldNext(fd_hold, Requesting) /\ UNCHANGED <<fdcVars, historyVars>>
KeepIde == UNCHANGED ideVars
Reply(status) ==
  /\ Answer(status)
  /\ UNCHANGED <<ide_srst, ide_regs, ide_present, host_moved>>

BridgeMountHd == MountHd /\ WithIde /\ KeepIde /\ UNCHANGED serviceVars

BridgeMountHdDone ==
  /\ MountHdDone /\ WithIde /\ UNCHANGED serviceVars
  /\ ide_present' = hd_present
  /\ IF hd_present /\ ide_request = "none"
     THEN Answer("ready") ELSE UNCHANGED <<ide_request, ide_status>>
  /\ UNCHANGED <<ide_srst, ide_regs, ide_buf, host_moved>>

BridgeIdeReset ==
  /\ IdeReset(ide_request) /\ WithIde /\ UNCHANGED serviceVars
  /\ Reply("ready") /\ UNCHANGED ide_buf

BridgeIdeDispatch ==
  /\ IdeDispatch(ide_request, ide_regs) /\ WithIde /\ UNCHANGED serviceVars
  /\ UNCHANGED ide_buf
  /\ CASE ide_regs.op = "read" -> UNCHANGED ideVars
       [] ide_regs.op = "write" -> Reply("drq")
       [] ide_regs.op = "identify" -> Reply("drq_last")
       [] ide_regs.op = "other_ok" -> Reply("ok")
       [] OTHER -> Reply("abort")

BridgeIdeData ==
  /\ IdeData(ide_request) /\ WithIde
  /\ IF ~ide_rd_act /\ ide_wr_act
     THEN buf' = ide_buf /\ UNCHANGED <<ack, copying, blk_err, slot, flp_ro, disk>>
     ELSE UNCHANGED serviceVars
  /\ IF ide_rd_act \/ ide_wr_act THEN KeepIde
     ELSE Reply("abort") /\ UNCHANGED ide_buf

BridgeIdeFetch ==
  IdeFetch(Mounted(HardDisk)) /\ WithIde /\ KeepIde /\ UNCHANGED serviceVars

BridgeIdeSend ==
  /\ IdeSendSector /\ WithIde /\ UNCHANGED serviceVars
  /\ ide_buf' = IF xzero THEN ZeroBlock ELSE buf
  /\ Reply(IF LastSector THEN "drq_last" ELSE "drq")

BridgeIdeStore ==
  IdeStore(Mounted(HardDisk)) /\ WithIde /\ KeepIde /\ UNCHANGED serviceVars

BridgeIdeStored ==
  /\ IdeStored /\ WithIde /\ UNCHANGED serviceVars
  /\ UNCHANGED ide_buf
  /\ Reply(IF LastSector THEN "ok" ELSE "drq")

-----------------------------------------------------------------------------
(* The bridge and the floppy controller.                                   *)
KeepFdc ==
  HoldNext(fd_hold, Requesting) /\ UNCHANGED <<fdcVars, ideVars, historyVars>>
ChangeFdc == HoldNext(fd_hold, Requesting') /\ UNCHANGED <<ideVars, historyVars>>

BridgeEject(d) ==
  /\ Eject(ide_request, d) /\ UNCHANGED serviceVars
  /\ MgmtMedia(d, FALSE, media_wp[d]) /\ ChangeFdc

BridgeInsert(d) ==
  /\ Insert(ide_request, d) /\ UNCHANGED serviceVars
  /\ MgmtMedia(d, fd_image[d], ~fd_image[d] \/ fd_ro_lat[d]) /\ ChangeFdc

BridgeRequest ==
  /\ FddRequest(ide_request, Requesting)
  /\ KeepFdc /\ UNCHANGED serviceVars

BridgeSampleKind ==
  FddSampleKind(WriteRequest) /\ KeepFdc /\ UNCHANGED serviceVars

BridgeDispatch ==
  /\ FddDispatch(drive, sd_sector, Mounted(drive))
  /\ KeepFdc /\ UNCHANGED serviceVars

BridgeCheck ==
  /\ FddCheck(ReadRequest, drive, sd_sector)
  /\ KeepFdc /\ UNCHANGED serviceVars

BridgeSendByte ==
  /\ StreamStep("TX") /\ UNCHANGED serviceVars
  /\ MgmtPush(IF xzero THEN ZeroByte ELSE buf[xcnt]) /\ ChangeFdc

BridgeTakeByte ==
  /\ StreamStep("RX")
  /\ PutByte(xcnt, MgmtByte) /\ MgmtPop /\ ChangeFdc

BridgeStore ==
  /\ FddStore(Mounted(fd_drv)) /\ KeepFdc /\ UNCHANGED serviceVars

BridgeWaitOver ==
  FddWaitOver(Requesting) /\ KeepFdc /\ UNCHANGED serviceVars

(* Bug: the bridge waits for the failed request to drop (before fd_hold).  *)
BridgeErrorWaits ==
  /\ ~Requesting
  /\ FddError /\ HoldNext(TRUE, Requesting)
  /\ UNCHANGED <<fdcVars, ideVars, serviceVars, historyVars>>

BridgeError ==
  /\ FddError /\ HoldNext(TRUE, Requesting)
  /\ UNCHANGED <<fdcVars, ideVars, serviceVars, historyVars>>

-----------------------------------------------------------------------------
(* The bridge and the firmware.                                            *)
BridgeAckRises ==
  AckRises(ack) /\ KeepFdc /\ UNCHANGED serviceVars
BridgeAckFalls ==
  AckFalls(ack, blk_err) /\ KeepFdc /\ UNCHANGED serviceVars

BridgeNext ==
  \/ BridgeMountHd \/ BridgeMountHdDone
  \/ BridgeIdeReset \/ BridgeIdeDispatch \/ BridgeIdeData
  \/ BridgeIdeFetch \/ BridgeIdeSend \/ BridgeIdeStore \/ BridgeIdeStored
  \/ \E d \in Floppies : BridgeEject(d) \/ BridgeInsert(d)
  \/ BridgeRequest \/ BridgeSampleKind \/ BridgeDispatch \/ BridgeCheck
  \/ BridgeSendByte \/ BridgeTakeByte \/ BridgeStore \/ BridgeWaitOver
  \/ BridgeError \/ BridgeAckRises \/ BridgeAckFalls

FirmwareAlone ==
  /\ BridgeRests /\ HoldNext(fd_hold, Requesting)
  /\ UNCHANGED <<fdcVars, ideVars, historyVars>>

Serve ==
  /\ \/ blk_op = "read" /\ ImageReadBegins(blk_drv)
     \/ blk_op = "write" /\ ImageWrite(blk_drv, blk_lba)
     \/ \E err \in BOOLEAN :
          blk_op # "none" /\ InternalServe(blk_drv, blk_op, blk_lba, err)
  /\ FirmwareAlone

Served(d) == AckRiseSeen /\ AckEnds(d, blk_lba) /\ FirmwareAlone

MountFloppy(m) ==
  /\ AckFallSeen /\ m.img # slot[m.drv]
  /\ Mount(m.drv, m.img, m.ro)
  /\ FloppyStrobe(m.drv, m.img # NoImage, m.ro)
  /\ HoldNext(fd_hold, Requesting)
  /\ UNCHANGED <<fdcVars, ideVars>>
  /\ steady' = (steady /\ drive # m.drv)
  /\ completed' = {w \in completed : w[1] # m.drv}
  /\ UNCHANGED hd_steady

MountHardDisk(m) ==
  /\ AckFallSeen /\ m.img # slot[HardDisk]
  /\ Mount(HardDisk, m.img, m.ro)
  /\ HdStrobe(m.img # NoImage, m.ro)
  /\ HoldNext(fd_hold, Requesting)
  /\ hd_steady' = FALSE
  /\ UNCHANGED <<fdcVars, ideVars, steady, completed>>

(* All but the PC's floppy commands and the user's floppy mounts.          *)
Machine ==
  \/ Result \/ FdcWrote \/ FdcStep \/ Dma \/ SoftReset
  \/ IdeStart \/ IdeTransfer \/ IdeSrst \/ ResetButton
  \/ BridgeNext
  \/ Serve \/ \E d \in VDrives : Served(d)
  \/ \E m \in HdMounts : MountHardDisk(m)

Next ==
  \/ \E cmd \in FdcCommands : StartCommand(cmd)
  \/ \E m \in FloppyMounts : MountFloppy(m)
  \/ Machine

(* The circuit and the firmware's polling loop never stop; the 8237 serves *)
(* its channel and the PC's ATA driver takes its data.                     *)
Fairness ==
  /\ WF_vars(BridgeNext)
  /\ WF_vars(FdcStep \/ FdcWrote \/ Dma)
  /\ WF_vars(Serve \/ \E d \in VDrives : Served(d))
  /\ WF_vars(IdeTransfer) /\ WF_vars(Result)

Spec == Init /\ [][Next]_vars /\ Fairness

-----------------------------------------------------------------------------
(* The handshake with the firmware: one block at a time, the acknowledge   *)
(* only of the drive that asked, and the write mark (which turns an error  *)
(* into a dead drive) only on the floppy write in flight.  The bridge      *)
(* relies on it to know whose outcome the one error level is, and on       *)
(* returning from a block or a stream to the transfer that started it.     *)
InBlock == bstate \in {"BLK_ACK_HI", "BLK_ACK_LO"}
Handshake ==
  /\ blk_op # "none" <=> bstate = "BLK_ACK_HI"
  /\ \A d \in VDrives : ack[d] => d = blk_drv /\ InBlock
  /\ copying => ack[blk_drv]
  /\ fd_blk_wr => InBlock /\ seq_ret = "IDLE" /\ blk_drv = fd_drv
  /\ InBlock => seq_ret \notin {"FDD_WAIT", "FDD_WR_STORE"}
  /\ bstate = "TX" => seq_ret = "FDD_WAIT"
  /\ bstate = "RX" => seq_ret = "FDD_WR_STORE"
  /\ bstate \in {"RX", "FDD_WR_STORE"} => blk_drv = fd_drv

(* The handshake in the terms of BlockPort.                                *)
PortPhase ==
  CASE bstate = "BLK_ACK_HI" ->
         IF ack[blk_drv] THEN "acknowledged" ELSE "asked"
    [] bstate = "BLK_ACK_LO" ->
         IF ack[blk_drv] THEN "withdrawn" ELSE "released"
    [] OTHER -> "idle"
PortRequest ==
  IF PortPhase = "idle" THEN [op |-> "none", drv |-> 0, lba |-> 0]
                        ELSE [op |-> blk_op, drv |-> blk_drv, lba |-> blk_lba]
PortAcks == {d \in VDrives : ack[d]}
Port == INSTANCE BlockPort WITH
  Drives <- VDrives, Operations <- {"read", "write"},
  phase <- PortPhase, request <- PortRequest, acks <- PortAcks

(* The bridge and the firmware keep the block port's contract.             *)
PortSpec == Port!Spec

(* The drives an image goes into, and what it may hold: bytes of its own,  *)
(* and bytes the CPU wrote to a drive that it goes into.                   *)
Homes(img) ==
  IF img \in HdImages THEN {HardDisk}
                      ELSE {m.drv : m \in {n \in FloppyMounts : n.img = img}}
BelongsAt(b, img, l, i) ==
  /\ InPlace(b, l, i)
  /\ b.from = "image" => b.of = img
  /\ b.from = "cpu" => b.of \in Homes(img)

(* What a READ hands to the PC is the sector the command is at, of the     *)
(* disk in the command's drive, whole and in order, whatever was abandoned *)
(* before: a stale block never lands in another sector's FIFO.  A medium   *)
(* taken out under the command shows as zeros or as bytes it had.          *)
ReadDataInPlace ==
  fdc_state = "EMPTY_READ" /\ pending = "read" =>
    /\ Len(fifo) <= BlockBytes
    /\ \A i \in 1 .. Len(fifo) :
         LET at == BlockBytes - Len(fifo) + i - 1 IN
         IF steady THEN BelongsAt(fifo[i], slot[drive], goal, at)
                   ELSE InPlace(fifo[i], goal, at) \/ fifo[i] = ZeroByte

(* Every sector of every floppy image holds bytes of that image or bytes   *)
(* written to a drive it goes into, meant for that sector and in their     *)
(* places: no drain of the FIFO stores a sector twice, shifted, short, at  *)
(* another sector or on the other drive.  Only the fill of a format that   *)
(* the PC resets may leave stale bytes behind.                             *)
SectorsInPlace ==
  \A s \in DiskSectors : s[1] \in FloppyImages =>
    \A i \in Place : BelongsAt(disk[s][i], s[1], s[2], i) \/ disk[s][i] = Stale

InHand(d, l) ==
  /\ fd_is_wr /\ fd_drv = d /\ fd_lba = l
  /\ bstate = "FDD_WR_STORE" \/ fd_blk_wr

(* The controller reports a sector written before the firmware has it.     *)
(* Such a sector is on the medium, or still in the bridge's hands, or the  *)
(* drive is dead: no write is lost behind a success without a later error. *)
CompletedWritesAreStored ==
  \A w \in completed :
    \/ disk[<<slot[w[1]], w[2]>>][0].from # "image"
    \/ InHand(w[1], w[2])
    \/ fd_dead

(* A write-protected disk of the internal drive keeps its bytes whatever   *)
(* the PC writes, though the bridge learns of a change of disk only later: *)
(* a WRITE begun on the disk before is refused by the firmware itself.     *)
OnlyProtected(img) ==
  \A m \in FloppyMounts : m.img = img => m.ro /\ Internal(m.drv)
ProtectedStays ==
  \A s \in DiskSectors :
    s[1] \in FloppyImages /\ OnlyProtected(s[1]) => disk[s] = ImageBlock(s[1], s[2])

(* Once no mount is under way the controller and the bridge agree with the *)
(* framework on each drive: whether it holds a disk and whether that disk  *)
(* is protected, however the mounts overlapped with each other's ejects.   *)
MediaAgrees ==
  \A d \in Floppies :
    ~fd_pend[d] /\ ~fd_wait[d] =>
      /\ fd_mounted[d] = Mounted(d)
      /\ media_present[d] = Mounted(d)
      /\ Mounted(d) => media_wp[d] = fd_ro[d]
      /\ Mounted(d) /\ Internal(d) => fd_ro[d] = flp_ro

(* A request that a failed block has parked is never fed: only a reset     *)
(* ends it, so no garbage and no false success reaches DOS.                *)
ParkedStaysParked ==
  [][(fd_hold \/ fd_dead) /\ Requesting => Requesting' \/ pending' = "none"]_vars

-----------------------------------------------------------------------------
(* The sector the hard disk offers the PC is the one its count says, of    *)
(* the image that is mounted; zeros are offered beyond the image, and for  *)
(* a disk that is gone.                                                    *)
HdReadDataInPlace ==
  DataRequest /\ ide_regs.op = "read" =>
    LET l == ide_regs.lba + host_moved IN
    IF l >= HdSectors THEN ide_buf = ZeroBlock
    ELSE IF hd_steady
    THEN \A i \in Place : BelongsAt(ide_buf[i], slot[HardDisk], l, i)
    ELSE ide_buf = ZeroBlock \/ \A i \in Place : InPlace(ide_buf[i], l, i)

(* When a write command ends well every sector of it is on the image,      *)
(* unless that was protected or swapped under the command.                 *)
HdWritesAreStored ==
  ide_status = "ok" /\ ide_regs.op = "write" /\ hd_steady /\ ~hd_ro =>
    \A k \in 0 .. ide_regs.count - 1 :
      LET l == ide_regs.lba + k IN
      l < HdSectors => disk[<<slot[HardDisk], l>>] = CpuBlock(HardDisk, l)

(* The drive asks for exactly as many sectors as the command counts, even  *)
(* when an SRST interrupts another command half way.  Only a swapped disk  *)
(* is ready before its command has ended.                                  *)
HdCountExact ==
  ide_regs.op \in {"read", "write"} =>
    /\ DataRequest => host_moved < ide_regs.count
    /\ ide_status = "ok" \/ (ide_status = "ready" /\ hd_steady) =>
         host_moved = ide_regs.count

-----------------------------------------------------------------------------
(* The hard disk keeps being served, whatever state the floppy drive is    *)
(* parked in.                                                              *)
HdRequestServed ==
  \A r \in {"command", "data"} : ide_request = r ~> ide_request # r

(* Mounts and the ATA controller go first in the bridge: eventually the    *)
(* user stops changing floppies and the PC no longer uses the hard disk.   *)
FloppiesGetTheirTurn ==
  <>[](ide_request = "none" /\ \A d \in Floppies : ~fd_pend[d])

(* Every floppy request is served or parked, unless the user changes disks *)
(* or the PC uses the hard disk for ever.                                  *)
FloppyRequestServed ==
  FloppiesGetTheirTurn =>
    (Requesting ~> (~Requesting \/ fd_hold \/ fd_dead))

(* Every data command ends, unless its drive is parked: the bridge never   *)
(* loses the next sector's request while it stores the last one.           *)
CommandEnds ==
  FloppiesGetTheirTurn =>
    (pending # "none" ~> pending = "none" \/ fd_hold \/ fd_dead)

-----------------------------------------------------------------------------
(* What the documents say and the code does not keep.                      *)

(* docs/floppy.md: "the reset button revives A:".                          *)
ResetRevivesFloppy == [][ResetButton => ~fd_dead']_vars

(* docs/mgmt-bus-and-storage-regs.md: a write's 512 bytes are stored "to   *)
(* image[drive] sector lba", drive and lba being those of its request.     *)
WritesReachTheirDrive ==
  \A s \in DiskSectors, i \in Place :
    disk[s][i].from = "cpu" => disk[s][i].of \in Homes(s[1])

(* mgmt_bridge.sv: a block whose request was abandoned is dropped "and the *)
(* live request is dispatched afresh"; "the still-pending request is       *)
(* parked" is that of the failed block.  docs/release/README.md: a failure *)
(* of the internal drive leaves "Drive B: and the hard disk ... unaffected".*)
OnlyFailedRequestParks ==
  [][/\ fd_hold' /\ ~fd_hold =>
          ReadRequest /\ drive = fd_drv /\ sd_sector = fd_lba
     /\ (bstate' = "FDD_ERR" /\ bstate # "FDD_ERR") \/ (fd_dead' /\ ~fd_dead)
          => Internal(blk_drv)]_vars
=============================================================================
