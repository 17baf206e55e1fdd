--------------------------- MODULE StoragePathTypes ---------------------------
(***************************************************************************)
(* Type correctness of the storage path, for every geometry, every set of  *)
(* images and every scenario: each component's actions keep its part of    *)
(* TypeOK, and a step of the whole is a step of one component with what    *)
(* its neighbours do in it.                                                *)
(***************************************************************************)
EXTENDS StoragePath, TLAPS

-----------------------------------------------------------------------------
(* The data.                                                               *)
LEMMA ProductNat == \A a, b \in Nat : a * b \in Nat
OBVIOUS

(* A sector's number is a natural number.                                  *)
LEMMA LbaNat ==
  ASSUME NEW c \in Nat, NEW h \in {0, 1}, NEW s \in Nat \ {0}
  PROVE  Lba(c, h, s) \in Nat
<1>1. Heads \in Nat /\ SectorsPerTrack \in Nat
  BY GeometryAssumption
<1>2. c * Heads + h \in Nat
  <2>1. c * Heads \in Nat
    BY <1>1, ProductNat
  <2> QED BY <2>1
<1>3. (c * Heads + h) * SectorsPerTrack \in Nat
  BY <1>1, <1>2, ProductNat
<1> QED
  BY <1>3 DEF Lba

(* A floppy has at least one sector, so the clamp stays on the medium.     *)
LEMMA TotalPositive == TotalSectors \in Nat \ {0}
<1>1. \A a, b \in Nat \ {0} : a * b \in Nat \ {0}
  OBVIOUS
<1>2. /\ Cylinders \in Nat \ {0} /\ Heads \in Nat \ {0}
      /\ SectorsPerTrack \in Nat \ {0}
  BY GeometryAssumption
<1>3. Cylinders * Heads \in Nat \ {0}
  BY <1>1, <1>2
<1> QED
  BY <1>1, <1>2, <1>3 DEF TotalSectors

LEMMA ByteTypes ==
  /\ \A o \in Owners, l \in Nat, i \in Nat :
       ImageByte(o, l, i) \in Byte /\ CpuByte(o, l, i) \in Byte
  /\ Filler \in Byte /\ Padding \in Byte /\ ZeroByte \in Byte
  /\ Stale \in Byte /\ Junk \in Byte
BY DEF Byte, Origins, Owners, ImageByte, CpuByte, Unmarked, Filler, Padding,
       ZeroByte, Stale, Junk

LEMMA PlaceFacts ==
  /\ 0 \in Place /\ 1 \in Place /\ Place \subseteq Nat
  /\ \A i \in Place : i # BlockBytes - 1 => i + 1 \in Place
BY BlockBytesAssumption DEF Place

LEMMA BlockTypes ==
  /\ \A o \in Owners, l \in Nat :
       ImageBlock(o, l) \in Block /\ CpuBlock(o, l) \in Block
  /\ ZeroBlock \in Block
BY ByteTypes, PlaceFacts DEF Block, ImageBlock, CpuBlock, ZeroBlock

LEMMA SectorsNat == \A s \in DiskSectors : s[1] \in Images /\ s[2] \in Nat
BY GeometryAssumption, TotalPositive DEF DiskSectors, Sectors

-----------------------------------------------------------------------------
(* The floppy controller.                                                  *)
LEMMA FdcKept == FdcTypeOK /\ UNCHANGED fdcVars => FdcTypeOK'
BY DEF FdcTypeOK, fdcVars, mediaVars

LEMMA GotoType ==
  ASSUME FdcTypeOK, NEW s \in FdcStates, Goto(s) PROVE FdcTypeOK'
BY DEF FdcTypeOK, Goto, mediaVars

LEMMA StartType ==
  ASSUME FdcTypeOK, NEW cmd \in FdcCommand,
         StartHangs(cmd) \/ StartRejected(cmd) \/ StartAccepted(cmd)
  PROVE  FdcTypeOK'
<1>1. /\ cmd.op \in Commands /\ cmd.drv \in Floppies /\ cmd.c \in Nat
      /\ cmd.h \in {0, 1} /\ cmd.r \in Nat \ {0} /\ cmd.eot \in Nat
      /\ cmd.mt \in BOOLEAN /\ cmd.count \in Nat \ {0}
      /\ cmd.op = "format" => cmd.count <= SectorsPerTrack
  BY DEF FdcCommand
<1>2. CASE StartHangs(cmd)
  BY <1>1, <1>2 DEF FdcTypeOK, StartHangs, mediaVars
<1>3. CASE StartRejected(cmd)
  <2>0. \/ loc' = loc \/ loc' = [loc EXCEPT !.h = cmd.h]
        \/ loc' = [loc EXCEPT !.c = cmd.c, !.h = cmd.h, !.s = cmd.r]
    BY <1>3 DEF StartRejected
  <2>1. loc' \in Location
    BY <1>1, <2>0 DEF FdcTypeOK, Location
  <2> QED
    BY <1>1, <1>3, <2>1 DEF FdcTypeOK, StartRejected, mediaVars
<1>4. CASE StartAccepted(cmd)
  <2>0. \/ loc' = [loc EXCEPT !.h = cmd.h]
        \/ loc' = [c |-> cmd.c, h |-> cmd.h, s |-> cmd.r,
                   eot |-> cmd.eot, mt |-> cmd.mt]
    BY <1>4 DEF StartAccepted
  <2>1. loc' \in Location
    <3>1. CASE loc' = [loc EXCEPT !.h = cmd.h]
      BY <1>1, <3>1 DEF FdcTypeOK, Location
    <3>2. CASE loc' = [c |-> cmd.c, h |-> cmd.h, s |-> cmd.r,
                       eot |-> cmd.eot, mt |-> cmd.mt]
      BY <1>1, <3>2 DEF Location
    <3> QED
      BY <2>0, <3>1, <3>2
  <2>2. Lba(cmd.c, cmd.h, cmd.r) \in Nat
    BY <1>1, LbaNat
  <2>3. goal' \in Nat /\ fdc_state' \in FdcStates
    BY <1>4, <2>2 DEF FdcTypeOK, StartAccepted, FdcStates
  <2>4. dma_left' \in Nat /\ (pending' = "format" => dma_left' <= SectorsPerTrack)
    BY <1>1, <1>4 DEF StartAccepted
  <2> QED
    BY <1>1, <1>4, <2>1, <2>3, <2>4 DEF FdcTypeOK, StartAccepted, mediaVars
<1> QED
  BY <1>2, <1>3, <1>4

LEMMA ReadResultType == FdcTypeOK /\ ReadResult => FdcTypeOK'
BY DEF FdcTypeOK, ReadResult, mediaVars

LEMMA EnterResultType ==
  ASSUME FdcTypeOK, NEW s \in {"normal", "abnormal"}, EnterResult(s)
  PROVE  FdcTypeOK'
<1>1. /\ fdc_state' \in FdcStates /\ pending' = "none"
      /\ reply' \in {"none", "normal", "abnormal"}
      /\ busy' \in BOOLEAN /\ terminated' \in BOOLEAN
  BY DEF EnterResult, FdcStates
<1>2. format_counter' \in Place /\ fifo' \in Seq(Byte)
  BY PlaceFacts DEF EnterResult
<1> QED
  BY <1>1, <1>2 DEF FdcTypeOK, EnterResult, mediaVars

LEMMA PrepareCountType == FdcTypeOK /\ PrepareCount => FdcTypeOK'
<1> SUFFICES ASSUME FdcTypeOK, PrepareCount PROVE FdcTypeOK'
  OBVIOUS
<1>1. Lba(loc.c, loc.h, loc.s) \in Nat
  BY LbaNat DEF FdcTypeOK, Location
<1> QED
  BY <1>1 DEF FdcTypeOK, PrepareCount, mediaVars, FdcStates

LEMMA PrepareType == FdcTypeOK /\ Prepare => FdcTypeOK'
BY TotalPositive DEF FdcTypeOK, Prepare, mediaVars, FdcStates

LEMMA NextLocationType == ASSUME loc \in Location PROVE NextLocation \in Location
<1>1. Cylinders \in Nat \ {0}
  BY GeometryAssumption
<1>2. /\ (IF OnlySector THEN loc.s + 1 ELSE 1) \in Nat \ {0}
      /\ (IF ~OnlySector /\ loc.mt THEN 1 - loc.h ELSE loc.h) \in {0, 1}
      /\ (IF ~NextCylinder THEN loc.c
          ELSE IF loc.c >= Cylinders THEN Cylinders - 1 ELSE loc.c + 1) \in Nat
  BY <1>1 DEF Location
<1> QED
  BY <1>2 DEF Location, NextLocation

LEMMA UpdateSectorType == FdcTypeOK /\ UpdateSector => FdcTypeOK'
BY NextLocationType DEF FdcTypeOK, UpdateSector, mediaVars, FdcStates

LEMMA FillFifoType ==
  ASSUME FdcTypeOK, NEW b \in Byte, FillFifo(b)
  PROVE  fifo' \in Seq(Byte) /\ fdc_state' \in FdcStates
BY DEF FdcTypeOK, FillFifo, FdcStates

LEMMA PadWriteByteType == FdcTypeOK /\ PadWriteByte => FdcTypeOK'
<1> SUFFICES ASSUME FdcTypeOK, PadWriteByte PROVE FdcTypeOK'
  OBVIOUS
<1>1. fifo' \in Seq(Byte) /\ fdc_state' \in FdcStates
  BY FillFifoType, ByteTypes DEF PadWriteByte
<1> QED
  BY <1>1 DEF FdcTypeOK, PadWriteByte, mediaVars

LEMMA DmaWriteByteType == FdcTypeOK /\ DmaWriteByte => FdcTypeOK'
<1> SUFFICES ASSUME FdcTypeOK, DmaWriteByte PROVE FdcTypeOK'
  OBVIOUS
<1>1. CpuByte(drive, goal, Len(fifo)) \in Byte
  BY ByteTypes DEF FdcTypeOK, Owners, VDrives
<1>2. fifo' \in Seq(Byte) /\ fdc_state' \in FdcStates
  BY <1>1, FillFifoType DEF DmaWriteByte
<1> QED
  BY <1>2 DEF FdcTypeOK, DmaWriteByte, DmaMoves, mediaVars

LEMMA DmaReadByteType == FdcTypeOK /\ DmaReadByte => FdcTypeOK'
BY DEF FdcTypeOK, DmaReadByte, DmaMoves, mediaVars, FdcStates

LEMMA DmaMovesType ==
  ASSUME FdcTypeOK, DmaMoves, UNCHANGED pending
  PROVE  /\ dma_left' \in Nat /\ terminated' \in BOOLEAN
         /\ pending' = "format" => dma_left' <= SectorsPerTrack
<1>1. dma_left' \in Nat /\ terminated' \in BOOLEAN
  BY DEF FdcTypeOK, DmaMoves
<1>2. SectorsPerTrack \in Nat
  BY GeometryAssumption
<1> QED
  BY <1>1, <1>2 DEF FdcTypeOK, DmaMoves

LEMMA FormatShortIdType == FdcTypeOK /\ FormatShortId => FdcTypeOK'
<1> SUFFICES ASSUME FdcTypeOK, FormatShortId PROVE FdcTypeOK'
  OBVIOUS
<1> QED
  BY DmaMovesType DEF FdcTypeOK, FormatShortId, mediaVars

LEMMA FormatIdType ==
  ASSUME FdcTypeOK, NEW c \in Nat, FormatId(c, SectorsPerTrack - dma_left + 1)
  PROVE  FdcTypeOK'
<1> DEFINE r == SectorsPerTrack - dma_left + 1
<1>1. r \in Nat \ {0}
  BY GeometryAssumption DEF FdcTypeOK, FormatId
<1>2. Lba(c, loc.h, r) \in Nat
  BY <1>1, LbaNat DEF FdcTypeOK, Location
<1>3. [loc EXCEPT !.c = c, !.s = r] \in Location
  BY <1>1 DEF FdcTypeOK, Location
<1> HIDE DEF r
<1>4. FormatId(c, r)
  BY DEF r
<1>5. loc' \in Location /\ goal' \in Nat /\ fdc_state' \in FdcStates
  BY <1>2, <1>3, <1>4 DEF FormatId, FdcStates
<1> QED
  BY <1>4, <1>5, DmaMovesType DEF FdcTypeOK, FormatId, mediaVars

LEMMA SwResetType ==
  ASSUME FdcTypeOK, NEW d \in Floppies, SwReset(d) PROVE FdcTypeOK'
<1>1. loc' \in Location
  BY DEF FdcTypeOK, SwReset, Home, Location
<1>2. fdc_state' \in FdcStates /\ terminated' \in BOOLEAN
  BY DEF FdcTypeOK, SwReset, FdcStates
<1>3. format_counter' \in Place
  BY PlaceFacts DEF FdcTypeOK, SwReset
<1>4. fifo' \in Seq(Byte)
  <2>1. fifo' = <<>> \/ fifo' = fifo
    BY DEF SwReset
  <2>2. <<>> \in Seq(Byte) /\ fifo \in Seq(Byte)
    BY DEF FdcTypeOK
  <2> QED
    BY <2>1, <2>2
<1> QED
  BY <1>1, <1>2, <1>3, <1>4 DEF FdcTypeOK, SwReset, mediaVars

LEMMA HardResetType == FdcTypeOK /\ HardReset => FdcTypeOK'
<1> SUFFICES ASSUME FdcTypeOK, HardReset PROVE FdcTypeOK'
  OBVIOUS
<1>1. loc' \in Location
  BY DEF HardReset, Home, Location
<1>2. /\ fdc_state' \in FdcStates /\ pending' \in Commands \cup {"none"}
      /\ reply' \in {"none", "normal", "abnormal"} /\ drive' \in Floppies
  BY DEF HardReset, FdcStates, Floppies
<1>3. busy' \in BOOLEAN /\ terminated' \in BOOLEAN
  BY DEF HardReset
<1>4. /\ logical' \in Nat /\ sd_sector' \in Nat /\ goal' \in Nat
      /\ format_counter' \in Place /\ fifo' \in Seq(Byte)
  BY PlaceFacts DEF FdcTypeOK, HardReset
<1>5. dma_left' \in Nat /\ (pending' = "format" => dma_left' <= SectorsPerTrack)
  BY DEF FdcTypeOK, HardReset
<1> QED
  BY <1>1, <1>2, <1>3, <1>4, <1>5 DEF FdcTypeOK, HardReset, mediaVars

LEMMA MgmtPushType ==
  ASSUME FdcTypeOK, NEW b \in Byte, MgmtPush(b) PROVE FdcTypeOK'
BY DEF FdcTypeOK, MgmtPush, mediaVars, FdcStates

LEMMA MgmtPopType == FdcTypeOK /\ MgmtPop => FdcTypeOK'
BY PlaceFacts DEF FdcTypeOK, MgmtPop, mediaVars, FdcStates

LEMMA MgmtMediaType ==
  ASSUME FdcTypeOK, NEW d \in Floppies, NEW p \in BOOLEAN, NEW w \in BOOLEAN,
         MgmtMedia(d, p, w)
  PROVE  FdcTypeOK'
BY DEF FdcTypeOK, MgmtMedia

LEMMA MgmtByteType == FdcTypeOK => MgmtByte \in Byte
BY ByteTypes DEF FdcTypeOK, MgmtByte

-----------------------------------------------------------------------------
(* The ATA controller.                                                     *)
LEMMA IdeKept == IdeTypeOK /\ UNCHANGED ideVars => IdeTypeOK'
BY DEF IdeTypeOK, ideVars

LEMMA NoCommandType == NoCommand \in IdeCommand
BY DEF NoCommand, IdeCommand, IdeOps

LEMMA HostCommandType ==
  ASSUME IdeTypeOK, NEW cmd \in IdeCommand, HostCommand(cmd) PROVE IdeTypeOK'
BY DEF IdeTypeOK, HostCommand, IdeRequests, IdeStatuses

LEMMA HostReadSectorType == IdeTypeOK /\ HostReadSector => IdeTypeOK'
BY DEF IdeTypeOK, HostReadSector, IdeRequests, IdeStatuses

LEMMA HostWriteSectorType == IdeTypeOK /\ HostWriteSector => IdeTypeOK'
<1> SUFFICES ASSUME IdeTypeOK, HostWriteSector PROVE IdeTypeOK'
  OBVIOUS
<1>1. ide_regs.lba + host_moved \in Nat
  BY DEF IdeTypeOK, IdeCommand
<1>2. ide_buf' \in Block
  BY <1>1, BlockTypes DEF HostWriteSector, Owners, VDrives
<1> QED
  BY <1>2 DEF IdeTypeOK, HostWriteSector, IdeRequests, IdeStatuses

LEMMA SrstType == IdeTypeOK /\ (SrstOn \/ SrstOff) => IdeTypeOK'
<1> SUFFICES ASSUME IdeTypeOK, SrstOn \/ SrstOff PROVE IdeTypeOK'
  OBVIOUS
<1>1. CASE SrstOn
  <2>1. ide_regs' \in IdeCommand /\ host_moved' \in Nat
    BY <1>1, NoCommandType DEF SrstOn
  <2>2. ide_request' \in IdeRequests /\ ide_status' \in IdeStatuses
    BY <1>1 DEF SrstOn, IdeRequests, IdeStatuses
  <2> QED
    BY <1>1, <2>1, <2>2 DEF IdeTypeOK, SrstOn
<1>2. CASE SrstOff
  BY <1>2 DEF IdeTypeOK, SrstOff
<1> QED
  BY <1>1, <1>2

LEMMA IdeHardResetType == IdeTypeOK /\ IdeHardReset => IdeTypeOK'
<1> SUFFICES ASSUME IdeTypeOK, IdeHardReset PROVE IdeTypeOK'
  OBVIOUS
<1>1. ide_regs' \in IdeCommand /\ host_moved' \in Nat
  BY NoCommandType DEF IdeHardReset
<1>2. ide_request' \in IdeRequests /\ ide_status' \in IdeStatuses
  BY DEF IdeHardReset, IdeRequests, IdeStatuses
<1> QED
  BY <1>1, <1>2 DEF IdeTypeOK, IdeHardReset

LEMMA AnswerType ==
  ASSUME IdeTypeOK, NEW s \in IdeStatuses, Answer(s)
  PROVE  ide_request' \in IdeRequests /\ ide_status' \in IdeStatuses
BY DEF IdeTypeOK, Answer, IdeRequests

LEMMA ReplyType ==
  ASSUME IdeTypeOK, NEW s \in IdeStatuses, Reply(s), ide_buf' \in Block
  PROVE  IdeTypeOK'
BY AnswerType DEF IdeTypeOK, Reply

-----------------------------------------------------------------------------
(* The bridge.  fd_hold is set by the composed step.                       *)
LEMMA BridgeKept ==
  BridgeTypeOK /\ BridgeRests /\ fd_hold' \in BOOLEAN => BridgeTypeOK'
BY DEF BridgeTypeOK, BridgeRests, portVars, streamVars, fdVars, fdMountVars,
       hdVars, hdMountVars

LEMMA HoldType == ASSUME NEW p, NEW r, HoldNext(p, r) PROVE fd_hold' \in BOOLEAN
BY DEF HoldNext

LEMMA FloppyStrobeType ==
  ASSUME BridgeTypeOK, NEW d \in Floppies, NEW i \in BOOLEAN, NEW r \in BOOLEAN,
         FloppyStrobe(d, i, r), fd_hold' \in BOOLEAN
  PROVE  BridgeTypeOK'
BY DEF BridgeTypeOK, FloppyStrobe, portVars, streamVars, fdVars, hdVars,
       hdMountVars

LEMMA HdStrobeType ==
  ASSUME BridgeTypeOK, NEW i \in BOOLEAN, NEW r \in BOOLEAN,
         HdStrobe(i, r), fd_hold' \in BOOLEAN
  PROVE  BridgeTypeOK'
BY DEF BridgeTypeOK, HdStrobe, portVars, streamVars, fdVars, hdVars,
       fdMountVars

LEMMA MountHdType ==
  ASSUME BridgeTypeOK, MountHd, fd_hold' \in BOOLEAN PROVE BridgeTypeOK'
<1>1. /\ bstate' \in BridgeStates /\ seq_ret' \in Returns
      /\ blk_op' \in {"none", "read", "write"} /\ blk_drv' \in VDrives
      /\ blk_lba' \in Nat
  BY DEF BridgeTypeOK, MountHd, Ask, portVars, BridgeStates, Returns, VDrives
<1>2. /\ hd_mount_pend' \in BOOLEAN /\ hd_image' \in BOOLEAN
      /\ hd_ro_lat' \in BOOLEAN /\ hd_present' \in BOOLEAN
      /\ hd_ro' \in BOOLEAN /\ ide_rd_act' \in BOOLEAN
      /\ ide_wr_act' \in BOOLEAN
  BY DEF BridgeTypeOK, MountHd
<1> QED
  BY <1>1, <1>2 DEF BridgeTypeOK, MountHd, streamVars, fdVars, fdMountVars

LEMMA IdeFetchType ==
  ASSUME BridgeTypeOK, NEW m, IdeFetch(m), fd_hold' \in BOOLEAN PROVE BridgeTypeOK'
BY DEF BridgeTypeOK, IdeFetch, Ask, portVars, streamVars, fdVars, hdVars,
       fdMountVars, hdMountVars, BridgeStates, Returns, VDrives, HardDisk, Floppies

LEMMA NextSectorType ==
  BridgeTypeOK /\ NextSector => ide_rem' \in 0 .. 511 /\ cur_lba' \in Nat
BY DEF BridgeTypeOK, NextSector

LEMMA IdeSendSectorType ==
  ASSUME BridgeTypeOK, IdeSendSector, fd_hold' \in BOOLEAN PROVE BridgeTypeOK'
<1>1. ide_rem' \in 0 .. 511 /\ cur_lba' \in Nat
  BY NextSectorType DEF IdeSendSector
<1>2. bstate' \in BridgeStates /\ ide_rd_act' \in BOOLEAN
  BY DEF IdeSendSector, BridgeStates
<1> QED
  BY <1>1, <1>2 DEF BridgeTypeOK, IdeSendSector, portVars, streamVars, fdVars,
     fdMountVars, hdMountVars

LEMMA IdeStoredType ==
  ASSUME BridgeTypeOK, IdeStored, fd_hold' \in BOOLEAN PROVE BridgeTypeOK'
<1>1. ide_rem' \in 0 .. 511 /\ cur_lba' \in Nat
  BY NextSectorType DEF IdeStored
<1>2. bstate' \in BridgeStates /\ ide_wr_act' \in BOOLEAN
  BY DEF IdeStored, BridgeStates
<1> QED
  BY <1>1, <1>2 DEF BridgeTypeOK, IdeStored, portVars, streamVars, fdVars,
     fdMountVars, hdMountVars

LEMMA IdeDispatchType ==
  ASSUME BridgeTypeOK, NEW r, NEW cmd \in IdeCommand, IdeDispatch(r, cmd),
         fd_hold' \in BOOLEAN
  PROVE  BridgeTypeOK'
<1>1. ide_rem' \in 0 .. 511 /\ cur_lba' \in Nat
  BY DEF IdeDispatch, IdeCommand
<1>2. /\ bstate' \in BridgeStates /\ ide_rd_act' \in BOOLEAN
      /\ ide_wr_act' \in BOOLEAN
  BY DEF IdeDispatch, BridgeStates
<1> QED
  BY <1>1, <1>2 DEF BridgeTypeOK, IdeDispatch, portVars, streamVars, fdVars,
     fdMountVars, hdMountVars

LEMMA IdeStoreType ==
  ASSUME BridgeTypeOK, NEW m, IdeStore(m), fd_hold' \in BOOLEAN PROVE BridgeTypeOK'
BY DEF BridgeTypeOK, IdeStore, Ask, portVars, streamVars, fdVars, hdVars,
       fdMountVars, hdMountVars, BridgeStates, Returns, VDrives, HardDisk, Floppies

(* The actions that only move the machine and clear or set a flag.         *)
LEMMA BridgeMoveType ==
  ASSUME BridgeTypeOK, fd_hold' \in BOOLEAN,
         bstate' \in BridgeStates, UNCHANGED <<seq_ret, portVars, streamVars>>,
         UNCHANGED <<fd_drv, fd_lba, fd_blk_wr, fd_dead, fdMountVars>>,
         UNCHANGED <<hdMountVars, ide_rem, cur_lba>>,
         fd_is_wr' \in BOOLEAN, ide_rd_act' \in BOOLEAN, ide_wr_act' \in BOOLEAN
  PROVE  BridgeTypeOK'
BY DEF BridgeTypeOK, portVars, streamVars, fdMountVars, hdMountVars

LEMMA BridgeSimpleType ==
  ASSUME BridgeTypeOK, fd_hold' \in BOOLEAN, NEW r, NEW w \in BOOLEAN,
         \/ MountHdDone \/ IdeReset(r) \/ IdeData(r)
         \/ FddRequest(r, w) \/ FddSampleKind(w)
         \/ FddWaitOver(w) \/ FddError
  PROVE  BridgeTypeOK'
<1>1. /\ bstate' \in BridgeStates /\ ide_rd_act' \in BOOLEAN
      /\ ide_wr_act' \in BOOLEAN /\ fd_is_wr' \in BOOLEAN
  BY DEF BridgeTypeOK, MountHdDone, IdeReset, IdeData, FddRequest,
     FddSampleKind, FddWaitOver, FddError, hdVars, fdVars, BridgeStates
<1>2. /\ UNCHANGED <<seq_ret, portVars, streamVars>>
      /\ UNCHANGED <<fd_drv, fd_lba, fd_blk_wr, fd_dead, fdMountVars>>
      /\ UNCHANGED <<hdMountVars, ide_rem, cur_lba>>
  BY DEF MountHdDone, IdeReset, IdeData, FddRequest,
     FddSampleKind, FddWaitOver, FddError, hdVars, fdVars
<1> QED
  BY <1>1, <1>2, BridgeMoveType

LEMMA EjectType ==
  ASSUME BridgeTypeOK, NEW r, NEW d \in Floppies, Eject(r, d), fd_hold' \in BOOLEAN
  PROVE  BridgeTypeOK'
BY DEF BridgeTypeOK, Eject, portVars, streamVars, fdVars, hdVars, hdMountVars

LEMMA InsertType ==
  ASSUME BridgeTypeOK, NEW r, NEW d \in Floppies, Insert(r, d), fd_hold' \in BOOLEAN
  PROVE  BridgeTypeOK'
BY DEF BridgeTypeOK, Insert, portVars, streamVars, fdVars, hdVars, hdMountVars

LEMMA FddDispatchType ==
  ASSUME BridgeTypeOK, NEW d \in Floppies, NEW l \in Nat, NEW m, 
         FddDispatch(d, l, m), fd_hold' \in BOOLEAN
  PROVE  BridgeTypeOK'
<1>1. /\ bstate' \in BridgeStates /\ seq_ret' \in Returns
      /\ xzero' \in BOOLEAN /\ xcnt' \in Place
  BY PlaceFacts DEF FddDispatch, BridgeStates, Returns
<1>2. /\ blk_op' \in {"none", "read", "write"} /\ blk_drv' \in VDrives
      /\ blk_lba' \in Nat /\ fd_drv' \in Floppies /\ fd_lba' \in Nat
  BY DEF BridgeTypeOK, FddDispatch, VDrives
<1> QED
  BY <1>1, <1>2 DEF BridgeTypeOK, FddDispatch, fdMountVars, hdVars, hdMountVars
LEMMA FddCheckType ==
  ASSUME BridgeTypeOK, NEW r, NEW d, NEW l, FddCheck(r, d, l), fd_hold' \in BOOLEAN
  PROVE  BridgeTypeOK'
BY PlaceFacts DEF BridgeTypeOK, FddCheck, portVars, streamVars, fdVars, hdVars,
       fdMountVars, hdMountVars, BridgeStates, Returns

LEMMA StreamStepType ==
  ASSUME BridgeTypeOK, NEW s \in {"TX", "RX"}, StreamStep(s), seq_ret \in BridgeStates,
         fd_hold' \in BOOLEAN
  PROVE  BridgeTypeOK'
BY PlaceFacts DEF BridgeTypeOK, StreamStep, portVars, streamVars, fdVars, hdVars,
       fdMountVars, hdMountVars, BridgeStates

LEMMA FddStoreType ==
  ASSUME BridgeTypeOK, NEW m, FddStore(m), fd_hold' \in BOOLEAN
  PROVE  BridgeTypeOK'
<1>1. /\ bstate' \in BridgeStates /\ seq_ret' \in Returns
      /\ blk_op' \in {"none", "read", "write"} /\ fd_blk_wr' \in BOOLEAN
  BY DEF BridgeTypeOK, FddStore, AfterStore, BridgeStates, Returns
<1> QED
  BY <1>1 DEF BridgeTypeOK, FddStore, streamVars, hdVars, fdMountVars, hdMountVars

LEMMA AckRisesType ==
  ASSUME BridgeTypeOK, NEW a, AckRises(a), fd_hold' \in BOOLEAN
  PROVE  BridgeTypeOK'
BY DEF BridgeTypeOK, AckRises, portVars, streamVars, fdVars, hdVars,
       fdMountVars, hdMountVars, BridgeStates, Returns

LEMMA AckFallsType ==
  ASSUME BridgeTypeOK, NEW a, NEW e, AckFalls(a, e), fd_hold' \in BOOLEAN
  PROVE  BridgeTypeOK'
<1>1. /\ bstate' \in BridgeStates /\ fd_dead' \in BOOLEAN
      /\ fd_blk_wr' \in BOOLEAN
  BY DEF BridgeTypeOK, AckFalls, BridgeStates, Returns
<1> QED
  BY <1>1 DEF BridgeTypeOK, AckFalls, portVars, streamVars, hdVars, fdMountVars,
     hdMountVars
-----------------------------------------------------------------------------
(* The virtual drives.                                                     *)
LEMMA ServiceKept == ServiceTypeOK /\ UNCHANGED serviceVars => ServiceTypeOK'
BY DEF ServiceTypeOK, serviceVars

LEMMA StoredType == ASSUME ServiceTypeOK, NEW d, NEW l PROVE Stored(d, l) \in Block
BY BlockTypes DEF ServiceTypeOK, Stored, HasSector

LEMMA StoreType ==
  ASSUME ServiceTypeOK, NEW d, NEW l, Store(d, l)
  PROVE  disk' \in [DiskSectors -> Block]
BY DEF ServiceTypeOK, Store, HasSector

LEMMA SetAckType ==
  ASSUME ServiceTypeOK, NEW d \in VDrives, NEW v \in BOOLEAN, SetAck(d, v)
  PROVE  ack' \in [VDrives -> BOOLEAN]
BY DEF ServiceTypeOK, SetAck

LEMMA ServeType ==
  ASSUME ServiceTypeOK, NEW d \in VDrives, NEW l \in Nat, NEW op,
         \/ ImageReadBegins(d) \/ ImageWrite(d, l)
         \/ \E err \in BOOLEAN : InternalServe(d, op, l, err)
  PROVE  ServiceTypeOK'
<1>1. CASE ImageReadBegins(d)
  BY <1>1, SetAckType DEF ServiceTypeOK, ImageReadBegins
<1>2. CASE ImageWrite(d, l)
  BY <1>2, SetAckType, StoreType DEF ServiceTypeOK, ImageWrite
<1>3. ASSUME NEW err \in BOOLEAN, InternalServe(d, op, l, err)
      PROVE  ServiceTypeOK'
  <2>1. disk' \in [DiskSectors -> Block]
    BY <1>3, StoreType DEF ServiceTypeOK, InternalServe
  <2>2. buf' \in Block
    BY <1>3, StoredType DEF ServiceTypeOK, InternalServe
  <2>3. ack' \in [VDrives -> BOOLEAN] /\ blk_err' \in BOOLEAN
    BY <1>3, SetAckType DEF InternalServe
  <2> QED
    BY <1>3, <2>1, <2>2, <2>3 DEF ServiceTypeOK, InternalServe
<1> QED
  BY <1>1, <1>2, <1>3

LEMMA AckEndsType ==
  ASSUME ServiceTypeOK, NEW d \in VDrives, NEW l, AckEnds(d, l)
  PROVE  ServiceTypeOK'
BY SetAckType, StoredType DEF ServiceTypeOK, AckEnds

LEMMA MountType ==
  ASSUME ServiceTypeOK, NEW d \in VDrives, NEW img \in Slots, NEW ro \in BOOLEAN,
         Mount(d, img, ro)
  PROVE  ServiceTypeOK'
<1>1. slot' \in [VDrives -> Slots]
  BY DEF ServiceTypeOK, Mount
<1>2. blk_err' \in BOOLEAN /\ flp_ro' \in BOOLEAN
  BY DEF ServiceTypeOK, Mount
<1> QED
  BY <1>1, <1>2 DEF ServiceTypeOK, Mount

LEMMA PutByteType ==
  ASSUME ServiceTypeOK, NEW i \in Place, NEW b \in Byte, PutByte(i, b)
  PROVE  ServiceTypeOK'
BY DEF ServiceTypeOK, PutByte, Block

-----------------------------------------------------------------------------
HistoryTypeOK ==
  /\ steady \in BOOLEAN /\ completed \subseteq Floppies \X Nat
  /\ hd_steady \in BOOLEAN

LEMMA HistoryKept == HistoryTypeOK /\ UNCHANGED historyVars => HistoryTypeOK'
BY DEF HistoryTypeOK, historyVars

LEMMA TypeParts ==
  /\ TypeOK <=> /\ FdcTypeOK /\ IdeTypeOK /\ BridgeTypeOK
                /\ ServiceTypeOK /\ HistoryTypeOK
  /\ TypeOK' <=> /\ FdcTypeOK' /\ IdeTypeOK' /\ BridgeTypeOK'
                 /\ ServiceTypeOK' /\ HistoryTypeOK'
BY DEF TypeOK, HistoryTypeOK

LEMMA InitType == Init => TypeOK
<1> SUFFICES ASSUME Init PROVE TypeOK
  OBVIOUS
<1> USE DEF Init
<1>1. FdcTypeOK
  <2>1. fdc_state \in FdcStates /\ loc \in Location /\ format_counter \in Place
    BY PlaceFacts DEF FdcInit, FdcStates, Location, Home
  <2>2. /\ media_present \in [Floppies -> BOOLEAN]
        /\ media_wp \in [Floppies -> BOOLEAN] /\ drive \in Floppies
    BY DEF FdcInit, Floppies
  <2> QED
    BY <2>1, <2>2 DEF FdcInit, FdcTypeOK
<1>2. IdeTypeOK
  BY BlockTypes, NoCommandType DEF IdeInit, IdeTypeOK, IdeRequests, IdeStatuses
<1>3. BridgeTypeOK
  <2>1. /\ bstate \in BridgeStates /\ seq_ret \in Returns /\ xcnt \in Place
        /\ blk_drv \in VDrives /\ fd_drv \in Floppies
    BY PlaceFacts DEF BridgeInit, BridgeStates, Returns, VDrives, Floppies
  <2>2. /\ fd_pend \in [Floppies -> BOOLEAN] /\ fd_wait \in [Floppies -> BOOLEAN]
        /\ fd_image \in [Floppies -> BOOLEAN]
        /\ fd_ro_lat \in [Floppies -> BOOLEAN]
        /\ fd_mounted \in [Floppies -> BOOLEAN]
        /\ fd_ro \in [Floppies -> BOOLEAN]
    BY DEF BridgeInit
  <2>3. xzero \in BOOLEAN /\ fd_is_wr \in BOOLEAN /\ fd_hold \in BOOLEAN
    BY DEF BridgeInit
  <2>4. fd_dead \in BOOLEAN /\ fd_blk_wr \in BOOLEAN
    BY DEF BridgeInit
  <2>5. /\ hd_mount_pend \in BOOLEAN /\ hd_image \in BOOLEAN
        /\ hd_ro_lat \in BOOLEAN /\ hd_present \in BOOLEAN /\ hd_ro \in BOOLEAN
        /\ ide_rd_act \in BOOLEAN /\ ide_wr_act \in BOOLEAN
    BY DEF BridgeInit
  <2>6. /\ blk_op \in {"none", "read", "write"} /\ blk_lba \in Nat
        /\ fd_lba \in Nat /\ ide_rem \in 0 .. 511 /\ cur_lba \in Nat
    BY DEF BridgeInit
  <2> QED
    BY <2>1, <2>2, <2>3, <2>4, <2>5, <2>6 DEF BridgeTypeOK
<1>4. ServiceTypeOK
  <2>1. disk \in [DiskSectors -> Block]
    BY BlockTypes, SectorsNat DEF ServiceInit, Owners
  <2>2. slot \in [VDrives -> Slots] /\ ack \in [VDrives -> BOOLEAN]
    BY DEF ServiceInit, Slots
  <2> QED
    BY <2>1, <2>2, BlockTypes DEF ServiceInit, ServiceTypeOK
<1>5. HistoryTypeOK
  BY DEF HistoryTypeOK
<1> QED
  BY <1>1, <1>2, <1>3, <1>4, <1>5, TypeParts
-----------------------------------------------------------------------------
(* The PC's steps.                                                         *)
LEMMA FdcAloneType ==
  ASSUME TypeOK, FdcTypeOK', FdcAlone, HistoryTypeOK' PROVE TypeOK'
<1>1. fd_hold' \in BOOLEAN
  BY DEF FdcAlone, HoldNext
<1> QED
  BY <1>1, TypeParts, BridgeKept, IdeKept, ServiceKept DEF FdcAlone

LEMMA FloppyUserType ==
  ASSUME TypeOK,
         \/ \E cmd \in FdcCommands : StartCommand(cmd)
         \/ Result \/ FdcWrote \/ FdcStep \/ Dma \/ SoftReset
  PROVE  TypeOK'
<1> USE TypeParts
<1>1. ASSUME NEW cmd \in FdcCommands, StartCommand(cmd) PROVE TypeOK'
  <2>1. cmd \in FdcCommand
    BY ScenarioAssumption
  <2>2. FdcTypeOK'
    BY <1>1, <2>1, StartType DEF StartCommand
  <2>3. HistoryTypeOK'
    BY <1>1 DEF StartCommand, HistoryTypeOK
  <2> QED
    BY <1>1, <2>2, <2>3, FdcAloneType DEF StartCommand
<1>2. CASE Result
  BY <1>2, ReadResultType, HistoryKept, FdcAloneType DEF Result
<1>3. CASE FdcWrote
  <2>1. drive \in Floppies /\ goal \in Nat
    BY DEF FdcTypeOK
  <2>2. HistoryTypeOK'
    BY <1>3, <2>1 DEF FdcWrote, HistoryTypeOK
  <2> QED
    BY <1>3, <2>2, UpdateSectorType, FdcAloneType DEF FdcWrote
<1>4. CASE FdcStep
  <2>1. FdcTypeOK'
    <3>1. CASE PrepareCount \/ Prepare \/ PadWriteByte
      BY <3>1, PrepareCountType, PrepareType, PadWriteByteType
    <3>2. CASE CountLogical
      BY <3>2, GotoType DEF CountLogical, FdcStates
    <3>3. CASE SdControl
      BY <3>3, GotoType DEF SdControl, FdcStates
    <3>4. CASE CheckTc
      BY <3>4, GotoType, EnterResultType DEF CheckTc, FdcStates
    <3>5. CASE FormatInputEnds
      BY <3>5, EnterResultType DEF FormatInputEnds
    <3>6. CASE WaitOver
      BY <3>6, GotoType DEF WaitOver, FdcStates
    <3> QED
      BY <1>4, <3>1, <3>2, <3>3, <3>4, <3>5, <3>6 DEF FdcStep
  <2> QED
    BY <1>4, <2>1, HistoryKept, FdcAloneType DEF FdcStep
<1>5. CASE Dma
  <2>1. FdcTypeOK'
    <3>1. ASSUME NEW c \in 0 .. Cylinders - 1,
                 FormatId(c, SectorsPerTrack - dma_left + 1)
          PROVE  FdcTypeOK'
      <4>1. c \in Nat
        BY GeometryAssumption
      <4> QED
        BY <3>1, <4>1, FormatIdType
    <3> QED
      BY <1>5, <3>1, DmaReadByteType, DmaWriteByteType, FormatShortIdType DEF Dma
  <2> QED
    BY <1>5, <2>1, HistoryKept, FdcAloneType DEF Dma
<1>6. CASE SoftReset
  <2> PICK d \in Floppies : SwReset(d)
    BY <1>6 DEF SoftReset
  <2> QED
    BY <1>6, SwResetType, HistoryKept, FdcAloneType DEF SoftReset
<1> QED
  BY <1>1, <1>2, <1>3, <1>4, <1>5, <1>6

LEMMA IdeUserType ==
  ASSUME TypeOK, IdeStart \/ IdeTransfer \/ IdeSrst PROVE TypeOK'
<1> USE TypeParts
<1>1. IdeTypeOK'
  <2>1. \A cmd \in IdeCommands : cmd \in IdeCommand
    BY ScenarioAssumption
  <2> QED
    BY <2>1, HostCommandType, HostReadSectorType,
       HostWriteSectorType, SrstType DEF IdeStart, IdeTransfer, IdeSrst
<1>2. IdeAlone
  BY DEF IdeStart, IdeTransfer, IdeSrst
<1>3. fd_hold' \in BOOLEAN
  BY <1>2 DEF IdeAlone, HoldNext
<1>4. HistoryTypeOK'
  BY <1>2 DEF IdeStart, IdeTransfer, IdeSrst, IdeAlone, HistoryTypeOK,
     BridgeTypeOK
<1> QED
  BY <1>1, <1>2, <1>3, <1>4, FdcKept, BridgeKept, ServiceKept DEF IdeAlone

LEMMA ResetButtonType == ASSUME TypeOK, ResetButton PROVE TypeOK'
<1>1. HistoryTypeOK'
  BY TypeParts DEF ResetButton, HistoryTypeOK
<1>2. fd_hold' \in BOOLEAN
  BY DEF ResetButton, HoldNext
<1> QED
  BY <1>1, <1>2, TypeParts, HardResetType, IdeHardResetType, BridgeKept,
     ServiceKept DEF ResetButton

-----------------------------------------------------------------------------
(* The bridge's steps with the ATA controller.                             *)
LEMMA WithIdeType ==
  ASSUME TypeOK, WithIde, BridgeTypeOK', IdeTypeOK', ServiceTypeOK' PROVE TypeOK'
BY TypeParts, FdcKept, HistoryKept DEF WithIde

LEMMA WithIdeHold == WithIde => fd_hold' \in BOOLEAN
BY HoldType DEF WithIde

LEMMA BridgeIdeType ==
  ASSUME TypeOK,
         \/ BridgeMountHd \/ BridgeMountHdDone
         \/ BridgeIdeReset \/ BridgeIdeDispatch \/ BridgeIdeData
         \/ BridgeIdeFetch \/ BridgeIdeSend \/ BridgeIdeStore \/ BridgeIdeStored
  PROVE  TypeOK'
<1> USE TypeParts, WithIdeHold, WithIdeType
<1>0. buf \in Block /\ ide_buf \in Block /\ ide_regs \in IdeCommand
  BY DEF IdeTypeOK, ServiceTypeOK
<1>1. CASE BridgeMountHd
  BY <1>1, MountHdType, IdeKept, ServiceKept DEF BridgeMountHd, KeepIde
<1>2. CASE BridgeMountHdDone
  <2>1. BridgeTypeOK'
    BY <1>2, BridgeSimpleType DEF BridgeMountHdDone
  <2>2. ide_request' \in IdeRequests /\ ide_status' \in IdeStatuses
    BY <1>2, AnswerType DEF BridgeMountHdDone, IdeTypeOK, IdeStatuses
  <2>3. hd_present \in BOOLEAN
    BY DEF BridgeTypeOK
  <2>4. IdeTypeOK'
    BY <1>2, <2>2, <2>3 DEF BridgeMountHdDone, IdeTypeOK
  <2> QED
    BY <1>2, <2>1, <2>4, ServiceKept DEF BridgeMountHdDone
<1>3. CASE BridgeIdeReset
  <2>1. BridgeTypeOK'
    BY <1>3, BridgeSimpleType DEF BridgeIdeReset
  <2>2. IdeTypeOK'
    BY <1>0, <1>3, ReplyType DEF BridgeIdeReset, IdeStatuses
  <2> QED
    BY <1>3, <2>1, <2>2, ServiceKept DEF BridgeIdeReset
<1>4. CASE BridgeIdeDispatch
  <2>1. BridgeTypeOK'
    BY <1>0, <1>4, IdeDispatchType DEF BridgeIdeDispatch
  <2>2. IdeTypeOK'
    <3>1. \/ UNCHANGED ideVars
          \/ \E s \in {"drq", "drq_last", "ok", "abort"} : Reply(s)
      BY <1>4 DEF BridgeIdeDispatch
    <3>2. ide_buf' \in Block
      BY <1>0, <1>4 DEF BridgeIdeDispatch
    <3> QED
      BY <3>1, <3>2, ReplyType, IdeKept DEF IdeStatuses
  <2> QED
    BY <1>4, <2>1, <2>2, ServiceKept DEF BridgeIdeDispatch
<1>5. CASE BridgeIdeData
  <2>1. BridgeTypeOK'
    BY <1>5, BridgeSimpleType DEF BridgeIdeData
  <2>2. IdeTypeOK'
    BY <1>0, <1>5, ReplyType, IdeKept DEF BridgeIdeData, KeepIde, IdeStatuses
  <2>3. ServiceTypeOK'
    <3>1. CASE UNCHANGED serviceVars
      BY <3>1, ServiceKept
    <3>2. CASE buf' = ide_buf /\ UNCHANGED <<ack, copying, blk_err, slot, flp_ro, disk>>
      BY <1>0, <3>2 DEF ServiceTypeOK
    <3> QED
      BY <1>5, <3>1, <3>2 DEF BridgeIdeData
  <2> QED
    BY <1>5, <2>1, <2>2, <2>3 DEF BridgeIdeData
<1>6. CASE BridgeIdeFetch
  BY <1>6, IdeFetchType, IdeKept, ServiceKept DEF BridgeIdeFetch, KeepIde
<1>7. CASE BridgeIdeSend
  <2>1. IdeTypeOK'
    BY <1>0, <1>7, ReplyType, BlockTypes DEF BridgeIdeSend, IdeStatuses
  <2> QED
    BY <1>7, <2>1, IdeSendSectorType, ServiceKept DEF BridgeIdeSend
<1>8. CASE BridgeIdeStore
  BY <1>8, IdeStoreType, IdeKept, ServiceKept DEF BridgeIdeStore, KeepIde
<1>9. CASE BridgeIdeStored
  <2>1. IdeTypeOK'
    BY <1>0, <1>9, ReplyType DEF BridgeIdeStored, IdeStatuses
  <2> QED
    BY <1>9, <2>1, IdeStoredType, ServiceKept DEF BridgeIdeStored
<1> QED
  BY <1>1, <1>2, <1>3, <1>4, <1>5, <1>6, <1>7, <1>8, <1>9
-----------------------------------------------------------------------------
(* The bridge's steps with the floppy controller.  A stream returns where  *)
(* the handshake says, which is a state of the machine.                    *)
LEMMA KeepFdcType ==
  ASSUME TypeOK, KeepFdc, BridgeTypeOK', ServiceTypeOK' PROVE TypeOK'
BY TypeParts, FdcKept, IdeKept, HistoryKept DEF KeepFdc

LEMMA ChangeFdcType ==
  ASSUME TypeOK, ChangeFdc, FdcTypeOK', BridgeTypeOK', ServiceTypeOK'
  PROVE  TypeOK'
BY TypeParts, IdeKept, HistoryKept DEF ChangeFdc

LEMMA FddHold == KeepFdc \/ ChangeFdc => fd_hold' \in BOOLEAN
BY DEF KeepFdc, ChangeFdc, HoldNext

LEMMA BridgeFddType ==
  ASSUME TypeOK, Handshake,
         \/ \E d \in Floppies : BridgeEject(d) \/ BridgeInsert(d)
         \/ BridgeRequest \/ BridgeSampleKind \/ BridgeDispatch \/ BridgeCheck
         \/ BridgeSendByte \/ BridgeTakeByte \/ BridgeStore \/ BridgeWaitOver
         \/ BridgeError
  PROVE  TypeOK'
<1> USE TypeParts, FddHold
<1>0. /\ drive \in Floppies /\ sd_sector \in Nat
      /\ Requesting \in BOOLEAN /\ WriteRequest \in BOOLEAN
  BY DEF FdcTypeOK, Requesting, ReadRequest, WriteRequest
<1>1. ASSUME NEW d \in Floppies, BridgeEject(d) PROVE TypeOK'
  <2>1. media_wp[d] \in BOOLEAN
    BY DEF FdcTypeOK
  <2> QED
    BY <1>1, <2>1, EjectType, MgmtMediaType, ServiceKept, ChangeFdcType
    DEF BridgeEject
<1>2. ASSUME NEW d \in Floppies, BridgeInsert(d) PROVE TypeOK'
  <2>1. fd_image[d] \in BOOLEAN /\ (~fd_image[d] \/ fd_ro_lat[d]) \in BOOLEAN
    BY DEF BridgeTypeOK
  <2> QED
    BY <1>2, <2>1, InsertType, MgmtMediaType, ServiceKept, ChangeFdcType
    DEF BridgeInsert
<1>3. CASE BridgeRequest \/ BridgeSampleKind \/ BridgeWaitOver
  BY <1>0, <1>3, BridgeSimpleType, ServiceKept, KeepFdcType
  DEF BridgeRequest, BridgeSampleKind, BridgeWaitOver
<1>4. CASE BridgeDispatch
  BY <1>0, <1>4, FddDispatchType, ServiceKept, KeepFdcType DEF BridgeDispatch
<1>5. CASE BridgeCheck
  BY <1>5, FddCheckType, ServiceKept, KeepFdcType DEF BridgeCheck
<1>6. CASE BridgeSendByte
  <2>1. (IF xzero THEN ZeroByte ELSE buf[xcnt]) \in Byte
    BY ByteTypes DEF BridgeTypeOK, ServiceTypeOK, Block
  <2>2. FdcTypeOK'
    BY <1>6, <2>1, MgmtPushType DEF BridgeSendByte
  <2>3. BridgeTypeOK'
    <3>1. bstate = "TX"
      BY <1>6 DEF BridgeSendByte, StreamStep
    <3>2. seq_ret \in BridgeStates
      BY <3>1 DEF Handshake, BridgeStates
    <3> QED
      BY <1>6, <3>2, StreamStepType DEF BridgeSendByte
  <2> QED
    BY <1>6, <2>2, <2>3, ServiceKept, ChangeFdcType DEF BridgeSendByte
<1>7. CASE BridgeTakeByte
  <2>1. MgmtByte \in Byte /\ xcnt \in Place
    BY MgmtByteType DEF BridgeTypeOK
  <2>2. FdcTypeOK' /\ ServiceTypeOK'
    BY <1>7, <2>1, MgmtPopType, PutByteType DEF BridgeTakeByte
  <2>3. BridgeTypeOK'
    <3>1. bstate = "RX"
      BY <1>7 DEF BridgeTakeByte, StreamStep
    <3>2. seq_ret \in BridgeStates
      BY <3>1 DEF Handshake, BridgeStates
    <3> QED
      BY <1>7, <3>2, StreamStepType DEF BridgeTakeByte
  <2> QED
    BY <1>7, <2>2, <2>3, ChangeFdcType DEF BridgeTakeByte
<1>8. CASE BridgeStore
  BY <1>8, FddStoreType, ServiceKept, KeepFdcType DEF BridgeStore
<1>9. CASE BridgeError
  <2>1. fd_hold' \in BOOLEAN
    BY <1>9 DEF BridgeError, HoldNext
  <2>2. BridgeTypeOK'
    BY <1>9, <2>1, BridgeSimpleType DEF BridgeError
  <2> QED
    BY <1>9, <2>2, FdcKept, IdeKept, ServiceKept, HistoryKept DEF BridgeError
<1> QED
  BY <1>1, <1>2, <1>3, <1>4, <1>5, <1>6, <1>7, <1>8, <1>9

-----------------------------------------------------------------------------
(* The block port and the firmware.                                        *)
LEMMA BlockType ==
  ASSUME TypeOK,
         \/ BridgeAckRises \/ BridgeAckFalls
         \/ Serve \/ \E d \in VDrives : Served(d)
  PROVE  TypeOK'
<1> USE TypeParts, FddHold
<1>0. blk_drv \in VDrives /\ blk_lba \in Nat
  BY DEF BridgeTypeOK
<1>1. CASE BridgeAckRises
  BY <1>1, AckRisesType, ServiceKept, KeepFdcType DEF BridgeAckRises
<1>2. CASE BridgeAckFalls
  BY <1>2, AckFallsType, ServiceKept, KeepFdcType DEF BridgeAckFalls
<1>3. ASSUME FirmwareAlone, ServiceTypeOK' PROVE TypeOK'
  <2>1. fd_hold' \in BOOLEAN
    BY <1>3 DEF FirmwareAlone, HoldNext
  <2> QED
    BY <1>3, <2>1, FdcKept, IdeKept, BridgeKept, HistoryKept DEF FirmwareAlone
<1>4. CASE Serve
  BY <1>0, <1>3, <1>4, ServeType DEF Serve
<1>5. ASSUME NEW d \in VDrives, Served(d) PROVE TypeOK'
  BY <1>3, <1>5, AckEndsType DEF Served
<1> QED
  BY <1>1, <1>2, <1>4, <1>5

LEMMA MountFloppyType ==
  ASSUME TypeOK, NEW m \in FloppyMounts, MountFloppy(m) PROVE TypeOK'
<1> USE TypeParts
<1>1. /\ m.drv \in Floppies /\ m.drv \in VDrives /\ m.img \in Slots
      /\ m.ro \in BOOLEAN /\ (m.img # NoImage) \in BOOLEAN
  BY ScenarioAssumption DEF VDrives, Slots, Images
<1>2. fd_hold' \in BOOLEAN
  BY DEF MountFloppy, HoldNext
<1>3. BridgeTypeOK'
  BY <1>1, <1>2, FloppyStrobeType DEF MountFloppy
<1>4. ServiceTypeOK'
  BY <1>1, MountType DEF MountFloppy
<1>5. HistoryTypeOK'
  BY DEF MountFloppy, HistoryTypeOK
<1> QED
  BY <1>3, <1>4, <1>5, FdcKept, IdeKept DEF MountFloppy

LEMMA MountHardDiskType ==
  ASSUME TypeOK, NEW m \in HdMounts, MountHardDisk(m) PROVE TypeOK'
<1> USE TypeParts
<1>1. /\ HardDisk \in VDrives /\ m.img \in Slots
      /\ m.ro \in BOOLEAN /\ (m.img # NoImage) \in BOOLEAN
  BY ScenarioAssumption DEF VDrives, Slots, Images
<1>2. fd_hold' \in BOOLEAN
  BY DEF MountHardDisk, HoldNext
<1>3. BridgeTypeOK'
  BY <1>1, <1>2, HdStrobeType DEF MountHardDisk
<1>4. ServiceTypeOK'
  BY <1>1, MountType DEF MountHardDisk
<1>5. HistoryTypeOK'
  BY DEF MountHardDisk, HistoryTypeOK
<1> QED
  BY <1>3, <1>4, <1>5, FdcKept, IdeKept DEF MountHardDisk

-----------------------------------------------------------------------------
(* Every step of the storage path keeps the types, given the handshake.    *)
LEMMA StepType == ASSUME TypeOK, Handshake, [Next]_vars PROVE TypeOK'
<1>1. CASE UNCHANGED vars
  BY <1>1, TypeParts, FdcKept, IdeKept, ServiceKept, HistoryKept
  DEF vars, bridgeVars, BridgeTypeOK, portVars, streamVars, fdVars,
      fdMountVars, hdVars, hdMountVars
<1>2. CASE Next
  BY <1>2, FloppyUserType, IdeUserType, ResetButtonType, BridgeIdeType,
     BridgeFddType, BlockType, MountFloppyType, MountHardDiskType
  DEF Next, Machine, BridgeNext
<1> QED
  BY <1>1, <1>2
=============================================================================
