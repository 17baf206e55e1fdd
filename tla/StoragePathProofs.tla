-------------------------- MODULE StoragePathProofs --------------------------
(***************************************************************************)
(* What holds of the storage path for every geometry, every set of images  *)
(* and every scenario of commands, mounts and resets: its types, the       *)
(* handshake on the block port, that the port keeps its contract, that a   *)
(* parked floppy request stays parked, and that the controllers agree with *)
(* the framework about the media.                                          *)
(*                                                                         *)
(* Types and handshake are one inductive invariant: a stream of bytes or a *)
(* block returns to the state that seq_ret holds, and only the handshake   *)
(* says which that is.                                                     *)
(***************************************************************************)
EXTENDS StoragePathTypes

(* Every image is in a drive that the user's mounts put it into.           *)
AtHome == \A d \in VDrives : slot[d] # NoImage => d \in Homes(slot[d])

Inv == TypeOK /\ Handshake /\ AtHome

LEMMA InitHandshake == Init => Handshake
BY DEF Init, BridgeInit, ServiceInit, Handshake, InBlock, VDrives, Floppies,
       HardDisk

(* The handshake is about these variables only.                            *)
LEMMA HandshakeKept ==
  ASSUME Handshake,
         UNCHANGED <<bstate, seq_ret, blk_op, blk_drv, fd_drv, fd_blk_wr,
                     ack, copying>>
  PROVE  Handshake'
BY DEF Handshake, InBlock

(* A step of the machine outside a block and outside a stream.             *)
LEMMA HandshakeMove ==
  ASSUME Handshake, UNCHANGED <<blk_op, blk_drv, fd_drv, fd_blk_wr, ack, copying>>,
         bstate \notin {"BLK_ACK_HI", "BLK_ACK_LO"},
         bstate' \notin {"BLK_ACK_HI", "BLK_ACK_LO", "TX", "RX", "FDD_WR_STORE"}
  PROVE  Handshake'
BY DEF Handshake, InBlock

LEMMA UsersHandshake ==
  ASSUME Inv,
         \/ \E cmd \in FdcCommands : StartCommand(cmd)
         \/ Result \/ FdcWrote \/ FdcStep \/ Dma \/ SoftReset
         \/ IdeStart \/ IdeTransfer \/ IdeSrst \/ ResetButton
  PROVE  Handshake'
<1>1. BridgeRests /\ UNCHANGED serviceVars
  BY DEF StartCommand, Result, FdcWrote, FdcStep, Dma, SoftReset, IdeStart,
     IdeTransfer, IdeSrst, ResetButton, FdcAlone, IdeAlone
<1> QED
  BY <1>1, HandshakeKept DEF Inv, BridgeRests, serviceVars, portVars, fdVars

(* Outside a block nothing is acknowledged, copied or marked.              *)
LEMMA Quiet ==
  ASSUME Inv, ~InBlock
  PROVE  blk_op = "none" /\ ~copying /\ ~fd_blk_wr /\ \A v \in VDrives : ~ack[v]
<1>1. \A v \in VDrives : ~ack[v]
  BY DEF Inv, Handshake
<1>2. blk_drv \in VDrives /\ blk_op \in {"none", "read", "write"}
  BY DEF Inv, TypeOK, BridgeTypeOK
<1> QED
  BY <1>1, <1>2 DEF Inv, Handshake, InBlock

(* No block is under way when the machine asks for one.                    *)
LEMMA AskHandshake ==
  ASSUME Inv, NEW op \in {"read", "write"}, NEW d \in VDrives, NEW l,
         NEW r \in {"IDLE", "FDD_RD_TX", "IDE_MOUNT_GEO", "IDE_RD_TX", "IDE_STEP"},
         ~InBlock, Ask(op, d, l, r),
         UNCHANGED <<fd_drv, fd_blk_wr, ack, copying>>
  PROVE  Handshake'
BY Quiet DEF Inv, Handshake, InBlock, Ask

LEMMA BridgeIdeHandshake ==
  ASSUME Inv,
         \/ BridgeMountHd \/ BridgeMountHdDone
         \/ BridgeIdeReset \/ BridgeIdeDispatch \/ BridgeIdeData
         \/ BridgeIdeFetch \/ BridgeIdeSend \/ BridgeIdeStore \/ BridgeIdeStored
  PROVE  Handshake'
<1>0. HardDisk \in VDrives
  BY DEF VDrives
<1>1. UNCHANGED <<ack, copying, fd_drv, fd_blk_wr>>
  BY DEF BridgeMountHd, BridgeMountHdDone, BridgeIdeReset, BridgeIdeDispatch,
     BridgeIdeData, BridgeIdeFetch, BridgeIdeSend, BridgeIdeStore,
     BridgeIdeStored, MountHd, MountHdDone, IdeReset, IdeDispatch, IdeData,
     IdeFetch, IdeSendSector, IdeStore, IdeStored, serviceVars, fdVars
<1>2. ~InBlock
  BY DEF InBlock, BridgeMountHd, BridgeMountHdDone, BridgeIdeReset,
     BridgeIdeDispatch, BridgeIdeData, BridgeIdeFetch, BridgeIdeSend,
     BridgeIdeStore, BridgeIdeStored, MountHd, MountHdDone, IdeReset,
     IdeDispatch, IdeData, IdeFetch, IdeSendSector, IdeStore, IdeStored
<1>3. \/ \E op \in {"read", "write"},
            r \in {"IDE_MOUNT_GEO", "IDE_RD_TX", "IDE_STEP"} :
              Ask(op, HardDisk, blk_lba', r)
      \/ /\ UNCHANGED portVars
         /\ bstate' \in {"IDLE", "IDE_MOUNT_GEO", "IDE_RD_FETCH", "IDE_RD_TX",
                         "IDE_WR_STORE", "IDE_STEP"}
  <2>1. CASE BridgeMountHd
    BY <2>1 DEF BridgeMountHd, MountHd, Ask
  <2>2. CASE BridgeIdeFetch
    BY <2>2 DEF BridgeIdeFetch, IdeFetch, Ask
  <2>3. CASE BridgeIdeStore
    BY <2>3 DEF BridgeIdeStore, IdeStore, Ask
  <2>4. CASE \/ BridgeMountHdDone \/ BridgeIdeReset \/ BridgeIdeDispatch
             \/ BridgeIdeData \/ BridgeIdeSend \/ BridgeIdeStored
    BY <2>4 DEF BridgeMountHdDone, BridgeIdeReset, BridgeIdeDispatch,
       BridgeIdeData, BridgeIdeSend, BridgeIdeStored, MountHdDone, IdeReset,
       IdeDispatch, IdeData, IdeSendSector, IdeStored
  <2> QED
    BY <2>1, <2>2, <2>3, <2>4
<1> QED
  BY <1>0, <1>1, <1>2, <1>3, AskHandshake, HandshakeMove DEF Inv, InBlock, portVars

LEMMA BridgeFddHandshake ==
  ASSUME Inv,
         \/ \E d \in Floppies : BridgeEject(d) \/ BridgeInsert(d)
         \/ BridgeRequest \/ BridgeSampleKind \/ BridgeDispatch \/ BridgeCheck
         \/ BridgeSendByte \/ BridgeTakeByte \/ BridgeStore \/ BridgeWaitOver
         \/ BridgeError
  PROVE  Handshake'
<1> USE DEF Inv
<1>1. CASE \E d \in Floppies : BridgeEject(d) \/ BridgeInsert(d)
  BY <1>1, HandshakeKept DEF BridgeEject, BridgeInsert, Eject, Insert,
     portVars, fdVars, serviceVars
<1>2. CASE BridgeRequest \/ BridgeSampleKind \/ BridgeWaitOver \/ BridgeError
  BY <1>2, HandshakeMove DEF BridgeRequest, BridgeSampleKind, BridgeWaitOver,
     BridgeError, FddRequest, FddSampleKind, FddWaitOver, FddError, portVars,
     fdVars, serviceVars
<1>3. CASE BridgeDispatch
  <2>1. ~InBlock
    BY <1>3 DEF BridgeDispatch, FddDispatch, InBlock
  <2> QED
    BY <1>3, <2>1, Quiet DEF BridgeDispatch, FddDispatch, Handshake, InBlock,
       serviceVars
<1>4. CASE BridgeCheck
  BY <1>4 DEF BridgeCheck, FddCheck, Handshake, InBlock, serviceVars, portVars,
     fdVars
<1>5. CASE BridgeSendByte
  BY <1>5 DEF BridgeSendByte, StreamStep, Handshake, InBlock, serviceVars,
     portVars, fdVars
<1>6. CASE BridgeTakeByte
  BY <1>6 DEF BridgeTakeByte, StreamStep, PutByte, Handshake, InBlock, portVars,
     fdVars
<1>7. CASE BridgeStore
  BY <1>7 DEF BridgeStore, FddStore, AfterStore, Handshake, InBlock, serviceVars
<1> QED
  BY <1>1, <1>2, <1>3, <1>4, <1>5, <1>6, <1>7

LEMMA BlockHandshake ==
  ASSUME Inv,
         \/ BridgeAckRises \/ BridgeAckFalls
         \/ Serve \/ \E d \in VDrives : Served(d)
  PROVE  Handshake'
<1> USE DEF Inv
<1>0. blk_drv \in VDrives /\ ack \in [VDrives -> BOOLEAN] /\ seq_ret \in Returns
  BY DEF TypeOK, BridgeTypeOK, ServiceTypeOK
<1>1. CASE BridgeAckRises
  BY <1>1 DEF BridgeAckRises, AckRises, Handshake, InBlock, serviceVars, fdVars
<1>2. CASE BridgeAckFalls
  BY <1>0, <1>2 DEF BridgeAckFalls, AckFalls, Handshake, InBlock, serviceVars,
     portVars, Returns
<1>3. CASE Serve
  <2>1. ack' = [ack EXCEPT ![blk_drv] = TRUE] /\ bstate = "BLK_ACK_HI"
    BY <1>3 DEF Serve, Handshake, ImageReadBegins, ImageWrite, InternalServe,
       SetAck
  <2>2. /\ BridgeRests
        /\ copying' \in {TRUE, copying}
    BY <1>3 DEF Serve, FirmwareAlone, ImageReadBegins, ImageWrite, InternalServe
  <2> QED
    BY <1>0, <2>1, <2>2 DEF Handshake, InBlock, BridgeRests, portVars, fdVars
<1>4. ASSUME NEW d \in VDrives, Served(d) PROVE Handshake'
  <2>1. /\ ack[d] /\ ack' = [ack EXCEPT ![d] = FALSE] /\ copying' = FALSE
        /\ BridgeRests
    BY <1>4 DEF Served, AckEnds, SetAck, FirmwareAlone
  <2> QED
    BY <1>0, <2>1 DEF Handshake, InBlock, BridgeRests, portVars, fdVars
<1> QED
  BY <1>1, <1>2, <1>3, <1>4

LEMMA MountHandshake ==
  ASSUME Inv,
         \/ \E m \in FloppyMounts : MountFloppy(m)
         \/ \E m \in HdMounts : MountHardDisk(m)
  PROVE  Handshake'
BY HandshakeKept DEF Inv, MountFloppy, MountHardDisk, Mount, FloppyStrobe,
   HdStrobe, portVars, fdVars

(* Only the mounts change what the drives hold.                            *)
LEMMA SlotsKept ==
  ASSUME Machine \/ \E cmd \in FdcCommands : StartCommand(cmd),
         ~\E m \in HdMounts : MountHardDisk(m)
  PROVE  UNCHANGED slot
<1>1. CASE \/ \E cmd \in FdcCommands : StartCommand(cmd)
           \/ Result \/ FdcWrote \/ FdcStep \/ Dma \/ SoftReset
  BY <1>1 DEF StartCommand, Result, FdcWrote, FdcStep, Dma, SoftReset, FdcAlone,
     serviceVars
<1>2. CASE IdeStart \/ IdeTransfer \/ IdeSrst \/ ResetButton
  BY <1>2 DEF IdeStart, IdeTransfer, IdeSrst, ResetButton, IdeAlone, serviceVars
<1>3. CASE \/ BridgeMountHd \/ BridgeMountHdDone
           \/ BridgeIdeReset \/ BridgeIdeDispatch \/ BridgeIdeData
           \/ BridgeIdeFetch \/ BridgeIdeSend \/ BridgeIdeStore \/ BridgeIdeStored
  BY <1>3 DEF BridgeMountHd, BridgeMountHdDone, BridgeIdeReset, BridgeIdeDispatch,
     BridgeIdeData, BridgeIdeFetch, BridgeIdeSend, BridgeIdeStore, BridgeIdeStored,
     serviceVars
<1>4. CASE \/ \E d \in Floppies : BridgeEject(d) \/ BridgeInsert(d)
           \/ BridgeRequest \/ BridgeSampleKind \/ BridgeDispatch \/ BridgeCheck
           \/ BridgeSendByte \/ BridgeTakeByte \/ BridgeStore \/ BridgeWaitOver
           \/ BridgeError \/ BridgeAckRises \/ BridgeAckFalls
  BY <1>4 DEF BridgeEject, BridgeInsert, BridgeRequest, BridgeSampleKind,
     BridgeDispatch, BridgeCheck, BridgeSendByte, BridgeTakeByte, BridgeStore,
     BridgeWaitOver, BridgeError, BridgeAckRises, BridgeAckFalls, PutByte,
     serviceVars
<1>5. CASE Serve \/ \E d \in VDrives : Served(d)
  BY <1>5 DEF Serve, Served, ImageReadBegins, ImageWrite, InternalServe, AckEnds
<1> QED
  BY <1>1, <1>2, <1>3, <1>4, <1>5 DEF Machine, BridgeNext

LEMMA InitAtHome == Init => AtHome
BY DEF Init, ServiceInit, AtHome

LEMMA HomeStep == ASSUME Inv, [Next]_vars PROVE AtHome'
<1>0. slot \in [VDrives -> Slots]
  BY DEF Inv, TypeOK, ServiceTypeOK
<1>1. CASE UNCHANGED slot
  BY <1>1 DEF Inv, AtHome
<1>2. ASSUME NEW m \in FloppyMounts, MountFloppy(m) PROVE AtHome'
  <2>1. /\ m.drv \in Floppies /\ m.img \in FloppyImages \cup {NoImage}
        /\ slot' = [slot EXCEPT ![m.drv] = m.img]
    BY <1>2, ScenarioAssumption DEF MountFloppy, Mount
  <2>2. m.img # NoImage => m.drv \in Homes(m.img)
    BY <2>1, ImagesAssumption DEF Homes
  <2> QED
    BY <1>0, <2>1, <2>2 DEF Inv, AtHome
<1>3. ASSUME NEW m \in HdMounts, MountHardDisk(m) PROVE AtHome'
  <2>1. /\ m.img \in HdImages \cup {NoImage}
        /\ slot' = [slot EXCEPT ![HardDisk] = m.img]
    BY <1>3, ScenarioAssumption DEF MountHardDisk, Mount
  <2>2. m.img # NoImage => HardDisk \in Homes(m.img)
    BY <2>1 DEF Homes
  <2> QED
    BY <1>0, <2>1, <2>2 DEF Inv, AtHome
<1>4. CASE UNCHANGED vars
  BY <1>1, <1>4 DEF vars, serviceVars
<1> QED
  BY <1>1, <1>2, <1>3, <1>4, SlotsKept DEF Next

(* Types, handshake and homes are inductive.                               *)
LEMMA Inductive == Inv /\ [Next]_vars => Inv'
<1> SUFFICES ASSUME Inv, [Next]_vars PROVE Inv'
  OBVIOUS
<1>1. TypeOK'
  BY StepType DEF Inv
<1>2. AtHome'
  BY HomeStep
<1>3. CASE UNCHANGED vars
  <2>1. UNCHANGED <<bstate, seq_ret, blk_op, blk_drv, fd_drv, fd_blk_wr,
                    ack, copying>>
    BY <1>3 DEF vars, bridgeVars, serviceVars, portVars, fdVars
  <2> QED
    BY <1>1, <1>2, <2>1, HandshakeKept DEF Inv
<1>4. CASE Next
  <2>1. Handshake'
    BY <1>4, UsersHandshake, BridgeIdeHandshake, BridgeFddHandshake,
       BlockHandshake, MountHandshake DEF Next, Machine, BridgeNext
  <2> QED
    BY <1>1, <1>2, <2>1 DEF Inv
<1> QED
  BY <1>3, <1>4

(* The inductive invariant holds in every reachable state.                 *)
THEOREM Invariant == Spec => []Inv
<1>1. Init => Inv
  BY InitType, InitHandshake, InitAtHome DEF Inv
<1> QED
  BY <1>1, Inductive, PTL DEF Spec

(* The registers of the two controllers, of the bridge and of the firmware *)
(* stay in their ranges: in particular the FIFO holds only bytes, the      *)
(* bridge returns only to states it has, and the sectors named to the      *)
(* block port are numbers of sectors.                                      *)
THEOREM TypeCorrect == Spec => []TypeOK
<1>1. Inv => TypeOK
  BY DEF Inv
<1> QED
  BY <1>1, Invariant, PTL

(* One block at a time, acknowledged only on the line of the drive that    *)
(* asked, and the mark that turns an error into a dead drive only on a     *)
(* floppy write in flight (mgmt_bridge.sv, the block port and fd_blk_wr).  *)
THEOREM HandshakeCorrect == Spec => []Handshake
<1>1. Inv => Handshake
  BY DEF Inv
<1> QED
  BY <1>1, Invariant, PTL
-----------------------------------------------------------------------------
(* The block port implements BlockPort.                                    *)
LEMMA PortQuiet ==
  ASSUME Inv, ~InBlock
  PROVE  /\ PortPhase = "idle" /\ PortAcks = {}
         /\ PortRequest = [op |-> "none", drv |-> 0, lba |-> 0]
<1>1. PortPhase = "idle"
  BY DEF PortPhase, InBlock
<1> QED
  BY <1>1, Quiet DEF PortAcks, PortRequest

LEMMA PortBusy ==
  ASSUME InBlock
  PROVE  /\ bstate = "BLK_ACK_HI" /\ ack[blk_drv] => PortPhase = "acknowledged"
         /\ bstate = "BLK_ACK_HI" /\ ~ack[blk_drv] => PortPhase = "asked"
         /\ bstate = "BLK_ACK_LO" /\ ack[blk_drv] => PortPhase = "withdrawn"
         /\ bstate = "BLK_ACK_LO" /\ ~ack[blk_drv] => PortPhase = "released"
         /\ PortRequest = [op |-> blk_op, drv |-> blk_drv, lba |-> blk_lba]
<1>1. PortPhase # "idle"
  BY DEF PortPhase, InBlock
<1>2. PortRequest = [op |-> blk_op, drv |-> blk_drv, lba |-> blk_lba]
  BY <1>1 DEF PortRequest
<1> QED
  BY <1>2 DEF PortPhase, InBlock

(* Only the drive that asked is acknowledged.                              *)
LEMMA PortLine ==
  ASSUME Inv
  PROVE  PortAcks = IF ack[blk_drv] THEN {blk_drv} ELSE {}
<1>1. blk_drv \in VDrives
  BY DEF Inv, TypeOK, BridgeTypeOK
<1> QED
  BY <1>1 DEF Inv, Handshake, PortAcks

LEMMA PortKept ==
  ASSUME UNCHANGED <<bstate, blk_op, blk_drv, blk_lba, ack>>
  PROVE  UNCHANGED Port!vars
BY DEF Port!vars, PortPhase, PortRequest, PortAcks

LEMMA PortInit == Init => Port!Init
<1> SUFFICES ASSUME Init PROVE Port!Init
  OBVIOUS
<1>1. Inv /\ ~InBlock
  BY InitType, InitHandshake, InitAtHome DEF Inv, Init, BridgeInit, InBlock
<1> QED
  BY <1>1, PortQuiet DEF Port!Init, Port!NoRequest

(* A step of the machine outside a block either asks or is not seen.       *)
LEMMA PortAskOrStutter ==
  ASSUME Inv, Inv', ~InBlock, bstate' # "BLK_ACK_LO", UNCHANGED ack
  PROVE  Port!Ask \/ UNCHANGED Port!vars
<1>1. CASE bstate' = "BLK_ACK_HI"
  <2>1. /\ blk_op' \in {"read", "write"} /\ blk_drv' \in VDrives
        /\ blk_lba' \in Nat
    BY <1>1 DEF Inv, TypeOK, BridgeTypeOK, Handshake
  <2>2. ~ack[blk_drv']
    BY <2>1, Quiet
  <2>3. /\ PortPhase' = "asked"
        /\ PortRequest' = [op |-> blk_op', drv |-> blk_drv', lba |-> blk_lba']
    BY <1>1, <2>2 DEF PortPhase, PortRequest
  <2>4. PortPhase = "idle" /\ UNCHANGED PortAcks
    BY PortQuiet DEF PortAcks
  <2> QED
    BY <2>1, <2>3, <2>4 DEF Port!Ask, Port!Requests
<1>2. CASE bstate' # "BLK_ACK_HI"
  <2>1. PortPhase' = "idle" /\ PortAcks' = {}
    BY <1>2, PortQuiet DEF PortPhase, PortAcks, InBlock
  <2> QED
    BY <2>1, PortQuiet DEF Port!vars, PortRequest
<1> QED
  BY <1>1, <1>2

LEMMA PortServe == ASSUME Inv, Serve PROVE Port!Acknowledge
<1>1. blk_drv \in VDrives /\ ack \in [VDrives -> BOOLEAN]
  BY DEF Inv, TypeOK, BridgeTypeOK, ServiceTypeOK
<1>2. bstate = "BLK_ACK_HI" /\ \A d \in VDrives : ~ack[d]
  BY DEF Serve, Inv, Handshake, ImageReadBegins, ImageWrite, InternalServe,
     FirmwareIdle
<1>3. ack' = [ack EXCEPT ![blk_drv] = TRUE]
  BY DEF Serve, ImageReadBegins, ImageWrite, InternalServe, SetAck
<1>4. UNCHANGED <<bstate, blk_op, blk_drv, blk_lba>>
  BY DEF Serve, FirmwareAlone, BridgeRests, portVars
<1>5. PortPhase = "asked" /\ PortPhase' = "acknowledged" /\ UNCHANGED PortRequest
  BY <1>1, <1>2, <1>3, <1>4 DEF PortPhase, PortRequest
<1>6. PortAcks' = {blk_drv} /\ PortRequest.drv = blk_drv
  BY <1>1, <1>2, <1>3, <1>5 DEF PortAcks, PortRequest
<1> QED
  BY <1>5, <1>6 DEF Port!Acknowledge

LEMMA PortWithdraw == ASSUME Inv, BridgeAckRises PROVE Port!Withdraw
<1>1. /\ bstate = "BLK_ACK_HI" /\ ack[blk_drv] /\ bstate' = "BLK_ACK_LO"
      /\ blk_op' = "none" /\ UNCHANGED <<blk_drv, blk_lba, ack>>
  BY DEF BridgeAckRises, AckRises, serviceVars
<1>2. /\ PortPhase = "acknowledged" /\ PortPhase' = "withdrawn"
      /\ UNCHANGED PortAcks
  BY <1>1 DEF PortPhase, PortAcks
<1>3. PortRequest' = [PortRequest EXCEPT !.op = "none"]
  BY <1>1, <1>2 DEF PortRequest
<1> QED
  BY <1>2, <1>3 DEF Port!Withdraw

LEMMA PortRelease ==
  ASSUME Inv, NEW d \in VDrives, Served(d) PROVE Port!Release
<1>1. blk_drv \in VDrives /\ ack \in [VDrives -> BOOLEAN]
  BY DEF Inv, TypeOK, BridgeTypeOK, ServiceTypeOK
<1>2. /\ ack[d] /\ ack' = [ack EXCEPT ![d] = FALSE] /\ bstate # "BLK_ACK_HI"
      /\ UNCHANGED <<bstate, blk_op, blk_drv, blk_lba>>
  BY DEF Served, AckRiseSeen, AckEnds, SetAck, FirmwareAlone, BridgeRests,
     portVars
<1>3. d = blk_drv /\ bstate = "BLK_ACK_LO"
  BY <1>2 DEF Inv, Handshake, InBlock
<1>4. /\ PortPhase = "withdrawn" /\ PortPhase' = "released"
      /\ UNCHANGED PortRequest
  BY <1>1, <1>2, <1>3 DEF PortPhase, PortRequest
<1>5. PortAcks' = {}
  BY <1>1, <1>2, <1>3 DEF Inv, Handshake, PortAcks
<1> QED
  BY <1>4, <1>5 DEF Port!Release

LEMMA PortFinish == ASSUME Inv, BridgeAckFalls PROVE Port!Finish
<1>1. /\ bstate = "BLK_ACK_LO" /\ ~ack[blk_drv] /\ UNCHANGED ack
      /\ bstate' \in {seq_ret, "FDD_ERR", "FDD_RD_CHK"}
  BY DEF BridgeAckFalls, AckFalls, serviceVars
<1>2. seq_ret \in Returns
  BY DEF Inv, TypeOK, BridgeTypeOK
<1>3. PortPhase = "released" /\ PortPhase' = "idle" /\ UNCHANGED PortAcks
  BY <1>1, <1>2 DEF PortPhase, PortAcks, Returns
<1>4. PortRequest' = Port!NoRequest
  BY <1>3 DEF PortRequest, Port!NoRequest
<1> QED
  BY <1>3, <1>4 DEF Port!Finish
LEMMA PortIde ==
  ASSUME Inv, Inv',
         \/ BridgeMountHd \/ BridgeMountHdDone
         \/ BridgeIdeReset \/ BridgeIdeDispatch \/ BridgeIdeData
         \/ BridgeIdeFetch \/ BridgeIdeSend \/ BridgeIdeStore \/ BridgeIdeStored
  PROVE  Port!Ask \/ UNCHANGED Port!vars
<1>1. UNCHANGED ack
  BY DEF BridgeMountHd, BridgeMountHdDone, BridgeIdeReset, BridgeIdeDispatch,
     BridgeIdeData, BridgeIdeFetch, BridgeIdeSend, BridgeIdeStore,
     BridgeIdeStored, serviceVars
<1>2. ~InBlock /\ bstate' # "BLK_ACK_LO"
  BY DEF InBlock, BridgeMountHd, BridgeMountHdDone, BridgeIdeReset,
     BridgeIdeDispatch, BridgeIdeData, BridgeIdeFetch, BridgeIdeSend,
     BridgeIdeStore, BridgeIdeStored, MountHd, MountHdDone, IdeReset,
     IdeDispatch, IdeData, IdeFetch, IdeSendSector, IdeStore, IdeStored, Ask
<1> QED
  BY <1>1, <1>2, PortAskOrStutter

LEMMA PortFdd ==
  ASSUME Inv, Inv',
         \/ \E d \in Floppies : BridgeEject(d) \/ BridgeInsert(d)
         \/ BridgeRequest \/ BridgeSampleKind \/ BridgeDispatch \/ BridgeCheck
         \/ BridgeSendByte \/ BridgeTakeByte \/ BridgeStore \/ BridgeWaitOver
         \/ BridgeError
  PROVE  Port!Ask \/ UNCHANGED Port!vars
<1>1. UNCHANGED ack
  BY DEF BridgeEject, BridgeInsert, BridgeRequest, BridgeSampleKind,
     BridgeDispatch, BridgeCheck, BridgeSendByte, BridgeTakeByte, BridgeStore,
     BridgeWaitOver, BridgeError, PutByte, serviceVars
<1>2. CASE \E d \in Floppies : BridgeEject(d) \/ BridgeInsert(d)
  <2>1. ~InBlock /\ bstate' # "BLK_ACK_LO"
    BY <1>2 DEF InBlock, BridgeEject, BridgeInsert, Eject, Insert
  <2> QED
    BY <1>1, <2>1, PortAskOrStutter
<1>3. CASE BridgeSendByte \/ BridgeTakeByte
  <2>1. ~InBlock /\ bstate' # "BLK_ACK_LO"
    BY <1>3 DEF BridgeSendByte, BridgeTakeByte, StreamStep, InBlock, Inv, Handshake
  <2> QED
    BY <1>1, <2>1, PortAskOrStutter
<1>4. CASE \/ BridgeRequest \/ BridgeSampleKind \/ BridgeDispatch \/ BridgeCheck
           \/ BridgeStore \/ BridgeWaitOver \/ BridgeError
  <2>1. ~InBlock /\ bstate' # "BLK_ACK_LO"
    BY <1>4 DEF InBlock, BridgeRequest, BridgeSampleKind, BridgeDispatch,
       BridgeCheck, BridgeStore, BridgeWaitOver, BridgeError, FddRequest,
       FddSampleKind, FddDispatch, FddCheck, FddStore, FddWaitOver, FddError
  <2> QED
    BY <1>1, <2>1, PortAskOrStutter
<1> QED
  BY <1>2, <1>3, <1>4

(* The users and the mounts do not touch the port.                         *)
LEMMA PortUsers ==
  ASSUME \/ UNCHANGED vars
         \/ \E cmd \in FdcCommands : StartCommand(cmd)
         \/ Result \/ FdcWrote \/ FdcStep \/ Dma \/ SoftReset
         \/ IdeStart \/ IdeTransfer \/ IdeSrst \/ ResetButton
         \/ \E m \in FloppyMounts : MountFloppy(m)
         \/ \E m \in HdMounts : MountHardDisk(m)
  PROVE  UNCHANGED Port!vars
<1>1. CASE UNCHANGED vars
  BY <1>1, PortKept DEF vars, bridgeVars, serviceVars, portVars
<1>2. CASE \/ \E cmd \in FdcCommands : StartCommand(cmd)
           \/ Result \/ FdcWrote \/ FdcStep \/ Dma \/ SoftReset
           \/ IdeStart \/ IdeTransfer \/ IdeSrst \/ ResetButton
  <2>1. BridgeRests /\ UNCHANGED serviceVars
    BY <1>2 DEF StartCommand, Result, FdcWrote, FdcStep, Dma, SoftReset,
       IdeStart, IdeTransfer, IdeSrst, ResetButton, FdcAlone, IdeAlone
  <2> QED
    BY <2>1, PortKept DEF BridgeRests, serviceVars, portVars
<1>3. CASE \/ \E m \in FloppyMounts : MountFloppy(m)
           \/ \E m \in HdMounts : MountHardDisk(m)
  BY <1>3, PortKept DEF MountFloppy, MountHardDisk, Mount, FloppyStrobe,
     HdStrobe, portVars
<1> QED
  BY <1>1, <1>2, <1>3

LEMMA PortStep == Inv /\ Inv' /\ [Next]_vars => [Port!Next]_(Port!vars)
<1> SUFFICES ASSUME Inv, Inv', [Next]_vars PROVE [Port!Next]_(Port!vars)
  OBVIOUS
<1> QED
  BY PortUsers, PortIde, PortFdd, PortServe, PortWithdraw, PortRelease, PortFinish
  DEF Next, Machine, BridgeNext, Port!Next

(* Bridge and firmware keep the block port's contract: a four-phase        *)
(* handshake whose request does not change while it is open, whatever the  *)
(* PC, the reset button and the mounts do meanwhile.                       *)
THEOREM PortCorrect == Spec => PortSpec
BY PortInit, PortStep, Inductive, Invariant, PTL DEF Spec, PortSpec, Port!Spec

-----------------------------------------------------------------------------
(* Parking.  A request is parked when the machine comes back to the idle   *)
(* state, and the idle state starts no floppy service while one is: so no  *)
(* service is under way, and only a service feeds the controller.          *)
FddService ==
  \/ bstate \in {"FDD_REQ", "FDD_DISPATCH", "FDD_RD_CHK", "TX", "RX",
                 "FDD_WR_STORE", "FDD_WAIT"}
  \/ InBlock /\ seq_ret = "FDD_RD_TX"
Parked == fd_hold \/ fd_dead
ParkInv == Parked => ~FddService

LEMMA ParkInit == Init => ParkInv
BY DEF Init, BridgeInit, ParkInv, Parked

(* Only a failed block of a read raises the hold.                          *)
LEMMA HoldOnlyFalls ==
  ASSUME Inv, [Next]_vars, ~BridgeError PROVE fd_hold' => fd_hold
<1>1. CASE UNCHANGED vars
  BY <1>1 DEF vars, bridgeVars
<1>2. CASE Next
  <2>1. \/ FdcAlone \/ IdeAlone \/ WithIde \/ KeepFdc \/ ChangeFdc \/ FirmwareAlone
        \/ HoldNext(fd_hold, FALSE) \/ HoldNext(fd_hold, Requesting)
    BY <1>2 DEF Next, Machine, BridgeNext, StartCommand, Result, FdcWrote, FdcStep, Dma,
       SoftReset, IdeStart, IdeTransfer, IdeSrst, ResetButton, BridgeMountHd,
       BridgeMountHdDone, BridgeIdeReset, BridgeIdeDispatch, BridgeIdeData,
       BridgeIdeFetch, BridgeIdeSend, BridgeIdeStore, BridgeIdeStored,
       BridgeEject, BridgeInsert, BridgeRequest, BridgeSampleKind,
       BridgeDispatch, BridgeCheck, BridgeSendByte, BridgeTakeByte, BridgeStore,
       BridgeWaitOver, BridgeAckRises, BridgeAckFalls, Serve, Served,
       MountFloppy, MountHardDisk
  <2> QED
    BY <2>1 DEF FdcAlone, IdeAlone, WithIde, KeepFdc, ChangeFdc, FirmwareAlone,
       HoldNext
<1> QED
  BY <1>1, <1>2
LEMMA ParkStep ==
  ASSUME Inv, ParkInv, [Next]_vars PROVE ParkInv'
<1> USE DEF Inv
<1>1. CASE BridgeError
  BY <1>1 DEF BridgeError, FddError, ParkInv, FddService, InBlock
<1>2. CASE \/ BridgeMountHd \/ BridgeMountHdDone
           \/ BridgeIdeReset \/ BridgeIdeDispatch \/ BridgeIdeData
           \/ BridgeIdeFetch \/ BridgeIdeSend \/ BridgeIdeStore \/ BridgeIdeStored
  <2>1. \/ bstate' \in {"IDLE", "IDE_MOUNT_GEO", "IDE_RD_FETCH", "IDE_RD_TX",
                        "IDE_WR_STORE", "IDE_STEP"}
        \/ /\ bstate' = "BLK_ACK_HI"
           /\ seq_ret' \in {"IDE_MOUNT_GEO", "IDE_RD_TX", "IDE_STEP"}
    BY <1>2 DEF BridgeMountHd, BridgeMountHdDone, BridgeIdeReset,
       BridgeIdeDispatch, BridgeIdeData, BridgeIdeFetch, BridgeIdeSend,
       BridgeIdeStore, BridgeIdeStored, MountHd, MountHdDone, IdeReset,
       IdeDispatch, IdeData, IdeFetch, IdeSendSector, IdeStore, IdeStored, Ask
  <2> QED
    BY <2>1 DEF ParkInv, FddService, InBlock
<1>3. ASSUME ~Parked, UNCHANGED fd_dead, ~BridgeError PROVE ParkInv'
  BY <1>3, HoldOnlyFalls DEF ParkInv, Parked
<1>4. ASSUME UNCHANGED <<bstate, seq_ret, fd_dead>>, ~BridgeError PROVE ParkInv'
  BY <1>4, HoldOnlyFalls DEF ParkInv, Parked, FddService, InBlock
<1>5. CASE BridgeAckFalls
  <2>1. CASE seq_ret = "FDD_RD_TX"
    <3>1. FddService
      BY <1>5, <2>1 DEF BridgeAckFalls, AckFalls, FddService, InBlock
    <3>2. UNCHANGED fd_dead /\ ~BridgeError
      BY <1>5, <2>1 DEF BridgeAckFalls, AckFalls, WriteFailed, Handshake,
         BridgeError, FddError, TypeOK, BridgeTypeOK
    <3> QED
      BY <1>3, <3>1, <3>2 DEF ParkInv
  <2>2. CASE seq_ret # "FDD_RD_TX"
    <3>1. bstate' = seq_ret /\ bstate = "BLK_ACK_LO" /\ seq_ret \in Returns
      BY <1>5, <2>2 DEF BridgeAckFalls, AckFalls, TypeOK, BridgeTypeOK
    <3>2. seq_ret \in {"IDLE", "IDE_MOUNT_GEO", "IDE_RD_TX", "IDE_STEP"}
      BY <2>2, <3>1 DEF Handshake, InBlock, Returns
    <3> QED
      BY <3>1, <3>2 DEF ParkInv, FddService, InBlock
  <2> QED
    BY <2>1, <2>2
<1>6. CASE BridgeAckRises
  <2>1. UNCHANGED <<seq_ret, fd_dead>> /\ ~BridgeError
    BY <1>6 DEF BridgeAckRises, AckRises, BridgeError, FddError, fdVars
  <2>2. FddService' <=> FddService
    BY <1>6, <2>1 DEF BridgeAckRises, AckRises, FddService, InBlock
  <2> QED
    BY <2>1, <2>2, HoldOnlyFalls DEF ParkInv, Parked
<1>7. CASE BridgeRequest
  <2>1. ~Parked /\ UNCHANGED fd_dead /\ ~BridgeError
    BY <1>7 DEF BridgeRequest, FddRequest, NotParked, Parked, BridgeError,
       FddError, fdVars
  <2> QED
    BY <1>3, <2>1
<1>8. CASE \/ BridgeSampleKind \/ BridgeDispatch \/ BridgeCheck \/ BridgeSendByte
           \/ BridgeTakeByte \/ BridgeStore \/ BridgeWaitOver
  <2>1. FddService /\ UNCHANGED fd_dead /\ bstate # "FDD_ERR"
    BY <1>8 DEF BridgeSampleKind, BridgeDispatch, BridgeCheck, BridgeSendByte,
       BridgeTakeByte, BridgeStore, BridgeWaitOver, FddSampleKind, FddDispatch,
       FddCheck, StreamStep, FddStore, FddWaitOver, FddService, fdVars
  <2>2. ~BridgeError
    BY <2>1 DEF BridgeError, FddError
  <2> QED
    BY <1>3, <2>1, <2>2 DEF ParkInv
<1>9. CASE \/ UNCHANGED vars
           \/ \E cmd \in FdcCommands : StartCommand(cmd)
           \/ Result \/ FdcWrote \/ FdcStep \/ Dma \/ SoftReset
           \/ IdeStart \/ IdeTransfer \/ IdeSrst \/ ResetButton
           \/ \E d \in Floppies : BridgeEject(d) \/ BridgeInsert(d)
           \/ Serve \/ \E d \in VDrives : Served(d)
           \/ \E m \in FloppyMounts : MountFloppy(m)
           \/ \E m \in HdMounts : MountHardDisk(m)
  <2>1. UNCHANGED <<bstate, seq_ret, fd_dead>>
    <3>1. CASE UNCHANGED vars
      BY <3>1 DEF vars, bridgeVars, fdVars
    <3>2. CASE \/ \E d \in Floppies : BridgeEject(d) \/ BridgeInsert(d)
               \/ \E m \in FloppyMounts : MountFloppy(m)
               \/ \E m \in HdMounts : MountHardDisk(m)
      BY <3>2 DEF BridgeEject, BridgeInsert, Eject, Insert, MountFloppy,
         MountHardDisk, FloppyStrobe, HdStrobe, fdVars
    <3>3. CASE BridgeRests
      BY <3>3 DEF BridgeRests, fdVars
    <3> QED
      BY <1>9, <3>1, <3>2, <3>3 DEF StartCommand, Result, FdcWrote, FdcStep,
         Dma, SoftReset, IdeStart, IdeTransfer, IdeSrst, ResetButton, FdcAlone,
         IdeAlone, Serve, Served, FirmwareAlone
  <2>2. ~BridgeError
    <3>1. ASSUME BridgeError PROVE bstate = "FDD_ERR" /\ bstate' = "IDLE"
      BY <3>1 DEF BridgeError, FddError
    <3> QED
      BY <2>1, <3>1
  <2> QED
    BY <1>4, <2>1, <2>2
<1> QED
  BY <1>1, <1>2, <1>5, <1>6, <1>7, <1>8, <1>9 DEF Next, Machine, BridgeNext

LEMMA ParkInvariant == Spec => []ParkInv
BY ParkInit, ParkStep, Invariant, PTL DEF Spec
(* A request outlives every step but a reset and a byte from or to the     *)
(* bridge.                                                                 *)
LEMMA RequestKept ==
  ASSUME Requesting, UNCHANGED <<fdc_state, pending>> PROVE Requesting'
BY DEF Requesting, ReadRequest, WriteRequest, Waiting

LEMMA WaitingController ==
  ASSUME Requesting
  PROVE  fdc_state \in {"SD_READ", "SD_WRITE", "FORMAT_FILL"}
BY DEF Requesting, ReadRequest, WriteRequest, Waiting

LEMMA ParkedStep ==
  ASSUME Inv, ParkInv, [Next]_vars, Parked, Requesting
  PROVE  Requesting' \/ pending' = "none"
<1> USE WaitingController
<1>1. CASE UNCHANGED <<fdc_state, pending>>
  BY <1>1, RequestKept
<1>2. CASE BridgeSendByte \/ BridgeTakeByte
  BY <1>2 DEF BridgeSendByte, BridgeTakeByte, StreamStep, ParkInv, FddService
<1>3. CASE SoftReset \/ ResetButton
  BY <1>3 DEF SoftReset, SwReset, ResetButton, HardReset
<1>4. CASE \E cmd \in FdcCommands : StartCommand(cmd)
  BY <1>4 DEF StartCommand, StartHangs, StartRejected, StartAccepted, CanStart
<1>5. CASE FdcWrote \/ FdcStep
  BY <1>5 DEF FdcWrote, FdcStep, UpdateSector, PrepareCount, CountLogical,
     Prepare, SdControl, PadWriteByte, FillFifo, CheckTc, FormatInputEnds, WaitOver
<1>6. CASE Dma
  BY <1>6 DEF Dma, DmaReadByte, DmaWriteByte, FillFifo, FormatShortId, FormatId
<1>7. CASE UNCHANGED vars
  BY <1>1, <1>7 DEF vars, fdcVars
<1>8. CASE \E d \in Floppies : BridgeEject(d) \/ BridgeInsert(d)
  BY <1>1, <1>8 DEF BridgeEject, BridgeInsert, MgmtMedia
<1>9. ASSUME UNCHANGED fdcVars PROVE Requesting'
  BY <1>1, <1>9, RequestKept DEF fdcVars
<1>10. CASE Result
  BY <1>10, RequestKept DEF Result, ReadResult
<1>11. CASE IdeStart \/ IdeTransfer \/ IdeSrst
  BY <1>9, <1>11 DEF IdeStart, IdeTransfer, IdeSrst, IdeAlone
<1>12. CASE \/ BridgeMountHd \/ BridgeMountHdDone
            \/ BridgeIdeReset \/ BridgeIdeDispatch \/ BridgeIdeData
            \/ BridgeIdeFetch \/ BridgeIdeSend \/ BridgeIdeStore \/ BridgeIdeStored
  BY <1>9, <1>12 DEF BridgeMountHd, BridgeMountHdDone, BridgeIdeReset,
     BridgeIdeDispatch, BridgeIdeData, BridgeIdeFetch, BridgeIdeSend,
     BridgeIdeStore, BridgeIdeStored, WithIde
<1>13. CASE \/ BridgeRequest \/ BridgeSampleKind \/ BridgeDispatch \/ BridgeCheck
            \/ BridgeStore \/ BridgeWaitOver \/ BridgeError
            \/ BridgeAckRises \/ BridgeAckFalls
  BY <1>9, <1>13 DEF BridgeRequest, BridgeSampleKind, BridgeDispatch,
     BridgeCheck, BridgeStore, BridgeWaitOver, BridgeError, BridgeAckRises,
     BridgeAckFalls, KeepFdc
<1>14. CASE \/ Serve \/ \E d \in VDrives : Served(d)
            \/ \E m \in FloppyMounts : MountFloppy(m)
            \/ \E m \in HdMounts : MountHardDisk(m)
  BY <1>9, <1>14 DEF Serve, Served, FirmwareAlone, MountFloppy, MountHardDisk
<1> QED
  BY <1>2, <1>3, <1>4, <1>5, <1>6, <1>7, <1>8, <1>10, <1>11, <1>12, <1>13,
     <1>14 DEF Next, Machine, BridgeNext

(* A floppy request that a failed block has parked is never fed: whatever  *)
(* the hard disk, the mounts and the firmware do, only a reset ends it, so *)
(* neither made-up data nor a false success reaches DOS (fd_hold, fd_dead  *)
(* in mgmt_bridge.sv).                                                     *)
THEOREM ParkedCorrect == Spec => ParkedStaysParked
<1>1. Inv /\ ParkInv /\ [Next]_vars =>
        [(fd_hold \/ fd_dead) /\ Requesting
            => Requesting' \/ pending' = "none"]_vars
  BY ParkedStep DEF Parked
<1> QED
  BY <1>1, Invariant, ParkInvariant, PTL DEF Spec, ParkedStaysParked

-----------------------------------------------------------------------------
(* Media.  What the bridge latched at the last strobe is what the          *)
(* framework has, and what the last insert handed on is what it latched.   *)
MediaLatched ==
  \A d \in Floppies :
    /\ fd_image[d] = Mounted(d)
    /\ Mounted(d) /\ Internal(d) => fd_ro_lat[d] = flp_ro
    /\ ~fd_pend[d] /\ ~fd_wait[d] =>
         /\ fd_mounted[d] = fd_image[d] /\ media_present[d] = fd_image[d]
         /\ fd_image[d] => fd_ro[d] = fd_ro_lat[d] /\ media_wp[d] = fd_ro_lat[d]

LEMMA MediaInit == Init => MediaLatched
BY DEF Init, FdcInit, BridgeInit, ServiceInit, MediaLatched, Mounted, Floppies,
       VDrives, HardDisk

LEMMA MediaImplies == Inv /\ MediaLatched => MediaAgrees
BY DEF MediaLatched, MediaAgrees

LEMMA MediaKept ==
  ASSUME MediaLatched, UNCHANGED <<slot, flp_ro, mediaVars, fdMountVars>>
  PROVE  MediaLatched'
BY DEF MediaLatched, Mounted, mediaVars, fdMountVars

LEMMA MediaMount ==
  ASSUME Inv, MediaLatched, NEW m \in FloppyMounts, MountFloppy(m)
  PROVE  MediaLatched'
<1>1. m.drv \in Floppies /\ m.drv \in VDrives
  BY ScenarioAssumption DEF VDrives
<1>2. /\ slot' = [slot EXCEPT ![m.drv] = m.img]
      /\ flp_ro' = IF Internal(m.drv) THEN m.ro ELSE flp_ro
      /\ fd_pend' = [fd_pend EXCEPT ![m.drv] = TRUE]
      /\ fd_image' = [fd_image EXCEPT ![m.drv] = m.img # NoImage]
      /\ fd_ro_lat' = [fd_ro_lat EXCEPT ![m.drv] = m.ro]
      /\ UNCHANGED <<fd_wait, fd_mounted, fd_ro, media_present, media_wp>>
  BY DEF MountFloppy, Mount, FloppyStrobe, fdcVars, mediaVars
<1>3. /\ fd_pend \in [Floppies -> BOOLEAN] /\ fd_image \in [Floppies -> BOOLEAN]
      /\ fd_ro_lat \in [Floppies -> BOOLEAN] /\ slot \in [VDrives -> Slots]
      /\ Floppies \subseteq VDrives
  BY DEF Inv, TypeOK, BridgeTypeOK, ServiceTypeOK, VDrives
<1>4. ASSUME NEW d \in Floppies, d # m.drv
      PROVE  /\ UNCHANGED <<slot[d], fd_pend[d], fd_image[d], fd_ro_lat[d]>>
             /\ Internal(d) => UNCHANGED flp_ro
  BY <1>1, <1>2, <1>3, <1>4 DEF Internal
<1>5. /\ slot'[m.drv] = m.img /\ fd_pend'[m.drv] = TRUE
      /\ fd_image'[m.drv] = (m.img # NoImage) /\ fd_ro_lat'[m.drv] = m.ro
  BY <1>1, <1>2, <1>3
<1>6. ASSUME NEW d \in Floppies, d # m.drv
      PROVE  MediaLatched!(d)'
  BY <1>2, <1>4, <1>6 DEF MediaLatched, Mounted
<1>7. MediaLatched!(m.drv)'
  BY <1>2, <1>5 DEF MediaLatched, Mounted
<1> QED
  BY <1>6, <1>7 DEF MediaLatched
LEMMA MediaEject ==
  ASSUME Inv, MediaLatched, NEW e \in Floppies, BridgeEject(e)
  PROVE  MediaLatched'
<1>1. /\ fd_pend' = [fd_pend EXCEPT ![e] = FALSE]
      /\ fd_wait' = [fd_wait EXCEPT ![e] = TRUE]
      /\ media_present' = [media_present EXCEPT ![e] = FALSE]
      /\ media_wp' = [media_wp EXCEPT ![e] = media_wp[e]]
      /\ UNCHANGED <<slot, flp_ro, fd_image, fd_ro_lat, fd_mounted, fd_ro>>
  BY DEF BridgeEject, Eject, MgmtMedia, serviceVars
<1>2. /\ fd_pend \in [Floppies -> BOOLEAN] /\ fd_wait \in [Floppies -> BOOLEAN]
      /\ media_present \in [Floppies -> BOOLEAN]
      /\ media_wp \in [Floppies -> BOOLEAN]
  BY DEF Inv, TypeOK, FdcTypeOK, BridgeTypeOK
<1>3. ASSUME NEW d \in Floppies, d # e PROVE MediaLatched!(d)'
  BY <1>1, <1>2, <1>3 DEF MediaLatched, Mounted
<1>4. MediaLatched!(e)'
  BY <1>1, <1>2 DEF MediaLatched, Mounted
<1> QED
  BY <1>3, <1>4 DEF MediaLatched

LEMMA MediaInsert ==
  ASSUME Inv, MediaLatched, NEW e \in Floppies, BridgeInsert(e)
  PROVE  MediaLatched'
<1>1. /\ fd_wait' = [fd_wait EXCEPT ![e] = FALSE]
      /\ fd_mounted' = [fd_mounted EXCEPT ![e] = fd_image[e]]
      /\ fd_ro' = [fd_ro EXCEPT ![e] = fd_ro_lat[e]]
      /\ media_present' = [media_present EXCEPT ![e] = fd_image[e]]
      /\ media_wp' = [media_wp EXCEPT ![e] = ~fd_image[e] \/ fd_ro_lat[e]]
      /\ UNCHANGED <<slot, flp_ro, fd_pend, fd_image, fd_ro_lat>>
  BY DEF BridgeInsert, Insert, MgmtMedia, serviceVars
<1>2. /\ fd_wait \in [Floppies -> BOOLEAN] /\ fd_mounted \in [Floppies -> BOOLEAN]
      /\ fd_ro \in [Floppies -> BOOLEAN] /\ fd_ro_lat \in [Floppies -> BOOLEAN]
      /\ media_present \in [Floppies -> BOOLEAN]
      /\ media_wp \in [Floppies -> BOOLEAN]
  BY DEF Inv, TypeOK, FdcTypeOK, BridgeTypeOK
<1>3. ASSUME NEW d \in Floppies, d # e PROVE MediaLatched!(d)'
  BY <1>1, <1>2, <1>3 DEF MediaLatched, Mounted
<1>4. MediaLatched!(e)'
  BY <1>1, <1>2 DEF MediaLatched, Mounted
<1> QED
  BY <1>3, <1>4 DEF MediaLatched

LEMMA FdcKeepsMedia == UNCHANGED fdcVars => UNCHANGED mediaVars
BY DEF fdcVars, mediaVars

(* No other step changes a disk, a strobe or a media register.             *)
LEMMA MediaOthers ==
  ASSUME MediaLatched, [Next]_vars,
         ~\E d \in Floppies : BridgeEject(d) \/ BridgeInsert(d),
         ~\E m \in FloppyMounts : MountFloppy(m)
  PROVE  MediaLatched'
<1>1. CASE UNCHANGED vars
  BY <1>1, MediaKept, FdcKeepsMedia DEF vars, bridgeVars, serviceVars
<1>2. CASE \/ \E cmd \in FdcCommands : StartCommand(cmd)
           \/ Result \/ FdcWrote \/ FdcStep \/ Dma \/ SoftReset \/ ResetButton
  <2>1. BridgeRests /\ UNCHANGED serviceVars
    BY <1>2 DEF StartCommand, Result, FdcWrote, FdcStep, Dma, SoftReset,
       ResetButton, FdcAlone
  <2>2. UNCHANGED mediaVars
    BY <1>2 DEF StartCommand, Result, FdcWrote, FdcStep, Dma, SoftReset,
       ResetButton, StartHangs, StartRejected, StartAccepted, ReadResult,
       UpdateSector, PrepareCount, CountLogical, Prepare, SdControl, Goto,
       PadWriteByte, CheckTc, EnterResult, FormatInputEnds, WaitOver,
       DmaReadByte, DmaWriteByte, FormatShortId, FormatId, SwReset, HardReset
  <2> QED
    BY <2>1, <2>2, MediaKept DEF BridgeRests, serviceVars
<1>3. CASE IdeStart \/ IdeTransfer \/ IdeSrst
  BY <1>3, MediaKept, FdcKeepsMedia DEF IdeStart, IdeTransfer, IdeSrst,
     IdeAlone, BridgeRests, serviceVars
<1>4. CASE \/ BridgeMountHd \/ BridgeMountHdDone
           \/ BridgeIdeReset \/ BridgeIdeDispatch \/ BridgeIdeData
           \/ BridgeIdeFetch \/ BridgeIdeSend \/ BridgeIdeStore \/ BridgeIdeStored
  <2>1. UNCHANGED <<slot, flp_ro, fdMountVars, fdcVars>>
    BY <1>4 DEF BridgeMountHd, BridgeMountHdDone, BridgeIdeReset,
       BridgeIdeDispatch, BridgeIdeData, BridgeIdeFetch, BridgeIdeSend,
       BridgeIdeStore, BridgeIdeStored, MountHd, MountHdDone, IdeReset,
       IdeDispatch, IdeData, IdeFetch, IdeSendSector, IdeStore, IdeStored,
       WithIde, serviceVars
  <2> QED
    BY <2>1, MediaKept, FdcKeepsMedia
<1>5. CASE \/ BridgeRequest \/ BridgeSampleKind \/ BridgeDispatch \/ BridgeCheck
           \/ BridgeStore \/ BridgeWaitOver \/ BridgeError
           \/ BridgeAckRises \/ BridgeAckFalls
  <2>1. UNCHANGED <<slot, flp_ro, fdMountVars, fdcVars>>
    BY <1>5 DEF BridgeRequest, BridgeSampleKind, BridgeDispatch, BridgeCheck,
       BridgeStore, BridgeWaitOver, BridgeError, BridgeAckRises, BridgeAckFalls,
       FddRequest, FddSampleKind, FddDispatch, FddCheck, FddStore, FddWaitOver,
       FddError, AckRises, AckFalls, KeepFdc, serviceVars
  <2> QED
    BY <2>1, MediaKept, FdcKeepsMedia
<1>6. CASE BridgeSendByte \/ BridgeTakeByte
  BY <1>6, MediaKept DEF BridgeSendByte, BridgeTakeByte, StreamStep, PutByte,
     MgmtPush, MgmtPop, serviceVars
<1>7. CASE Serve \/ \E d \in VDrives : Served(d)
  BY <1>7, MediaKept, FdcKeepsMedia DEF Serve, Served, ImageReadBegins,
     ImageWrite, InternalServe, AckEnds, FirmwareAlone, BridgeRests
<1>8. ASSUME NEW m \in HdMounts, MountHardDisk(m) PROVE MediaLatched'
  <2>1. /\ slot' = [slot EXCEPT ![HardDisk] = m.img]
        /\ UNCHANGED <<flp_ro, fdMountVars, fdcVars>>
    BY <1>8 DEF MountHardDisk, Mount, HdStrobe, Internal, HardDisk
  <2>2. \A d \in Floppies : d # HardDisk
    BY DEF Floppies, HardDisk
  <2>3. \A d \in Floppies : slot'[d] = slot[d]
    BY <2>1, <2>2
  <2> QED
    BY <2>1, <2>3 DEF MediaLatched, Mounted, fdMountVars, fdcVars, mediaVars
<1> QED
  BY <1>1, <1>2, <1>3, <1>4, <1>5, <1>6, <1>7, <1>8 DEF Next, Machine, BridgeNext

LEMMA MediaStep == Inv /\ MediaLatched /\ [Next]_vars => MediaLatched'
BY MediaMount, MediaEject, MediaInsert, MediaOthers

(* Once no mount is under way, controller and bridge agree with the        *)
(* framework on what each drive holds and whether it may be written,       *)
(* however mounts, ejects and inserts overlapped.                          *)
THEOREM MediaCorrect == Spec => []MediaAgrees
<1>1. Inv /\ MediaLatched => MediaAgrees
  BY MediaImplies
<1> QED
  BY <1>1, MediaInit, MediaStep, Invariant, PTL DEF Spec
=============================================================================
