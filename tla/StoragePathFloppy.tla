--------------------------- MODULE StoragePathFloppy ---------------------------
(***************************************************************************)
(* The floppy's data for every geometry, every set of images and every     *)
(* scenario that is orderly: a READ hands out the sector its command is    *)
(* at, every sector of every image holds the bytes meant for it, and a     *)
(* sector that the controller takes for written is not lost.               *)
(*                                                                         *)
(* The invariant follows a sector both ways.  Where the command is in its  *)
(* transfer (OrderInv, WalkInv, AimInv), what the FIFO holds of it         *)
(* (FillInv), when the bridge at work is at work for this command          *)
(* (LinkInv), what the bridge carries once it is not (CarryInv), and what  *)
(* the images hold (FloppyInPlace, WrittenInv).                            *)
(***************************************************************************)
EXTENDS StoragePathHardDisk

(* The transfers a driver asks for: they end on their track, or go on to   *)
(* the other head and the next cylinder with MT, and end on the medium.    *)
(* The controller turns down what names no sector of the medium.           *)
Misaddressed(cmd) ==
  \/ cmd.c >= Cylinders \/ (cmd.h = 1 /\ Heads = 1)
  \/ cmd.r > SectorsPerTrack \/ cmd.r > cmd.eot
OnOneTrack(cmd) ==
  /\ cmd.count <= BlockBytes * (cmd.eot - cmd.r + 1)
  /\ cmd.count <= BlockBytes * (SectorsPerTrack - cmd.r + 1)
OnMedium(cmd) ==
  /\ cmd.mt /\ Heads = 2 /\ cmd.eot >= SectorsPerTrack
  /\ cmd.count <= BlockBytes * (TotalSectors - Lba(cmd.c, cmd.h, cmd.r))

(* The resets that tear a sector on its way to the image, or send it to    *)
(* the other drive.                                                        *)
Disruptive == HardResets \/ "select" \in SoftResets

(* The timing of the model without FastCpu, such transfers, and no         *)
(* disruptive reset beside a write.                                        *)
Orderly ==
  /\ ~FastCpu
  /\ \A cmd \in FdcCommands :
       cmd.op # "format" => Misaddressed(cmd) \/ OnOneTrack(cmd) \/ OnMedium(cmd)
  /\ Disruptive => \A cmd \in FdcCommands : cmd.op = "read"

-----------------------------------------------------------------------------
(* The controller's command: its states and how full the FIFO is in them.  *)
Preparing == {"PREPARE_COUNT", "COUNT_LOGICAL", "PREPARE", "SD_CONTROL"}
Ending == {"UPDATE_SECTOR", "WAIT", "CHECK_TC"}
OrderInv ==
  /\ fdc_state = "IDLE" => pending = "none" /\ fifo = <<>> /\ ~terminated
  /\ fdc_state = "SD_READ" => pending = "read"
  /\ pending = "read" =>
       /\ fdc_state \in Preparing \cup Ending \cup {"SD_READ", "EMPTY_READ"}
       /\ fdc_state \in Preparing \cup Ending => fifo = <<>>
       /\ fdc_state = "SD_READ" /\ bstate # "TX" => fifo = <<>>
       /\ fdc_state = "EMPTY_READ" => Len(fifo) \in 1 .. BlockBytes
  /\ pending = "write" =>
       /\ fdc_state \in Preparing \cup Ending \cup {"FULL_WRITE", "SD_WRITE"}
       /\ fdc_state \in {"PREPARE_COUNT", "COUNT_LOGICAL"} \cup Ending => fifo = <<>>
       /\ fdc_state = "FULL_WRITE" => Len(fifo) < BlockBytes
       /\ fdc_state \in {"PREPARE", "SD_CONTROL"} => Len(fifo) = BlockBytes
       /\ fdc_state = "SD_WRITE" /\ bstate # "RX" => Len(fifo) = BlockBytes
  /\ pending = "format" =>
       fdc_state \in Preparing \cup
         {"WAIT", "CHECK_TC", "FORMAT_INPUT", "FORMAT_FILL"}
ReadsOnly ==
  Disruptive =>
    /\ pending \in {"none", "read"} /\ completed = {} /\ ~fd_is_wr
    /\ fdc_state \notin {"FULL_WRITE", "SD_WRITE", "FORMAT_INPUT", "FORMAT_FILL"}

(* From l, where sector g is, the next n sectors are in line.              *)
Walks(l, g, n) ==
  n > 0 =>
    /\ l.c < Cylinders /\ g = Lba(l.c, l.h, l.s) /\ g + n <= TotalSectors
    /\ \/ l.mt /\ Heads = 2 /\ l.eot >= SectorsPerTrack /\ l.s <= SectorsPerTrack
       \/ l.s + n - 1 <= l.eot /\ l.s + n - 1 <= SectorsPerTrack

(* What the DMA has moved of the sector under way, and what it still will. *)
Held ==
  IF fdc_state = "UPDATE_SECTOR" THEN BlockBytes
  ELSE IF pending = "read"
  THEN IF fdc_state = "EMPTY_READ" THEN BlockBytes - Len(fifo) ELSE 0
  ELSE IF fdc_state = "FULL_WRITE" THEN Len(fifo)
  ELSE IF fdc_state \in {"PREPARE", "SD_CONTROL", "SD_WRITE"} THEN BlockBytes ELSE 0
Between == fdc_state \in {"WAIT", "CHECK_TC"}
WalkInv ==
  pending \in {"read", "write"} =>
    /\ terminated <=> dma_left = 0
    /\ \E n \in Nat :
         /\ Walks(loc, goal, n) /\ dma_left + Held <= BlockBytes * n
         /\ ~Between => n > 0
AimInv ==
  pending \in {"read", "write"} =>
    /\ fdc_state \in {"COUNT_LOGICAL", "FULL_WRITE", "PREPARE"} => logical = goal
    /\ fdc_state \in {"SD_CONTROL", "SD_READ", "SD_WRITE", "EMPTY_READ"} =>
         sd_sector = goal

-----------------------------------------------------------------------------
(* The media of the drive at work.                                         *)
Settled(d) == ~fd_pend[d] /\ ~fd_wait[d] /\ media_present[d]
SteadyInv ==
  /\ steady /\ pending # "none" =>
       Settled(drive) /\ (pending # "read" => ~media_wp[drive])
  /\ \A w \in completed :
       Settled(w[1]) /\ ~media_wp[w[1]] /\ w[2] < TotalSectors

-----------------------------------------------------------------------------
(* The bytes.  A format that is reset in its fill leaves a controller that *)
(* never reads or writes again.                                            *)
Stuck ==
  /\ ~Disruptive /\ pending = "none"
  /\ fdc_state \in {"FORMAT_FILL", "WAIT", "CHECK_TC", "PREPARE_COUNT",
                    "COUNT_LOGICAL"}
Good(b, img, l, i) == BelongsAt(b, img, l, i) \/ (b = Stale /\ Stuck)
Loose(b, l, i) == InPlace(b, l, i) \/ (b = Stale /\ Stuck)
Sent(b, d, l, i) == b = CpuByte(d, l, i) \/ b = Padding
Written(b, d, l, i) == Sent(b, d, l, i) \/ b = Filler \/ (b = Stale /\ Stuck)
Offered(b, l, i) ==
  IF steady THEN BelongsAt(b, slot[drive], l, i)
            ELSE InPlace(b, l, i) \/ b = ZeroByte

FloppyInPlace ==
  \A img \in FloppyImages, l \in 0 .. TotalSectors - 1, i \in Place :
    Good(disk[<<img, l>>][i], img, l, i)

(* The FIFO while the PC fills it and the bridge has not begun to drain it.*)
Filling == {"FULL_WRITE", "PREPARE", "SD_CONTROL", "SD_WRITE"}
FillInv ==
  pending = "write" /\ fdc_state \in Filling /\ bstate # "RX" =>
    \A i \in 1 .. Len(fifo) : Sent(fifo[i], drive, goal, i - 1)

(* The bridge between its look at the request and the end of a stream: it  *)
(* works for the request that the controller holds, or for one a software  *)
(* reset has taken back.                                                   *)
Sending ==
  /\ fdc_state = "SD_READ" /\ Len(fifo) = xcnt
  /\ fd_drv = drive /\ fd_lba = goal
  /\ \A i \in 1 .. xcnt : Offered(fifo[i], goal, i - 1)
  /\ IF xzero THEN ~steady ELSE \A i \in Place : Offered(buf[i], goal, i)
Draining ==
  /\ fdc_state = "SD_WRITE" /\ Len(fifo) = BlockBytes - xcnt
  /\ \A i \in 1 .. Len(fifo) : Sent(fifo[i], fd_drv, fd_lba, xcnt + i - 1)
  /\ pending = "none" \/ (pending = "write" /\ fd_drv = drive /\ fd_lba = goal)
ToDrain ==
  /\ fdc_state = "SD_WRITE" /\ Len(fifo) = BlockBytes
  /\ \A i \in 1 .. Len(fifo) : Sent(fifo[i], drive, sd_sector, i - 1)
LinkInv ==
  /\ bstate = "FDD_REQ" => pending = "none" \/ Requesting
  /\ bstate = "FDD_DISPATCH" =>
       IF fd_is_wr
       THEN /\ pending = "none" \/ WriteRequest
            /\ ToDrain \/ fdc_state = "FORMAT_FILL"
       ELSE pending = "none" \/ ReadRequest
  /\ bstate = "TX" => pending = "none" \/ Sending
  /\ bstate = "RX" =>
       /\ fd_is_wr /\ blk_lba = fd_lba
       /\ \A i \in 0 .. xcnt - 1 : Written(buf[i], fd_drv, fd_lba, i)
       /\ Draining \/ fdc_state = "FORMAT_FILL"
CountInv == format_counter = IF bstate = "RX" THEN xcnt ELSE 0

(* The block the bridge has read for the controller, or one of a disk, or  *)
(* of no disk, that has been exchanged meanwhile; the sector it has        *)
(* drained and stores.                                                     *)
ReadFor(d, l) ==
  \/ \A i \in Place : Good(buf[i], slot[d], l, i)
  \/ /\ fd_pend[d] \/ fd_wait[d]
     /\ buf = ZeroBlock \/ \A i \in Place : Loose(buf[i], l, i)
DrainedFor(d, l) == \A i \in Place : Written(buf[i], d, l, i)
CarryInv ==
  /\ BlockFor("FDD_RD_TX") =>
       /\ blk_drv = fd_drv /\ blk_lba = fd_lba /\ fd_mounted[fd_drv]
       /\ ~xzero /\ fd_lba < TotalSectors
       /\ IF Internal(fd_drv) THEN ~copying ELSE ack[fd_drv] => copying
       /\ bstate = "BLK_ACK_LO" \/ ack[fd_drv] =>
            copying \/ blk_err \/ ReadFor(fd_drv, fd_lba)
  /\ bstate = "FDD_RD_CHK" => ReadFor(fd_drv, fd_lba) /\ ~xzero
  /\ bstate = "FDD_WR_STORE" =>
       fd_is_wr /\ blk_lba = fd_lba /\ DrainedFor(fd_drv, fd_lba)
  /\ BlockFor("IDLE") =>
       /\ fd_is_wr /\ fd_blk_wr /\ blk_lba = fd_lba /\ ~copying
       /\ DrainedFor(fd_drv, fd_lba)

-----------------------------------------------------------------------------
(* What has become of a sector the controller takes for written.           *)
OnDisk(d, l) == disk[<<slot[d], l>>][0].from # "image"
Safe(d, l) == OnDisk(d, l) \/ InHand(d, l) \/ fd_dead
WrittenInv ==
  /\ fdc_state = "UPDATE_SECTOR" /\ pending = "write" /\ steady =>
       Safe(drive, goal)
  /\ BlockFor("IDLE") /\ (bstate = "BLK_ACK_LO" \/ ack[blk_drv]) =>
       blk_err \/ ~HasSector(fd_drv, fd_lba) \/ OnDisk(fd_drv, fd_lba)

CommandInv == OrderInv /\ ReadsOnly /\ WalkInv /\ AimInv /\ FillInv
FdInv ==
  /\ CommandInv /\ SteadyInv /\ LinkInv /\ CountInv /\ CarryInv
  /\ FloppyInPlace /\ WrittenInv
  /\ ReadDataInPlace /\ CompletedWritesAreStored

(* What is known of the whole path already.                                *)
Known == Inv /\ HdInv /\ MediaAgrees

-----------------------------------------------------------------------------
(* Types, arithmetic, and what the other invariants give.                  *)

LEMMA FdTypes ==
  ASSUME Inv
  PROVE  /\ fdc_state \in FdcStates /\ pending \in Commands \cup {"none"}
         /\ drive \in Floppies /\ drive \in VDrives /\ loc \in Location
         /\ logical \in Nat /\ sd_sector \in Nat /\ goal \in Nat
         /\ fifo \in Seq(Byte) /\ Len(fifo) \in Nat
         /\ format_counter \in Place /\ terminated \in BOOLEAN
         /\ dma_left \in Nat
         /\ media_present \in [Floppies -> BOOLEAN]
         /\ media_wp \in [Floppies -> BOOLEAN]
         /\ bstate \in BridgeStates /\ seq_ret \in Returns
         /\ xzero \in BOOLEAN /\ xcnt \in Place
         /\ fd_is_wr \in BOOLEAN /\ fd_drv \in Floppies /\ fd_drv \in VDrives
         /\ fd_lba \in Nat /\ fd_dead \in BOOLEAN /\ fd_blk_wr \in BOOLEAN
         /\ fd_pend \in [Floppies -> BOOLEAN]
         /\ fd_wait \in [Floppies -> BOOLEAN]
         /\ fd_mounted \in [Floppies -> BOOLEAN]
         /\ fd_ro \in [Floppies -> BOOLEAN]
         /\ ack \in [VDrives -> BOOLEAN] /\ copying \in BOOLEAN
         /\ blk_err \in BOOLEAN /\ buf \in Block
         /\ steady \in BOOLEAN /\ completed \subseteq Floppies \X Nat
BY DEF Inv, TypeOK, FdcTypeOK, BridgeTypeOK, ServiceTypeOK, VDrives

LEMMA Sizes ==
  /\ BlockBytes \in Nat /\ BlockBytes > 1 /\ TotalSectors \in Nat
  /\ TotalSectors > 0
  /\ Cylinders \in Nat /\ Cylinders > 0 /\ Heads \in {1, 2}
  /\ SectorsPerTrack \in Nat /\ SectorsPerTrack > 0
BY BlockBytesAssumption, GeometryAssumption, TotalPositive

LEMMA Multiples ==
  /\ \A n \in Nat : BlockBytes * n \in Nat
  /\ BlockBytes * 0 = 0
  /\ \A n \in Nat : n > 0 => BlockBytes <= BlockBytes * n
  /\ \A n \in Nat : n > 0 => BlockBytes * (n - 1) = BlockBytes * n - BlockBytes
<1>1. BlockBytes \in Nat
  BY Sizes
<1>2. \A n \in Nat : BlockBytes * n \in Nat
  BY <1>1, ProductNat
<1>3. ASSUME NEW n \in Nat, n > 0
      PROVE  BlockBytes * (n - 1) = BlockBytes * n - BlockBytes
  BY <1>1
<1>4. ASSUME NEW n \in Nat, n > 0
      PROVE  BlockBytes <= BlockBytes * n
  <2>1. n - 1 \in Nat
    BY <1>4
  <2>2. BlockBytes * (n - 1) \in Nat /\ BlockBytes * n \in Nat
    BY <1>2, <2>1
  <2> QED
    BY <1>1, <1>3, <1>4, <2>2
<1> QED
  BY <1>1, <1>2, <1>3, <1>4

(* The numbers of the sectors along a track, and from track to track.      *)
LEMMA LbaSteps ==
  ASSUME NEW c \in Nat, NEW s \in Nat \ {0}
  PROVE  /\ \A h \in {0, 1} : Lba(c, h, s + 1) = Lba(c, h, s) + 1
         /\ Lba(c, 1, 1) = Lba(c, 0, SectorsPerTrack) + 1
         /\ Heads = 2 => Lba(c + 1, 0, 1) = Lba(c, 1, SectorsPerTrack) + 1
<1> DEFINE T == SectorsPerTrack
<1>1. /\ T \in Nat /\ T > 0 /\ Heads \in Nat
      /\ c * Heads \in Nat
  BY Sizes, ProductNat
<1>2. \A a \in Nat : (a + 1) * T = a * T + T /\ a * T \in Nat
  BY <1>1, ProductNat
<1>3. \A h \in {0, 1} : c * Heads + h \in Nat
  BY <1>1
<1>4. \A h \in {0, 1} : Lba(c, h, s + 1) = Lba(c, h, s) + 1
  <2>1. \A h \in {0, 1} : (c * Heads + h) * T \in Nat
    BY <1>2, <1>3
  <2> QED
    BY <2>1 DEF Lba
<1>5. Lba(c, 1, 1) = Lba(c, 0, T) + 1
  <2>1. (c * Heads + 1) * T = (c * Heads) * T + T /\ (c * Heads) * T \in Nat
    BY <1>1, <1>2
  <2>2. c * Heads + 0 = c * Heads
    BY <1>1
  <2> QED
    BY <1>1, <2>1, <2>2 DEF Lba
<1>6. ASSUME Heads = 2
      PROVE  Lba(c + 1, 0, 1) = Lba(c, 1, T) + 1
  <2>1. (c + 1) * Heads + 0 = (c * Heads + 1) + 1
    BY <1>6
  <2>2. (c * Heads + 1 + 1) * T = (c * Heads + 1) * T + T
        /\ (c * Heads + 1) * T \in Nat
    BY <1>1, <1>2, <1>3
  <2> QED
    BY <1>1, <2>1, <2>2 DEF Lba
<1> QED
  BY <1>4, <1>5, <1>6

(* The last sector of a cylinder is within the medium.                     *)
LEMMA LbaBounds ==
  ASSUME NEW c \in Nat, NEW h \in {0, 1}, h < Heads, c < Cylinders
  PROVE  Lba(c, h, SectorsPerTrack) < TotalSectors
<1> DEFINE T == SectorsPerTrack
<1>1. /\ T \in Nat /\ T > 0 /\ Heads \in Nat /\ Cylinders \in Nat
  BY Sizes
<1>2. \A a, b, d \in Nat : a <= b => a * d <= b * d
  OBVIOUS
<1>3. c * Heads + h + 1 <= (c + 1) * Heads
  <2>1. (c + 1) * Heads = c * Heads + Heads /\ c * Heads \in Nat
    BY <1>1, ProductNat
  <2> QED
    BY <1>1, <2>1
<1>4. (c + 1) * Heads <= Cylinders * Heads
  BY <1>1, <1>2
<1>5. c * Heads \in Nat /\ (c + 1) * Heads \in Nat /\ Cylinders * Heads \in Nat
  BY <1>1, ProductNat
<1>6. c * Heads + h + 1 <= Cylinders * Heads /\ c * Heads + h + 1 \in Nat
  BY <1>3, <1>4, <1>5
<1>7. (c * Heads + h + 1) * T <= (Cylinders * Heads) * T
  BY <1>1, <1>2, <1>5, <1>6
<1>8. (c * Heads + h + 1) * T = (c * Heads + h) * T + T
      /\ (c * Heads + h) * T \in Nat /\ (Cylinders * Heads) * T \in Nat
  <2>1. c * Heads + h \in Nat
    BY <1>5
  <2> QED
    BY <1>1, <1>5, <2>1, ProductNat
<1> QED
  BY <1>1, <1>7, <1>8 DEF Lba, TotalSectors

(* The next sector is the next in line.                                    *)
LEMMA WalkOn ==
  ASSUME Inv, NEW n \in Nat, n > 0, Walks(loc, goal, n)
  PROVE  Walks(NextLocation, goal + 1, n - 1)
<1> DEFINE T == SectorsPerTrack
<1>0. SUFFICES ASSUME n > 1
               PROVE  Walks(NextLocation, goal + 1, n - 1)
  BY DEF Walks
<1>1. /\ loc.c \in Nat /\ loc.h \in {0, 1} /\ loc.s \in Nat \ {0}
      /\ loc.eot \in Nat /\ loc.mt \in BOOLEAN /\ loc \in Location
      /\ goal \in Nat
  BY FdTypes DEF Location
<1>2. /\ loc.c < Cylinders /\ goal = Lba(loc.c, loc.h, loc.s)
      /\ goal + n <= TotalSectors
      /\ \/ loc.mt /\ Heads = 2 /\ loc.eot >= T /\ loc.s <= T
         \/ loc.s + n - 1 <= loc.eot /\ loc.s + n - 1 <= T
  BY DEF Walks
<1>3. CASE OnlySector
  <2>1. NextLocation = [loc EXCEPT !.s = loc.s + 1, !.h = loc.h, !.c = loc.c]
    BY <1>3 DEF NextLocation, NextCylinder
  <2>2. /\ NextLocation.c = loc.c /\ NextLocation.h = loc.h
        /\ NextLocation.s = loc.s + 1 /\ NextLocation.eot = loc.eot
        /\ NextLocation.mt = loc.mt
    BY <1>1, <2>1 DEF Location
  <2>3. goal + 1 = Lba(loc.c, loc.h, loc.s + 1)
    BY <1>1, <1>2, LbaSteps
  <2>4. loc.s + 1 <= T
    BY <1>1, <1>3, Sizes DEF OnlySector
  <2> QED
    BY <1>0, <1>1, <1>2, <2>2, <2>3, <2>4, Sizes DEF Walks
<1>4. CASE ~OnlySector
  <2>1. loc.mt /\ Heads = 2 /\ loc.eot >= T /\ loc.s = T
    BY <1>0, <1>1, <1>2, <1>4, Sizes DEF OnlySector
  <2>2. CASE loc.h = 0
    <3>1. NextLocation = [loc EXCEPT !.s = 1, !.h = 1 - loc.h, !.c = loc.c]
      BY <1>4, <2>1, <2>2 DEF NextLocation, NextCylinder
    <3>2. /\ NextLocation.c = loc.c /\ NextLocation.h = 1
          /\ NextLocation.s = 1 /\ NextLocation.eot = loc.eot
          /\ NextLocation.mt = loc.mt
      BY <1>1, <2>2, <3>1 DEF Location
    <3>3. goal + 1 = Lba(loc.c, 1, 1)
      BY <1>1, <1>2, <2>1, <2>2, LbaSteps
    <3> QED
      BY <1>0, <1>1, <1>2, <2>1, <3>2, <3>3, Sizes DEF Walks
  <2>3. CASE loc.h = 1
    <3>1. NextLocation = [loc EXCEPT !.s = 1, !.h = 1 - loc.h, !.c = loc.c + 1]
      <4>1. NextCylinder /\ ~(loc.c >= Cylinders)
        BY <1>1, <1>2, <1>4, <2>3, Sizes DEF NextCylinder
      <4> QED
        BY <1>4, <2>1, <4>1 DEF NextLocation
    <3>2. /\ NextLocation.c = loc.c + 1 /\ NextLocation.h = 0
          /\ NextLocation.s = 1 /\ NextLocation.eot = loc.eot
          /\ NextLocation.mt = loc.mt
      BY <1>1, <2>3, <3>1 DEF Location
    <3>3. goal + 1 = Lba(loc.c + 1, 0, 1)
      BY <1>1, <1>2, <2>1, <2>3, LbaSteps
    <3>4. loc.c + 1 < Cylinders
      <4>1. SUFFICES ASSUME loc.c + 1 = Cylinders PROVE FALSE
        BY <1>1, <1>2, Sizes
      <4>2. TotalSectors = (Cylinders * Heads) * T
        BY DEF TotalSectors
      <4>3. Lba(Cylinders, 0, 1) = (Cylinders * Heads) * T
        <5>1. Cylinders * Heads \in Nat /\ (Cylinders * Heads) * T \in Nat
          BY Sizes, ProductNat
        <5> QED
          BY <5>1 DEF Lba
      <4> QED
        BY <1>0, <1>1, <1>2, <3>3, <4>1, <4>2, <4>3, Sizes
    <3> QED
      BY <1>0, <1>1, <1>2, <2>1, <3>2, <3>3, <3>4, Sizes DEF Walks
  <2> QED
    BY <1>1, <2>2, <2>3
<1> QED
  BY <1>3, <1>4

(* A command with a sector to go is at one of the medium.                  *)
LEMMA AtWork ==
  ASSUME Inv, WalkInv, pending \in {"read", "write"}, ~Between
  PROVE  goal < TotalSectors /\ goal = Lba(loc.c, loc.h, loc.s)
<1>1. PICK n \in Nat : Walks(loc, goal, n) /\ n > 0
  BY DEF WalkInv
<1> QED
  BY <1>1, FdTypes, Sizes DEF Walks

(* The bridge's bytes as long as a controller that is stuck stays so.      *)
Stays == Stuck => Stuck'
LEMMA GoodKept ==
  ASSUME Stays, UNCHANGED buf, UNCHANGED <<fd_lba, fd_pend, fd_wait, fd_drv>>,
         slot'[fd_drv] = slot[fd_drv]
  PROVE  /\ \A b, img, l, i : Good(b, img, l, i) => Good(b, img, l, i)'
         /\ \A b, d, l, i : Written(b, d, l, i) => Written(b, d, l, i)'
         /\ ReadFor(fd_drv, fd_lba) => ReadFor(fd_drv, fd_lba)'
         /\ DrainedFor(fd_drv, fd_lba) => DrainedFor(fd_drv, fd_lba)'
<1>1. /\ \A b, img, l, i : Good(b, img, l, i) => Good(b, img, l, i)'
      /\ \A b, l, i : Loose(b, l, i) => Loose(b, l, i)'
      /\ \A b, d, l, i : Written(b, d, l, i) => Written(b, d, l, i)'
  BY DEF Good, Loose, Written, Sent, Stays
<1>2. ReadFor(fd_drv, fd_lba) => ReadFor(fd_drv, fd_lba)'
  BY <1>1 DEF ReadFor
<1>3. DrainedFor(fd_drv, fd_lba) => DrainedFor(fd_drv, fd_lba)'
  BY <1>1 DEF DrainedFor
<1> QED
  BY <1>1, <1>2, <1>3

bridgeSide == <<bstate, seq_ret, blk_op, blk_drv, blk_lba, xzero, xcnt, fd_is_wr,
                fd_drv, fd_lba, fd_dead, fd_blk_wr, fd_pend, fd_wait,
                fd_mounted, ack, copying, blk_err, buf, slot, disk>>

(* The controller moves and the bridge does not; whatever the bridge does  *)
(* for the controller, it does for a command that is gone.                 *)
Apart ==
  /\ Stays /\ format_counter' \in {format_counter, 0}
  /\ \/ bstate \notin {"FDD_REQ", "FDD_DISPATCH", "TX", "RX"}
     \/ ~Waiting /\ pending' \in {pending, "none"}

LEMMA BridgeAlone == FdcAlone => UNCHANGED bridgeSide
BY DEF FdcAlone, BridgeRests, portVars, streamVars, fdVars, fdMountVars,
   serviceVars, bridgeSide

LEMMA BytesStay ==
  ASSUME FdInv, UNCHANGED bridgeSide, Stays
  PROVE  CarryInv' /\ FloppyInPlace'
<1>1. /\ UNCHANGED <<bstate, seq_ret, blk_drv, blk_lba, xzero, fd_is_wr, fd_drv,
                     fd_lba, fd_blk_wr, fd_pend, fd_wait, fd_mounted, ack,
                     copying, blk_err, buf, slot, disk>>
      /\ \A r : BlockFor(r)' <=> BlockFor(r)
  BY DEF bridgeSide, BlockFor, InBlock
<1>2. CarryInv'
  BY <1>1, GoodKept DEF FdInv, CarryInv, Internal
<1>3. FloppyInPlace'
  BY <1>1, GoodKept DEF FdInv, FloppyInPlace
<1> QED
  BY <1>2, <1>3

LEMMA LinkStays ==
  ASSUME FdInv, UNCHANGED bridgeSide, Apart
  PROVE  LinkInv' /\ CountInv'
<1>1. bstate' = bstate /\ fd_is_wr' = fd_is_wr /\ xcnt' = xcnt
  BY DEF bridgeSide
<1>2. CASE bstate \notin {"FDD_REQ", "FDD_DISPATCH", "TX", "RX"}
  BY <1>1, <1>2 DEF FdInv, LinkInv, CountInv, Apart
<1>3. CASE ~Waiting /\ pending' \in {pending, "none"}
  <2>1. bstate # "RX" /\ ~(bstate = "FDD_DISPATCH" /\ fd_is_wr)
    BY <1>3 DEF FdInv, LinkInv, Draining, ToDrain, Waiting
  <2>2. bstate \in {"FDD_REQ", "FDD_DISPATCH", "TX"} => pending = "none"
    BY <1>3, <2>1 DEF FdInv, LinkInv, Sending, Waiting, Requesting, ReadRequest,
       WriteRequest
  <2> QED
    BY <1>1, <1>3, <2>1, <2>2 DEF FdInv, LinkInv, CountInv, Apart
<1> QED
  BY <1>2, <1>3 DEF Apart

LEMMA InHandKept ==
  ASSUME UNCHANGED bridgeSide, NEW d, NEW l
  PROVE  /\ InHand(d, l)' <=> InHand(d, l)
         /\ OnDisk(d, l)' <=> OnDisk(d, l)
         /\ HasSector(d, l)' <=> HasSector(d, l)
         /\ Safe(d, l)' <=> Safe(d, l)
BY DEF bridgeSide, InHand, OnDisk, HasSector, Safe

LEMMA OutcomeStays ==
  ASSUME FdInv, UNCHANGED <<bridgeSide, completed>>,
         fdc_state' = "UPDATE_SECTOR" => pending' # "write"
  PROVE  WrittenInv' /\ CompletedWritesAreStored'
<1>1. /\ UNCHANGED <<bstate, fd_drv, fd_lba, blk_drv, ack, blk_err, fd_dead,
                     disk, slot>>
      /\ \A r : BlockFor(r)' <=> BlockFor(r)
  BY DEF bridgeSide, BlockFor, InBlock
<1>2. WrittenInv'
  BY <1>1 DEF FdInv, WrittenInv, HasSector, OnDisk
<1>3. CompletedWritesAreStored'
  BY <1>1, InHandKept DEF FdInv, CompletedWritesAreStored
<1> QED
  BY <1>2, <1>3

LEMMA SteadyStays ==
  ASSUME FdInv, UNCHANGED <<bridgeSide, mediaVars, drive, steady, completed>>,
         pending' \in {pending, "none"}
  PROVE  SteadyInv'
BY DEF FdInv, SteadyInv, Settled, bridgeSide, mediaVars

-----------------------------------------------------------------------------
(* The controller's own steps.                                             *)

LEMMA Unserved ==
  ASSUME FdInv, FdcAlone, Apart, UNCHANGED <<mediaVars, drive, steady, completed>>,
         pending' \in {pending, "none"},
         fdc_state' = "UPDATE_SECTOR" => pending' # "write"
  PROVE  /\ UNCHANGED bridgeSide /\ UNCHANGED <<bstate, fd_is_wr>>
         /\ CarryInv' /\ FloppyInPlace' /\ LinkInv' /\ CountInv'
         /\ WrittenInv' /\ CompletedWritesAreStored' /\ SteadyInv'
<1>1. UNCHANGED bridgeSide /\ UNCHANGED <<bstate, fd_is_wr>>
  BY BridgeAlone DEF bridgeSide
<1>2. CarryInv' /\ FloppyInPlace'
  BY <1>1, BytesStay DEF Apart
<1> QED
  BY <1>1, <1>2, LinkStays, OutcomeStays, SteadyStays

LEMMA PrepareCounts ==
  ASSUME Inv, FdInv, FdcAlone, UNCHANGED historyVars, PrepareCount
  PROVE  FdInv'
<1>1. /\ fdc_state = "PREPARE_COUNT" /\ fdc_state' = "COUNT_LOGICAL"
      /\ logical' = Lba(loc.c, loc.h, loc.s)
      /\ UNCHANGED <<pending, drive, loc, sd_sector, fifo, format_counter,
                     terminated, dma_left, goal, mediaVars, steady, completed>>
  BY DEF PrepareCount, historyVars
<1>2. Apart /\ ~Between /\ ~Between' /\ Held' = Held
  BY <1>1 DEF Apart, Stays, Stuck, Waiting, Between, Held
<1>3. /\ UNCHANGED <<bstate, fd_is_wr>> /\ CarryInv' /\ FloppyInPlace'
      /\ LinkInv' /\ CountInv' /\ WrittenInv' /\ CompletedWritesAreStored'
      /\ SteadyInv'
  BY <1>1, <1>2, Unserved
<1>4. OrderInv' /\ ReadsOnly' /\ FillInv'
  BY <1>1, <1>3 DEF FdInv, CommandInv, OrderInv, ReadsOnly, FillInv, Filling,
     Preparing, Ending
<1>5. WalkInv'
  BY <1>1, <1>2 DEF FdInv, CommandInv, WalkInv, Walks
<1>6. AimInv'
  BY <1>1, <1>2, AtWork DEF FdInv, CommandInv, AimInv
<1>7. ReadDataInPlace'
  BY <1>1 DEF ReadDataInPlace
<1> QED
  BY <1>3, <1>4, <1>5, <1>6, <1>7 DEF FdInv, CommandInv

LEMMA CountsLogical ==
  ASSUME Inv, FdInv, FdcAlone, UNCHANGED historyVars, CountLogical
  PROVE  FdInv'
<1>1. /\ fdc_state = "COUNT_LOGICAL"
      /\ \/ pending \in {"read", "format"} /\ Goto("PREPARE")
         \/ pending = "write" /\ Goto("FULL_WRITE")
  BY DEF CountLogical
<1>2. /\ fdc_state' \in {"PREPARE", "FULL_WRITE"} /\ pending # "none"
      /\ fdc_state' = "FULL_WRITE" <=> pending = "write"
      /\ UNCHANGED <<pending, drive, loc, logical, sd_sector, fifo,
                     format_counter, terminated, dma_left, goal, mediaVars,
                     steady, completed>>
  BY <1>1 DEF Goto, historyVars
<1>3. pending \in {"read", "write"} => fifo = <<>> /\ Len(fifo) = 0
  BY <1>1 DEF FdInv, CommandInv, OrderInv, Preparing
<1>4. Apart /\ ~Between /\ ~Between' /\ (pending \in {"read", "write"} => Held' = Held)
  BY <1>1, <1>2, <1>3 DEF Apart, Stays, Stuck, Waiting, Between, Held
<1>5. /\ UNCHANGED <<bstate, fd_is_wr>> /\ CarryInv' /\ FloppyInPlace'
      /\ LinkInv' /\ CountInv' /\ WrittenInv' /\ CompletedWritesAreStored'
      /\ SteadyInv'
  BY <1>1, <1>2, <1>4, Unserved
<1>6. OrderInv' /\ ReadsOnly'
  BY <1>1, <1>2, <1>3, <1>5, Sizes DEF FdInv, CommandInv, OrderInv, ReadsOnly,
     Preparing, Ending
<1>7. WalkInv'
  BY <1>2, <1>4 DEF FdInv, CommandInv, WalkInv, Walks
<1>8. AimInv' /\ FillInv'
  BY <1>1, <1>2, <1>3 DEF FdInv, CommandInv, AimInv, FillInv
<1>9. ReadDataInPlace'
  BY <1>2 DEF ReadDataInPlace
<1> QED
  BY <1>5, <1>6, <1>7, <1>8, <1>9 DEF FdInv, CommandInv

(* The clamp does nothing: the sector is one of the medium.                *)
LEMMA Prepared ==
  ASSUME Inv, FdInv, FdcAlone, UNCHANGED historyVars, Prepare
  PROVE  FdInv'
<1>1. /\ fdc_state = "PREPARE" /\ fdc_state' = "SD_CONTROL"
      /\ sd_sector' = IF logical >= TotalSectors THEN TotalSectors - 1 ELSE logical
      /\ UNCHANGED <<pending, drive, loc, logical, fifo, format_counter,
                     terminated, dma_left, goal, mediaVars, steady, completed>>
  BY DEF Prepare, historyVars
<1>2. Apart /\ ~Between /\ ~Between' /\ Held' = Held
  BY <1>1 DEF Apart, Stays, Stuck, Waiting, Between, Held
<1>3. /\ UNCHANGED <<bstate, fd_is_wr>> /\ CarryInv' /\ FloppyInPlace'
      /\ LinkInv' /\ CountInv' /\ WrittenInv' /\ CompletedWritesAreStored'
      /\ SteadyInv'
  BY <1>1, <1>2, Unserved
<1>4. OrderInv' /\ ReadsOnly' /\ FillInv'
  BY <1>1, <1>3 DEF FdInv, CommandInv, OrderInv, ReadsOnly, FillInv, Filling,
     Preparing, Ending
<1>5. WalkInv'
  BY <1>1, <1>2 DEF FdInv, CommandInv, WalkInv, Walks
<1>6. AimInv'
  BY <1>1, <1>2, AtWork, Sizes, FdTypes DEF FdInv, CommandInv, AimInv
<1>7. ReadDataInPlace'
  BY <1>1 DEF ReadDataInPlace
<1> QED
  BY <1>3, <1>4, <1>5, <1>6, <1>7 DEF FdInv, CommandInv

LEMMA Controls ==
  ASSUME Inv, FdInv, FdcAlone, UNCHANGED historyVars, SdControl
  PROVE  FdInv'
<1>1. /\ fdc_state = "SD_CONTROL"
      /\ \/ pending = "read" /\ Goto("SD_READ")
         \/ pending = "write" /\ Goto("SD_WRITE")
         \/ pending = "format" /\ Goto("FORMAT_FILL")
  BY DEF SdControl
<1>2. /\ fdc_state' = CASE pending = "read" -> "SD_READ"
                        [] pending = "write" -> "SD_WRITE"
                        [] OTHER -> "FORMAT_FILL"
      /\ pending \in {"read", "write", "format"}
      /\ UNCHANGED <<pending, drive, loc, logical, sd_sector, fifo,
                     format_counter, terminated, dma_left, goal, mediaVars,
                     steady, completed>>
  BY <1>1 DEF Goto, historyVars
<1>3. Apart /\ ~Between /\ ~Between' /\ (pending \in {"read", "write"} => Held' = Held)
  BY <1>1, <1>2 DEF Apart, Stays, Stuck, Waiting, Between, Held
<1>4. /\ UNCHANGED <<bstate, fd_is_wr>> /\ CarryInv' /\ FloppyInPlace'
      /\ LinkInv' /\ CountInv' /\ WrittenInv' /\ CompletedWritesAreStored'
      /\ SteadyInv'
  BY <1>1, <1>2, <1>3, Unserved
<1>5. OrderInv' /\ ReadsOnly'
  BY <1>1, <1>2, <1>4 DEF FdInv, CommandInv, OrderInv, ReadsOnly, Preparing,
     Ending
<1>6. WalkInv'
  BY <1>2, <1>3 DEF FdInv, CommandInv, WalkInv, Walks
<1>7. AimInv' /\ FillInv'
  BY <1>1, <1>2, <1>4 DEF FdInv, CommandInv, AimInv, FillInv, Filling
<1>8. ReadDataInPlace'
  BY <1>2 DEF ReadDataInPlace
<1> QED
  BY <1>4, <1>5, <1>6, <1>7, <1>8 DEF FdInv, CommandInv

LEMMA LastMove ==
  ASSUME Inv, DmaMoves
  PROVE  /\ dma_left > 0 /\ dma_left' = dma_left - 1
         /\ terminated' <=> dma_left' = 0
<1>1. dma_left > 0 /\ dma_left' = dma_left - 1 /\ terminated' = (dma_left = 1)
  BY DEF DmaMoves
<1>2. (dma_left = 1) <=> (dma_left' = 0)
  BY <1>1, FdTypes
<1>3. terminated' <=> (dma_left = 1)
  BY <1>1, Zenon
<1> QED
  BY <1>1, <1>2, <1>3

(* A byte more in the FIFO of a write: from the PC, or padding.            *)
LEMMA Filled ==
  ASSUME Inv, Inv', FdInv, FdcAlone, UNCHANGED historyVars, NEW b, FillFifo(b),
         pending = "write" => Sent(b, drive, goal, Len(fifo)),
         UNCHANGED <<pending, drive, loc, logical, sd_sector, format_counter,
                     mediaVars, goal>>,
         pending = "write" =>
           /\ terminated' <=> dma_left' = 0
           /\ \/ dma_left > 0 /\ dma_left' = dma_left - 1
              \/ dma_left = 0 /\ dma_left' = 0
  PROVE  FdInv'
<1>1. /\ fdc_state = "FULL_WRITE" /\ fifo' = Append(fifo, b)
      /\ fdc_state' = IF Len(fifo') = BlockBytes THEN "PREPARE" ELSE fdc_state
      /\ UNCHANGED <<steady, completed>>
  BY DEF FillFifo, historyVars
<1>2. Apart /\ ~Between /\ ~Between'
  BY <1>1 DEF Apart, Stays, Stuck, Waiting, Between
<1>3. /\ UNCHANGED <<bstate, fd_is_wr>> /\ CarryInv' /\ FloppyInPlace'
      /\ LinkInv' /\ CountInv' /\ WrittenInv' /\ CompletedWritesAreStored'
      /\ SteadyInv'
  BY <1>1, <1>2, Unserved
<1>4. /\ Len(fifo') = Len(fifo) + 1 /\ Len(fifo) \in Nat
      /\ \A i \in 1 .. Len(fifo) : fifo'[i] = fifo[i]
      /\ fifo'[Len(fifo) + 1] = b
  <2>1. fifo \in Seq(Byte) /\ fifo' \in Seq(Byte)
    BY FdTypes DEF Inv, TypeOK, FdcTypeOK
  <2>2. fifo \in Seq(Byte \cup {b}) /\ b \in Byte \cup {b}
    BY <2>1
  <2> QED
    BY <1>1, <2>2
<1>5. pending \notin {"read", "format"} /\ ~Disruptive
      /\ (pending = "write" => Len(fifo) < BlockBytes)
  BY <1>1 DEF FdInv, CommandInv, OrderInv, ReadsOnly, Preparing, Ending
<1>6. OrderInv' /\ ReadsOnly'
  BY <1>1, <1>4, <1>5, Sizes DEF OrderInv, ReadsOnly, Preparing, Ending
<1>7. AimInv'
  BY <1>1 DEF FdInv, CommandInv, AimInv
<1>8. FillInv'
  <2>1. ASSUME pending' = "write", NEW i \in 1 .. Len(fifo')
        PROVE  Sent(fifo'[i], drive, goal, i - 1)
    <3>1. \A j \in 1 .. Len(fifo) : Sent(fifo[j], drive, goal, j - 1)
      <4>1. bstate # "RX"
        BY <1>1 DEF FdInv, LinkInv, Draining
      <4> QED
        BY <1>1, <2>1, <4>1 DEF FdInv, CommandInv, FillInv, Filling
    <3>2. CASE i \in 1 .. Len(fifo)
      BY <1>4, <3>1, <3>2
    <3>3. CASE i = Len(fifo) + 1
      <4>1. i - 1 = Len(fifo)
        BY <1>4, <3>3
      <4> QED
        BY <1>4, <2>1, <3>3, <4>1
    <3> QED
      BY <1>4, <2>1, <3>2, <3>3
  <2> QED
    BY <2>1 DEF FillInv, Sent
<1>9. WalkInv'
  <2>1. SUFFICES ASSUME pending = "write" PROVE WalkInv'
    BY <1>5 DEF WalkInv
  <2>2. Held = Len(fifo) /\ Held' = Len(fifo) + 1
    BY <1>1, <1>4, <2>1 DEF Held
  <2>3. PICK n \in Nat : /\ Walks(loc, goal, n) /\ dma_left + Held <= BlockBytes * n
                         /\ n > 0
    BY <1>2, <2>1 DEF FdInv, CommandInv, WalkInv
  <2>4. BlockBytes <= BlockBytes * n /\ BlockBytes * n \in Nat
    BY <2>3, Multiples
  <2>5. dma_left' + Held' <= BlockBytes * n
    BY <1>4, <1>5, <2>1, <2>2, <2>3, <2>4, FdTypes, Sizes
  <2>6. Walks(loc, goal, n)' /\ terminated' <=> dma_left' = 0
    BY <2>1, <2>3 DEF Walks
  <2> QED
    BY <1>2, <2>1, <2>3, <2>5, <2>6 DEF WalkInv
<1>10. ReadDataInPlace'
  BY <1>1 DEF ReadDataInPlace
<1> QED
  BY <1>3, <1>6, <1>7, <1>8, <1>9, <1>10 DEF FdInv, CommandInv

LEMMA Padded ==
  ASSUME Inv, Inv', FdInv, FdcAlone, UNCHANGED historyVars, PadWriteByte
  PROVE  FdInv'
<1>1. /\ FillFifo(Padding) /\ terminated /\ UNCHANGED <<terminated, dma_left>>
      /\ UNCHANGED <<pending, drive, loc, logical, sd_sector, format_counter,
                     mediaVars, goal>>
  BY DEF PadWriteByte
<1>2. pending = "write" => dma_left = 0
  BY <1>1 DEF FdInv, CommandInv, WalkInv
<1> QED
  BY <1>1, <1>2, Filled DEF Sent

LEMMA PcWrites ==
  ASSUME Inv, Inv', FdInv, FdcAlone, UNCHANGED historyVars, DmaWriteByte
  PROVE  FdInv'
<1>1. /\ FillFifo(CpuByte(drive, goal, Len(fifo))) /\ pending = "write"
      /\ dma_left > 0 /\ dma_left' = dma_left - 1 /\ (terminated' <=> dma_left' = 0)
      /\ UNCHANGED <<pending, drive, loc, logical, sd_sector, format_counter,
                     mediaVars, goal>>
  BY LastMove DEF DmaWriteByte
<1> QED
  BY <1>1, Filled DEF Sent

(* The PC takes a byte of a read.                                          *)
LEMMA PcReads ==
  ASSUME Inv, FdInv, FdcAlone, UNCHANGED historyVars, DmaReadByte
  PROVE  FdInv'
<1>1. /\ fdc_state = "EMPTY_READ" /\ pending = "read" /\ fifo # <<>>
      /\ dma_left > 0 /\ dma_left' = dma_left - 1 /\ (terminated' <=> dma_left' = 0)
      /\ fifo' = Tail(fifo)
      /\ fdc_state' = IF fifo' = <<>> THEN "UPDATE_SECTOR" ELSE fdc_state
      /\ UNCHANGED <<pending, drive, loc, logical, sd_sector, format_counter,
                     mediaVars, goal, steady, completed>>
  BY LastMove DEF DmaReadByte, historyVars
<1>2. Apart /\ ~Between /\ ~Between'
  BY <1>1 DEF Apart, Stays, Stuck, Waiting, Between
<1>3. /\ UNCHANGED bridgeSide
      /\ UNCHANGED <<bstate, fd_is_wr>> /\ CarryInv' /\ FloppyInPlace'
      /\ LinkInv' /\ CountInv' /\ WrittenInv' /\ CompletedWritesAreStored'
      /\ SteadyInv'
  BY <1>1, <1>2, Unserved
<1>4. /\ Len(fifo) \in 1 .. BlockBytes /\ Len(fifo') = Len(fifo) - 1
      /\ \A i \in 1 .. Len(fifo') : fifo'[i] = fifo[i + 1]
      /\ fifo' = <<>> <=> Len(fifo') = 0
  <2>1. fifo \in Seq(Byte) /\ fifo' \in Seq(Byte)
    BY <1>1, FdTypes
  <2>2. Len(fifo) \in 1 .. BlockBytes
    BY <1>1 DEF FdInv, CommandInv, OrderInv
  <2>3. /\ Len(fifo') = Len(fifo) - 1
        /\ \A i \in 1 .. Len(fifo') : fifo'[i] = fifo[i + 1]
    BY <1>1, <2>1, <2>2
  <2>4. fifo' = <<>> <=> Len(fifo') = 0
    BY <2>1
  <2> QED
    BY <2>2, <2>3, <2>4
<1>5. OrderInv' /\ ReadsOnly'
  BY <1>1, <1>3, <1>4, Sizes DEF FdInv, CommandInv, OrderInv, ReadsOnly,
     Preparing, Ending
<1>6. AimInv' /\ FillInv'
  BY <1>1 DEF FdInv, CommandInv, AimInv, FillInv
<1>7. WalkInv'
  <2>1. Held = BlockBytes - Len(fifo) /\ Held' = BlockBytes - Len(fifo) + 1
    BY <1>1, <1>4, Sizes DEF Held
  <2>2. dma_left' + Held' = dma_left + Held
    BY <1>1, <1>4, <2>1, FdTypes, Sizes
  <2>3. PICK n \in Nat : /\ Walks(loc, goal, n) /\ dma_left + Held <= BlockBytes * n
                         /\ n > 0
    BY <1>1, <1>2 DEF FdInv, CommandInv, WalkInv
  <2> QED
    BY <1>1, <2>2, <2>3 DEF WalkInv, Walks
<1>8. ReadDataInPlace'
  <2>1. ASSUME fdc_state' = "EMPTY_READ", NEW i \in 1 .. Len(fifo')
        PROVE  Offered(fifo'[i], goal, BlockBytes - Len(fifo') + i - 1)
    <3>1. i + 1 \in 1 .. Len(fifo) /\ fifo'[i] = fifo[i + 1]
          /\ BlockBytes - Len(fifo) + (i + 1) - 1 = BlockBytes - Len(fifo') + i - 1
      BY <1>4, <2>1, Sizes
    <3>2. Offered(fifo[i + 1], goal, BlockBytes - Len(fifo) + (i + 1) - 1)
      BY <1>1, <3>1 DEF FdInv, ReadDataInPlace, Offered
    <3> QED
      BY <3>1, <3>2
  <2>2. Len(fifo') <= BlockBytes
    BY <1>4, Sizes
  <2>3. UNCHANGED slot
    BY <1>3 DEF bridgeSide
  <2> QED
    BY <1>1, <2>1, <2>2, <2>3 DEF ReadDataInPlace, Offered
<1> QED
  BY <1>3, <1>5, <1>6, <1>7, <1>8 DEF FdInv, CommandInv

(* Into the idle state, with the FIFO and the counters clear.              *)
LEMMA Idles ==
  ASSUME Inv, FdInv, FdcAlone, UNCHANGED historyVars, ~Waiting, ~Stuck,
         fdc_state' = "IDLE", pending' = "none", fifo' = <<>>, ~terminated',
         format_counter' = 0, UNCHANGED <<drive, mediaVars>>
  PROVE  FdInv'
<1>1. Apart /\ UNCHANGED <<steady, completed>>
  BY DEF Apart, Stays, historyVars
<1>2. /\ UNCHANGED <<bstate, fd_is_wr>> /\ CarryInv' /\ FloppyInPlace'
      /\ LinkInv' /\ CountInv' /\ WrittenInv' /\ CompletedWritesAreStored'
      /\ SteadyInv'
  BY <1>1, Unserved
<1>3. OrderInv' /\ ReadsOnly'
  BY <1>1, <1>2 DEF FdInv, CommandInv, OrderInv, ReadsOnly
<1>4. WalkInv' /\ AimInv' /\ FillInv' /\ ReadDataInPlace'
  BY DEF WalkInv, AimInv, FillInv, ReadDataInPlace
<1> QED
  BY <1>2, <1>3, <1>4 DEF FdInv, CommandInv

(* After a sector: the result, the next sector, or the next ID field.      *)
LEMMA Checked ==
  ASSUME Inv, FdInv, FdcAlone, UNCHANGED historyVars, CheckTc
  PROVE  FdInv'
<1>1. fdc_state = "CHECK_TC" /\ ~Waiting
  BY DEF CheckTc, Waiting
<1>2. CASE pending # "none" /\ EnterResult("normal")
  <2>1. ~Stuck /\ UNCHANGED <<drive, mediaVars>>
    BY <1>2 DEF Stuck, EnterResult
  <2> QED
    BY <1>1, <1>2, <2>1, Idles DEF EnterResult
<1>3. CASE \/ pending = "format" /\ Goto("FORMAT_INPUT")
           \/ pending = "none" /\ Goto("PREPARE_COUNT")
           \/ pending \in {"read", "write"} /\ ~terminated /\ Goto("PREPARE_COUNT")
  <2>1. /\ fdc_state' = IF pending = "format" THEN "FORMAT_INPUT"
                        ELSE "PREPARE_COUNT"
        /\ pending \in {"read", "write"} => ~terminated
        /\ UNCHANGED <<pending, drive, loc, logical, sd_sector, fifo,
                       format_counter, terminated, dma_left, goal, mediaVars,
                       steady, completed>>
    BY <1>3 DEF Goto, historyVars
  <2>2. Apart /\ Between /\ (pending \in {"read", "write"} => Held = 0 /\ Held' = 0)
    BY <1>1, <2>1 DEF Apart, Stays, Stuck, Between, Held
  <2>3. /\ UNCHANGED <<bstate, fd_is_wr>> /\ CarryInv' /\ FloppyInPlace'
        /\ LinkInv' /\ CountInv' /\ WrittenInv' /\ CompletedWritesAreStored'
        /\ SteadyInv'
    BY <2>1, <2>2, Unserved
  <2>4. OrderInv' /\ ReadsOnly'
    BY <1>1, <2>1, <2>3 DEF FdInv, CommandInv, OrderInv, ReadsOnly, Preparing,
       Ending
  <2>5. AimInv' /\ FillInv' /\ ReadDataInPlace'
    BY <2>1 DEF AimInv, FillInv, Filling, ReadDataInPlace
  <2>6. WalkInv'
    <3>1. SUFFICES ASSUME pending \in {"read", "write"} PROVE WalkInv'
      BY <2>1 DEF WalkInv
    <3>2. PICK n \in Nat : Walks(loc, goal, n) /\ dma_left + Held <= BlockBytes * n
      BY <3>1 DEF FdInv, CommandInv, WalkInv
    <3>3. dma_left > 0 /\ (terminated <=> dma_left = 0)
      BY <2>1, <3>1, FdTypes DEF FdInv, CommandInv, WalkInv
    <3>4. n > 0
      BY <2>2, <3>1, <3>2, <3>3, FdTypes, Multiples
    <3> QED
      BY <2>1, <2>2, <3>1, <3>2, <3>3, <3>4 DEF WalkInv, Walks
  <2> QED
    BY <2>3, <2>4, <2>5, <2>6 DEF FdInv, CommandInv
<1> QED
  BY <1>2, <1>3 DEF CheckTc

LEMMA WaitEnds ==
  ASSUME Inv, FdInv, FdcAlone, UNCHANGED historyVars, WaitOver
  PROVE  FdInv'
<1>1. /\ fdc_state = "WAIT" /\ fdc_state' = "CHECK_TC"
      /\ UNCHANGED <<pending, drive, loc, logical, sd_sector, fifo,
                     format_counter, terminated, dma_left, goal, mediaVars,
                     steady, completed>>
  BY DEF WaitOver, Goto, historyVars
<1>2. Apart /\ Between /\ Between' /\ (pending \in {"read", "write"} => Held' = Held)
  BY <1>1 DEF Apart, Stays, Stuck, Waiting, Between, Held
<1>3. /\ UNCHANGED <<bstate, fd_is_wr>> /\ CarryInv' /\ FloppyInPlace'
      /\ LinkInv' /\ CountInv' /\ WrittenInv' /\ CompletedWritesAreStored'
      /\ SteadyInv'
  BY <1>1, <1>2, Unserved
<1>4. OrderInv' /\ ReadsOnly'
  BY <1>1, <1>3 DEF FdInv, CommandInv, OrderInv, ReadsOnly, Preparing, Ending
<1>5. WalkInv'
  BY <1>1, <1>2 DEF FdInv, CommandInv, WalkInv, Walks
<1>6. AimInv' /\ FillInv' /\ ReadDataInPlace'
  BY <1>1 DEF AimInv, FillInv, Filling, ReadDataInPlace
<1> QED
  BY <1>3, <1>4, <1>5, <1>6 DEF FdInv, CommandInv

(* The steps of a format that place no byte.                               *)
LEMMA FormatMoves ==
  ASSUME Inv, FdInv, FdcAlone, UNCHANGED historyVars,
         fdc_state = "FORMAT_INPUT", fdc_state' \in {"FORMAT_INPUT", "PREPARE_COUNT"},
         pending = "format", pending' = "format",
         UNCHANGED <<drive, fifo, format_counter, mediaVars>>
  PROVE  FdInv'
<1>1. Apart /\ UNCHANGED <<steady, completed>>
  BY DEF Apart, Stays, Stuck, Waiting, historyVars
<1>2. /\ UNCHANGED <<bstate, fd_is_wr>> /\ CarryInv' /\ FloppyInPlace'
      /\ LinkInv' /\ CountInv' /\ WrittenInv' /\ CompletedWritesAreStored'
      /\ SteadyInv'
  BY <1>1, Unserved
<1>3. OrderInv' /\ ReadsOnly'
  BY <1>1, <1>2 DEF FdInv, CommandInv, OrderInv, ReadsOnly, Preparing
<1>4. WalkInv' /\ AimInv' /\ FillInv' /\ ReadDataInPlace'
  BY DEF WalkInv, AimInv, FillInv, ReadDataInPlace
<1> QED
  BY <1>2, <1>3, <1>4 DEF FdInv, CommandInv

LEMMA ControllerSteps ==
  ASSUME Inv, Inv', FdInv, FdcStep \/ Dma
  PROVE  FdInv'
<1>1. FdcAlone /\ UNCHANGED historyVars
  BY DEF FdcStep, Dma
<1>2. CASE FdcStep
  <2>1. CASE FormatInputEnds
    <3>1. /\ fdc_state = "FORMAT_INPUT" /\ EnterResult("abnormal") /\ ~Waiting
          /\ ~Stuck /\ UNCHANGED <<drive, mediaVars>>
      BY <2>1 DEF FormatInputEnds, Waiting, Stuck, EnterResult
    <3> QED
      BY <1>1, <3>1, Idles DEF EnterResult
  <2> QED
    BY <1>1, <1>2, <2>1, PrepareCounts, CountsLogical, Prepared, Controls, Padded,
       Checked, WaitEnds DEF FdcStep
<1>3. CASE Dma
  <2>1. CASE FormatShortId
    BY <1>1, <2>1, FormatMoves DEF FormatShortId
  <2>2. ASSUME NEW c \in 0 .. Cylinders - 1,
               FormatId(c, SectorsPerTrack - dma_left + 1)
        PROVE  FdInv'
    BY <1>1, <2>2, FormatMoves DEF FormatId
  <2> QED
    BY <1>1, <1>3, <2>1, <2>2, PcWrites, PcReads DEF Dma
<1> QED
  BY <1>2, <1>3

(* The controller is done with a sector and takes a write for written.     *)
LEMMA SectorDone ==
  ASSUME Known, FdInv, FdcWrote
  PROVE  FdInv'
<1>1. /\ fdc_state = "UPDATE_SECTOR" /\ fdc_state' = "WAIT"
      /\ loc' = NextLocation /\ goal' = goal + 1 /\ FdcAlone
      /\ completed' = IF pending = "write" /\ steady
                      THEN completed \cup {<<drive, goal>>} ELSE completed
      /\ UNCHANGED <<pending, drive, logical, sd_sector, fifo, format_counter,
                     terminated, dma_left, mediaVars, steady>>
  BY DEF FdcWrote, UpdateSector
<1>2. Inv /\ Apart /\ ~Between /\ Between'
  BY <1>1 DEF Known, Apart, Stays, Stuck, Waiting, Between
<1>3. UNCHANGED bridgeSide /\ UNCHANGED <<bstate, fd_is_wr>>
  BY <1>1, BridgeAlone DEF bridgeSide
<1>4. CarryInv' /\ FloppyInPlace' /\ LinkInv' /\ CountInv'
  BY <1>2, <1>3, BytesStay, LinkStays DEF Apart
<1>5. /\ UNCHANGED <<fd_pend, fd_wait, media_present, media_wp, ack, blk_err,
                     blk_drv, fd_drv, fd_lba>>
      /\ \A r : BlockFor(r)' <=> BlockFor(r)
  BY <1>1, <1>3 DEF bridgeSide, mediaVars, BlockFor, InBlock
<1>6. ASSUME pending = "write", steady
      PROVE  /\ Settled(drive) /\ ~media_wp[drive] /\ goal < TotalSectors
             /\ Safe(drive, goal)
  <2>1. goal < TotalSectors
    BY <1>2, <1>6, AtWork DEF FdInv, CommandInv
  <2> QED
    BY <1>1, <1>6, <2>1 DEF FdInv, SteadyInv, WrittenInv
<1>7. SteadyInv'
  <2>1. ASSUME NEW w \in completed'
        PROVE  Settled(w[1]) /\ ~media_wp[w[1]] /\ w[2] < TotalSectors
    BY <1>1, <1>6, <2>1 DEF FdInv, SteadyInv
  <2> QED
    BY <1>1, <1>5, <2>1 DEF FdInv, SteadyInv, Settled
<1>8. CompletedWritesAreStored'
  <2>1. ASSUME NEW w \in completed'
        PROVE  Safe(w[1], w[2])
    BY <1>1, <1>6, <2>1 DEF FdInv, CompletedWritesAreStored, Safe, OnDisk
  <2>2. ASSUME NEW w \in completed'
        PROVE  Safe(w[1], w[2])'
    BY <1>3, <2>1, <2>2, InHandKept
  <2> QED
    BY <2>2 DEF CompletedWritesAreStored, Safe, OnDisk
<1>9. WrittenInv'
  BY <1>1, <1>3, <1>5, InHandKept DEF FdInv, WrittenInv
<1>10. OrderInv'
  BY <1>1, <1>3 DEF FdInv, CommandInv, OrderInv, Preparing, Ending
<1>11. ReadsOnly'
  BY <1>1, <1>3 DEF FdInv, CommandInv, ReadsOnly
<1>12. AimInv' /\ FillInv' /\ ReadDataInPlace'
  BY <1>1 DEF AimInv, FillInv, Filling, ReadDataInPlace
<1>13. WalkInv'
  <2>1. SUFFICES ASSUME pending \in {"read", "write"} PROVE WalkInv'
    BY <1>1 DEF WalkInv
  <2>2. PICK n \in Nat : /\ Walks(loc, goal, n) /\ dma_left + Held <= BlockBytes * n
                         /\ n > 0
    BY <1>2, <2>1 DEF FdInv, CommandInv, WalkInv
  <2>3. Held = BlockBytes /\ Held' = 0
    BY <1>1 DEF Held
  <2>4. n - 1 \in Nat /\ Walks(loc', goal', n - 1)
    BY <1>1, <1>2, <2>2, WalkOn
  <2>5. dma_left' + Held' <= BlockBytes * (n - 1)
    BY <1>1, <1>2, <2>2, <2>3, Multiples, FdTypes, Sizes
  <2>6. (terminated <=> dma_left = 0)'
    BY <1>1, <2>1 DEF FdInv, CommandInv, WalkInv
  <2>7. Walks(loc, goal, n - 1)'
    BY <2>4 DEF Walks
  <2> QED
    BY <1>2, <2>4, <2>5, <2>6, <2>7 DEF WalkInv
<1> QED
  BY <1>4, <1>7, <1>8, <1>9, <1>10, <1>11, <1>12, <1>13 DEF FdInv, CommandInv

-----------------------------------------------------------------------------
(* The PC's commands and the resets.                                       *)

fdcSide == <<fdc_state, pending, drive, loc, logical, sd_sector, fifo,
             format_counter, terminated, dma_left, goal, steady, completed>>
blockSide == <<bstate, seq_ret, blk_drv, blk_lba, xzero, xcnt, fd_is_wr, fd_drv,
               fd_lba, fd_dead, fd_blk_wr, fd_pend, fd_wait, fd_mounted, ack,
               copying, blk_err, buf, disk>>

(* Nothing of the floppies' moves.                                         *)
LEMMA FdUnmoved ==
  ASSUME Inv, FdInv, UNCHANGED <<fdcSide, mediaVars, blockSide>>,
         \A d \in Floppies : slot'[d] = slot[d]
  PROVE  FdInv'
<1>1. /\ Stays
      /\ UNCHANGED <<fdc_state, pending, drive, loc, logical, sd_sector, fifo,
                     format_counter, terminated, dma_left, mediaVars, goal,
                     steady, completed>>
  BY DEF fdcSide, Stays, Stuck
<1>2. /\ UNCHANGED <<bstate, fd_is_wr, fd_drv, fd_lba, xcnt, xzero, buf, blk_lba,
                     blk_drv, ack, copying, blk_err, disk, fd_dead, fd_blk_wr,
                     fd_pend, fd_wait, fd_mounted>>
      /\ \A r : BlockFor(r)' <=> BlockFor(r)
      /\ slot'[fd_drv] = slot[fd_drv] /\ slot'[drive] = slot[drive]
  BY FdTypes DEF blockSide, BlockFor, InBlock
<1>3. CarryInv' /\ FloppyInPlace'
  BY <1>1, <1>2, GoodKept DEF FdInv, CarryInv, FloppyInPlace, Internal
<1>4. OrderInv' /\ ReadsOnly' /\ FillInv' /\ AimInv' /\ ReadDataInPlace'
  BY <1>1, <1>2 DEF FdInv, CommandInv, OrderInv, ReadsOnly, FillInv, AimInv,
     ReadDataInPlace
<1>5. WalkInv'
  BY <1>1, <1>2 DEF FdInv, CommandInv, WalkInv, Walks, Held, Between
<1>6. SteadyInv'
  BY <1>1, <1>2 DEF FdInv, SteadyInv, Settled, mediaVars
<1>7. LinkInv' /\ CountInv'
  <2>1. /\ (Sending' <=> Sending) /\ (Draining' <=> Draining)
        /\ (ToDrain' <=> ToDrain) /\ (Requesting' <=> Requesting)
        /\ (ReadRequest' <=> ReadRequest) /\ (WriteRequest' <=> WriteRequest)
    BY <1>1, <1>2 DEF Sending, Draining, ToDrain, Requesting, ReadRequest,
       WriteRequest, Waiting, Offered, Sent
  <2>2. \A b, d, l, i : Written(b, d, l, i) => Written(b, d, l, i)'
    BY <1>1, <1>2, GoodKept
  <2> QED
    BY <1>1, <1>2, <2>1, <2>2 DEF FdInv, LinkInv, CountInv
<1>8. \A d \in Floppies : \A l :
        /\ OnDisk(d, l)' <=> OnDisk(d, l)
        /\ HasSector(d, l)' <=> HasSector(d, l)
        /\ InHand(d, l)' <=> InHand(d, l)
        /\ Safe(d, l)' <=> Safe(d, l)
  BY <1>2 DEF OnDisk, HasSector, InHand, Safe
<1>9. WrittenInv'
  BY <1>1, <1>2, <1>8, FdTypes DEF FdInv, WrittenInv
<1>10. CompletedWritesAreStored'
  <2>1. \A w \in completed : w[1] \in Floppies
    BY FdTypes
  <2> QED
    BY <1>1, <1>2, <1>8, <2>1 DEF FdInv, CompletedWritesAreStored, OnDisk
<1> QED
  BY <1>3, <1>4, <1>5, <1>6, <1>7, <1>9, <1>10 DEF FdInv, CommandInv

LEMMA Answered == ASSUME Inv, FdInv, Result PROVE FdInv'
<1>1. /\ UNCHANGED bridgeSide
      /\ UNCHANGED <<fdc_state, pending, drive, loc, logical, sd_sector, fifo,
                     format_counter, terminated, dma_left, mediaVars, goal,
                     steady, completed>>
  BY BridgeAlone DEF Result, ReadResult, historyVars
<1> QED
  BY <1>1, FdUnmoved DEF fdcSide, blockSide, bridgeSide

(* The PC's ATA driver, and a mount in the hard disk's slot.               *)
LEMMA AtaSide ==
  ASSUME Inv, FdInv,
         \/ IdeStart \/ IdeTransfer \/ IdeSrst \/ UNCHANGED vars
         \/ \E m \in HdMounts : MountHardDisk(m)
  PROVE  FdInv'
<1>1. CASE IdeStart \/ IdeTransfer \/ IdeSrst
  <2>1. IdeAlone
    BY <1>1 DEF IdeStart, IdeTransfer, IdeSrst
  <2>2. UNCHANGED <<fdcSide, mediaVars>>
    BY <2>1 DEF IdeAlone, fdcVars, mediaVars, fdcSide
  <2>3. UNCHANGED blockSide /\ slot' = slot
    BY <2>1 DEF IdeAlone, BridgeRests, portVars, streamVars, fdVars, fdMountVars,
       serviceVars, blockSide
  <2> QED
    BY <2>2, <2>3, FdUnmoved
<1>2. CASE UNCHANGED vars
  <2>1. UNCHANGED <<fdcSide, mediaVars>>
    BY <1>2 DEF vars, fdcVars, mediaVars, fdcSide, historyVars
  <2>2. UNCHANGED blockSide /\ slot' = slot
    BY <1>2 DEF vars, bridgeVars, portVars, streamVars, fdVars, fdMountVars,
       serviceVars, blockSide
  <2> QED
    BY <2>1, <2>2, FdUnmoved
<1>3. ASSUME NEW m \in HdMounts, MountHardDisk(m)
      PROVE  FdInv'
  <2>1. /\ slot' = [slot EXCEPT ![HardDisk] = m.img]
        /\ blk_err' = (blk_err /\ ~Internal(HardDisk))
    BY <1>3 DEF MountHardDisk, Mount
  <2>2. blk_err' = blk_err /\ \A d \in Floppies : slot'[d] = slot[d]
    <3>1. ~Internal(HardDisk) /\ blk_err \in BOOLEAN
      BY Drives, FdTypes
    <3> QED
      BY <2>1, <3>1, Drives
  <2>3. UNCHANGED <<fdcSide, mediaVars>>
    BY <1>3 DEF MountHardDisk, fdcVars, mediaVars, fdcSide
  <2>4. UNCHANGED blockSide
    BY <1>3, <2>2 DEF MountHardDisk, Mount, HdStrobe, portVars, streamVars, fdVars,
       fdMountVars, blockSide
  <2> QED
    BY <2>2, <2>3, <2>4, FdUnmoved
<1> QED
  BY <1>1, <1>2, <1>3

(* The bridge is at no request's work when a command starts: the PC takes  *)
(* longer over its bytes than the bridge over a bus cycle or a stream.     *)
LEMMA Starting ==
  ASSUME Inv, FdInv, Orderly, NEW cmd \in FdcCommands, StartCommand(cmd)
  PROVE  /\ fdc_state = "IDLE" /\ pending = "none" /\ fifo = <<>> /\ ~terminated
         /\ UNCHANGED bridgeSide /\ UNCHANGED <<fd_is_wr, completed, mediaVars, fifo,
                                                terminated>>
         /\ drive' = cmd.drv
         /\ steady' = ~(fd_pend[cmd.drv] \/ fd_wait[cmd.drv])
         /\ \/ fdc_state' = "IDLE" /\ pending' = "none"
            \/ StartAccepted(cmd)
         /\ CarryInv' /\ FloppyInPlace' /\ LinkInv' /\ CountInv'
         /\ WrittenInv' /\ CompletedWritesAreStored'
<1>1. /\ StartHangs(cmd) \/ StartRejected(cmd) \/ StartAccepted(cmd)
      /\ ~OnTheBus /\ ~Streaming /\ FdcAlone /\ UNCHANGED completed
      /\ steady' = ~(fd_pend[cmd.drv] \/ fd_wait[cmd.drv])
  BY DEF StartCommand, Orderly
<1>2. /\ fdc_state = "IDLE" /\ drive' = cmd.drv
      /\ UNCHANGED <<fifo, terminated, format_counter, mediaVars>>
      /\ \/ UNCHANGED <<fdc_state, pending>>
         \/ StartAccepted(cmd)
  BY <1>1 DEF StartHangs, StartRejected, StartAccepted, CanStart
<1>3. pending = "none" /\ fifo = <<>> /\ ~terminated
  BY <1>2 DEF FdInv, CommandInv, OrderInv
<1>4. fdc_state' \in {"IDLE", "FORMAT_INPUT", "PREPARE_COUNT"}
  BY <1>2 DEF StartAccepted
<1>5. UNCHANGED bridgeSide /\ fd_is_wr' = fd_is_wr
  BY <1>1, BridgeAlone DEF bridgeSide
<1>6. Apart
  BY <1>1, <1>2 DEF Apart, Stays, Stuck, OnTheBus, Streaming
<1>7. CarryInv' /\ FloppyInPlace' /\ LinkInv' /\ CountInv'
  <2>1. bstate' = bstate /\ xcnt' = xcnt
        /\ bstate \notin {"FDD_REQ", "FDD_DISPATCH", "TX", "RX"}
    BY <1>1, <1>5 DEF bridgeSide, OnTheBus, Streaming
  <2>2. LinkInv' /\ CountInv'
    BY <1>2, <2>1 DEF FdInv, LinkInv, CountInv
  <2> QED
    BY <1>5, <1>6, <2>2, BytesStay DEF Apart
<1>8. WrittenInv' /\ CompletedWritesAreStored'
  BY <1>1, <1>4, <1>5, OutcomeStays
<1> QED
  BY <1>1, <1>2, <1>3, <1>5, <1>7, <1>8

LEMMA NotAccepted ==
  ASSUME Inv, FdInv, Orderly, NEW cmd \in FdcCommands, StartCommand(cmd),
         fdc_state' = "IDLE", pending' = "none"
  PROVE  FdInv'
<1>1. /\ fifo' = <<>> /\ ~terminated' /\ UNCHANGED bridgeSide
      /\ UNCHANGED <<fd_is_wr, completed, mediaVars>>
      /\ CarryInv' /\ FloppyInPlace' /\ LinkInv' /\ CountInv'
      /\ WrittenInv' /\ CompletedWritesAreStored'
  BY Starting
<1>2. OrderInv' /\ ReadsOnly'
  BY <1>1 DEF FdInv, CommandInv, OrderInv, ReadsOnly
<1>3. SteadyInv'
  BY <1>1 DEF FdInv, SteadyInv, Settled, bridgeSide, mediaVars
<1>4. WalkInv' /\ AimInv' /\ FillInv' /\ ReadDataInPlace'
  BY DEF WalkInv, AimInv, FillInv, ReadDataInPlace
<1> QED
  BY <1>1, <1>2, <1>3, <1>4 DEF FdInv, CommandInv

(* A command that the controller accepts walks over sectors of the medium. *)
LEMMA Accepted ==
  ASSUME Inv, Orderly, NEW cmd \in FdcCommands, StartAccepted(cmd),
         cmd.op \in {"read", "write"}
  PROVE  \E n \in Nat : /\ n > 0 /\ cmd.count <= BlockBytes * n
                        /\ Walks(loc', goal', n)
<1> DEFINE T == SectorsPerTrack
<1> DEFINE g == Lba(cmd.c, cmd.h, cmd.r)
<1>1. /\ cmd.c \in Nat /\ cmd.h \in {0, 1} /\ cmd.r \in Nat \ {0}
      /\ cmd.eot \in Nat /\ cmd.mt \in BOOLEAN /\ cmd.count \in Nat \ {0}
  BY ScenarioAssumption DEF FdcCommand
<1>2. /\ cmd.c < Cylinders /\ ~(cmd.h = 1 /\ Heads = 1)
      /\ cmd.r <= T /\ cmd.r <= cmd.eot
  BY <1>1, Sizes DEF StartAccepted, Hangs, BadHead, BadSector
<1>3. /\ loc' = [c |-> cmd.c, h |-> cmd.h, s |-> cmd.r, eot |-> cmd.eot,
                 mt |-> cmd.mt]
      /\ goal' = g
  BY DEF StartAccepted
<1>4. g \in Nat /\ g + T - cmd.r < TotalSectors /\ g < TotalSectors
  <2>1. cmd.h < Heads
    BY <1>1, <1>2, Sizes
  <2>2. Lba(cmd.c, cmd.h, T) < TotalSectors
    BY <1>1, <1>2, <2>1, LbaBounds
  <2>3. (cmd.c * Heads + cmd.h) * T \in Nat
    BY <1>1, Sizes, ProductNat
  <2>4. Lba(cmd.c, cmd.h, T) = g + T - cmd.r /\ g \in Nat
    <3> DEFINE b == (cmd.c * Heads + cmd.h) * T
    <3>1. \A a, t \in Nat, r \in Nat \ {0} :
            a + t - 1 = a + r - 1 + t - r /\ a + r - 1 \in Nat
      OBVIOUS
    <3>2. b \in Nat /\ T \in Nat /\ cmd.r \in Nat \ {0}
      BY <1>1, <2>3, Sizes
    <3>3. Lba(cmd.c, cmd.h, T) = b + T - 1 /\ g = b + cmd.r - 1
      BY DEF Lba
    <3> HIDE DEF b, g
    <3> QED
      BY <3>1, <3>2, <3>3
  <2> QED
    BY <1>1, <1>2, <2>2, <2>4, Sizes
<1>5. OnOneTrack(cmd) \/ OnMedium(cmd)
  BY <1>1, <1>2, Sizes DEF Orderly, Misaddressed
<1>6. CASE OnOneTrack(cmd)
  <2> DEFINE n == IF cmd.eot <= T THEN cmd.eot - cmd.r + 1 ELSE T - cmd.r + 1
  <2>1. n \in Nat /\ n > 0 /\ cmd.r + n - 1 <= cmd.eot /\ cmd.r + n - 1 <= T
    BY <1>1, <1>2, Sizes
  <2>2. cmd.count <= BlockBytes * n
    BY <1>6 DEF OnOneTrack
  <2>3. g + n <= TotalSectors
    BY <1>1, <1>2, <1>4, <2>1, Sizes
  <2>4. Walks(loc', goal', n)
    BY <1>1, <1>2, <1>3, <2>1, <2>3 DEF Walks
  <2> QED
    BY <2>1, <2>2, <2>4
<1>7. CASE OnMedium(cmd)
  <2> DEFINE n == TotalSectors - g
  <2>1. n \in Nat /\ n > 0 /\ g + n <= TotalSectors
    BY <1>4, Sizes
  <2>2. cmd.count <= BlockBytes * n /\ cmd.mt /\ Heads = 2 /\ cmd.eot >= T
    BY <1>7 DEF OnMedium
  <2>3. Walks(loc', goal', n)
    BY <1>1, <1>2, <1>3, <2>1, <2>2 DEF Walks
  <2> QED
    BY <2>1, <2>2, <2>3
<1> QED
  BY <1>5, <1>6, <1>7

LEMMA CommandAccepted ==
  ASSUME Inv, FdInv, Orderly, NEW cmd \in FdcCommands, StartCommand(cmd),
         StartAccepted(cmd)
  PROVE  FdInv'
<1>1. /\ fifo' = <<>> /\ Len(fifo') = 0 /\ ~terminated' /\ UNCHANGED bridgeSide
      /\ UNCHANGED <<fd_is_wr, completed, mediaVars>> /\ drive' = cmd.drv
      /\ steady' = ~(fd_pend[cmd.drv] \/ fd_wait[cmd.drv])
      /\ CarryInv' /\ FloppyInPlace' /\ LinkInv' /\ CountInv'
      /\ WrittenInv' /\ CompletedWritesAreStored'
  BY Starting
<1>2. /\ pending' = cmd.op /\ dma_left' = cmd.count /\ ~Hangs(cmd)
      /\ ~BadSector(cmd) /\ ~Protected(cmd)
      /\ IF cmd.op = "format" THEN fdc_state' = "FORMAT_INPUT"
                              ELSE fdc_state' = "PREPARE_COUNT"
  BY DEF StartAccepted
<1>3. /\ cmd.op \in Commands /\ cmd.count \in Nat \ {0}
      /\ Disruptive => cmd.op = "read"
  BY ScenarioAssumption DEF FdcCommand, Orderly
<1>4. OrderInv' /\ ReadsOnly'
  BY <1>1, <1>2, <1>3 DEF FdInv, CommandInv, OrderInv, ReadsOnly, Commands,
     Preparing, Ending
<1>5. SteadyInv'
  <2>1. media_present[cmd.drv] /\ (cmd.op # "read" => ~media_wp[cmd.drv])
    BY <1>2 DEF Hangs, Protected
  <2>2. UNCHANGED <<fd_pend, fd_wait, media_present, media_wp>>
    BY <1>1 DEF bridgeSide, mediaVars
  <2> QED
    BY <1>1, <1>2, <2>1, <2>2 DEF FdInv, SteadyInv, Settled
<1>6. AimInv' /\ FillInv' /\ ReadDataInPlace'
  BY <1>2 DEF AimInv, FillInv, Filling, ReadDataInPlace
<1>7. WalkInv'
  <2>1. SUFFICES ASSUME cmd.op \in {"read", "write"} PROVE WalkInv'
    BY <1>2 DEF WalkInv
  <2>2. PICK n \in Nat : /\ n > 0 /\ cmd.count <= BlockBytes * n
                         /\ Walks(loc', goal', n)
    BY <2>1, Accepted
  <2>3. Held' = 0 /\ dma_left' # 0
    BY <1>2, <1>3, <2>1 DEF Held
  <2>4. dma_left' + Held' <= BlockBytes * n
    BY <1>2, <1>3, <2>2, <2>3, Sizes
  <2>5. Walks(loc, goal, n)'
    BY <2>2 DEF Walks
  <2> QED
    BY <1>1, <2>2, <2>3, <2>4, <2>5 DEF WalkInv
<1> QED
  BY <1>1, <1>4, <1>5, <1>6, <1>7 DEF FdInv, CommandInv

(* A software reset takes the command away under the bridge's hands.       *)
LEMMA SoftlyReset ==
  ASSUME Inv, FdInv, SoftReset
  PROVE  FdInv'
<1>1. /\ pending' = "none" /\ FdcAlone
      /\ IF fdc_state = "SD_READ"
         THEN /\ fdc_state' = "IDLE" /\ fifo' = <<>> /\ format_counter' = 0
              /\ ~terminated'
         ELSE UNCHANGED <<fdc_state, fifo, format_counter, terminated>>
      /\ UNCHANGED <<sd_sector, mediaVars, goal, steady, completed>>
      /\ ~Disruptive => drive' = drive
  <2>1. PICK d \in Floppies :
          /\ (IF d = drive THEN "fdc" ELSE "select") \in SoftResets
          /\ SwReset(d) /\ FdcAlone /\ UNCHANGED historyVars
    BY DEF SoftReset
  <2> QED
    BY <2>1 DEF SwReset, Abandons, historyVars, Disruptive
<1>2. UNCHANGED bridgeSide
      /\ UNCHANGED <<bstate, fd_is_wr, fd_lba, fd_drv, xcnt, buf, blk_lba>>
  BY <1>1, BridgeAlone DEF bridgeSide
<1>3. Stays
  BY <1>1 DEF Stays, Stuck
<1>4. CarryInv' /\ FloppyInPlace'
  BY <1>2, <1>3, BytesStay
<1>5. bstate = "RX" => fdc_state # "SD_READ"
  BY DEF FdInv, LinkInv, Draining
<1>6. CountInv'
  BY <1>1, <1>2, <1>5 DEF FdInv, CountInv
<1>7. LinkInv'
  <2>1. bstate = "FDD_DISPATCH" /\ fd_is_wr => (ToDrain \/ fdc_state = "FORMAT_FILL")'
    BY <1>1, <1>2 DEF FdInv, LinkInv, ToDrain, CommandInv, ReadsOnly
  <2>2. bstate = "RX" => (Draining \/ fdc_state = "FORMAT_FILL")'
    BY <1>1, <1>2, <1>5 DEF FdInv, LinkInv, Draining
  <2>3. \A b, d, l, i : Written(b, d, l, i) => Written(b, d, l, i)'
    BY <1>3 DEF Written, Sent, Stays
  <2> QED
    BY <1>1, <1>2, <2>1, <2>2, <2>3 DEF FdInv, LinkInv
<1>8. OrderInv' /\ ReadsOnly'
  BY <1>1, <1>2 DEF FdInv, CommandInv, OrderInv, ReadsOnly
<1>9. WalkInv' /\ AimInv' /\ FillInv' /\ ReadDataInPlace'
  BY <1>1 DEF WalkInv, AimInv, FillInv, ReadDataInPlace
<1>10. SteadyInv'
  BY <1>1, <1>2 DEF FdInv, SteadyInv, Settled, bridgeSide, mediaVars
<1>11. WrittenInv' /\ CompletedWritesAreStored'
  BY <1>1, <1>2, OutcomeStays
<1> QED
  BY <1>4, <1>6, <1>7, <1>8, <1>9, <1>10, <1>11 DEF FdInv, CommandInv

LEMMA ButtonPressed ==
  ASSUME Inv, FdInv, ResetButton
  PROVE  FdInv'
<1>1. /\ Disruptive /\ fdc_state' = "IDLE" /\ pending' = "none"
      /\ fifo' = <<>> /\ format_counter' = 0 /\ ~terminated' /\ ~steady'
      /\ UNCHANGED <<mediaVars, completed>>
  BY DEF ResetButton, HardReset, Disruptive
<1>2. UNCHANGED bridgeSide /\ UNCHANGED <<bstate, fd_is_wr, xcnt>>
  BY DEF ResetButton, BridgeRests, portVars, streamVars, fdVars, fdMountVars,
     serviceVars, bridgeSide
<1>3. ~fd_is_wr
  BY <1>1 DEF FdInv, CommandInv, ReadsOnly
<1>4. Stays
  BY <1>1 DEF Stays, Stuck
<1>5. CarryInv' /\ FloppyInPlace'
  BY <1>2, <1>4, BytesStay
<1>6. LinkInv' /\ CountInv'
  BY <1>1, <1>2, <1>3 DEF FdInv, LinkInv, CountInv
<1>7. OrderInv' /\ ReadsOnly'
  BY <1>1, <1>2 DEF FdInv, CommandInv, OrderInv, ReadsOnly
<1>8. WalkInv' /\ AimInv' /\ FillInv' /\ ReadDataInPlace'
  BY <1>1 DEF WalkInv, AimInv, FillInv, ReadDataInPlace
<1>9. SteadyInv'
  BY <1>1, <1>2 DEF FdInv, SteadyInv, Settled, bridgeSide, mediaVars
<1>10. WrittenInv' /\ CompletedWritesAreStored'
  BY <1>1, <1>2, OutcomeStays
<1> QED
  BY <1>5, <1>6, <1>7, <1>8, <1>9, <1>10 DEF FdInv, CommandInv

-----------------------------------------------------------------------------
(* The bridge.                                                             *)

AtFloppy ==
  \/ bstate \in {"FDD_REQ", "FDD_DISPATCH", "FDD_RD_CHK", "FDD_WR_STORE", "TX", "RX"}
  \/ BlockFor("FDD_RD_TX") \/ BlockFor("IDLE")

(* The controller stays, and the bridge takes no byte from it or to it.    *)
LEMMA CommandStays ==
  ASSUME FdInv, UNCHANGED <<fdcSide, slot>>, bstate \notin {"TX", "RX"},
         Disruptive => ~fd_is_wr'
  PROVE  CommandInv' /\ ReadDataInPlace' /\ Stays /\ (bstate' # "RX" => CountInv')
<1>1. UNCHANGED <<fdc_state, pending, drive, loc, logical, sd_sector, fifo,
                  format_counter, terminated, dma_left, goal, steady, completed>>
  BY DEF fdcSide
<1>2. Stays
  BY <1>1 DEF Stays, Stuck
<1>3. OrderInv' /\ ReadsOnly' /\ FillInv' /\ AimInv'
  BY <1>1 DEF FdInv, CommandInv, OrderInv, ReadsOnly, FillInv, AimInv
<1>4. WalkInv'
  BY <1>1 DEF FdInv, CommandInv, WalkInv, Walks, Held, Between
<1>5. ReadDataInPlace' /\ (bstate' # "RX" => CountInv')
  BY <1>1 DEF FdInv, ReadDataInPlace, CountInv
<1> QED
  BY <1>2, <1>3, <1>4, <1>5 DEF CommandInv

LEMMA FdcStays ==
  ASSUME UNCHANGED <<fdcVars, historyVars>>
  PROVE  UNCHANGED <<fdcSide, mediaVars>>
BY DEF fdcVars, historyVars, fdcSide, mediaVars

LEMMA MediaStay ==
  ASSUME FdInv, UNCHANGED <<fdcSide, mediaVars, fd_pend, fd_wait>>
  PROVE  SteadyInv'
BY DEF FdInv, SteadyInv, Settled, fdcSide, mediaVars

LEMMA FloppySlots ==
  ASSUME Known, NEW d \in Floppies
  PROVE  slot[d] \in FloppyImages \cup {NoImage} /\ slot[d] \notin HdImages
<1>1. slot[d] \in FloppyImages \cup {NoImage}
  BY DEF Known, HdInv, SlotInv
<1> QED
  BY <1>1, ImagesAssumption

(* A sector that the PC takes for written is one its drive can take.       *)
LEMMA TakenIsWritable ==
  ASSUME Known, FdInv, NEW d \in Floppies, NEW l,
         \/ <<d, l>> \in completed
         \/ /\ fdc_state = "UPDATE_SECTOR" /\ pending = "write" /\ steady
            /\ d = drive /\ l = goal
  PROVE  /\ Mounted(d) /\ FdOk(d, l, Mounted(d)) /\ ~fd_ro[d]
         /\ HasSector(d, l)
<1>1. Settled(d) /\ ~media_wp[d]
  BY DEF FdInv, SteadyInv
<1>2. l < TotalSectors /\ l \in Nat
  <2>1. CASE <<d, l>> \in completed
    BY <2>1, FdTypes DEF FdInv, SteadyInv, Known
  <2>2. CASE /\ fdc_state = "UPDATE_SECTOR" /\ pending = "write" /\ l = goal
    BY <2>2, AtWork, FdTypes DEF FdInv, CommandInv, Known, Between
  <2> QED
    BY <2>1, <2>2
<1>3. Mounted(d) /\ fd_mounted[d] /\ ~fd_ro[d]
  BY <1>1, FdTypes DEF Settled, Known, MediaAgrees
<1>4. slot[d] \in FloppyImages /\ slot[d] \in Images /\ slot[d] \notin HdImages
  BY <1>3, FloppySlots DEF Mounted, Images
<1>5. HasSector(d, l)
  BY <1>2, <1>4, Sizes DEF HasSector, DiskSectors, Sectors
<1> QED
  BY <1>2, <1>3, <1>5 DEF FdOk

LEMMA SafeStays ==
  ASSUME Known, FdInv, UNCHANGED fdcSide,
         \A d \in Floppies : \A l : HasSector(d, l) /\ Safe(d, l) => Safe(d, l)'
  PROVE  /\ CompletedWritesAreStored'
         /\ fdc_state' = "UPDATE_SECTOR" /\ pending' = "write" /\ steady' =>
              Safe(drive, goal)'
<1>1. UNCHANGED <<fdc_state, pending, drive, goal, steady, completed>>
  BY DEF fdcSide
<1>2. drive \in Floppies /\ \A w \in completed : w[1] \in Floppies
  BY FdTypes DEF Known
<1>3. fdc_state' = "UPDATE_SECTOR" /\ pending' = "write" /\ steady' =>
        Safe(drive, goal)'
  BY <1>1, <1>2, TakenIsWritable DEF FdInv, WrittenInv
<1>4. ASSUME NEW w \in completed
      PROVE  Safe(w[1], w[2])'
  <2>1. w = <<w[1], w[2]>>
    BY FdTypes DEF Known
  <2>2. Safe(w[1], w[2])
    BY DEF FdInv, CompletedWritesAreStored, Safe, OnDisk
  <2> QED
    BY <1>2, <2>1, <2>2, TakenIsWritable
<1>5. CompletedWritesAreStored'
  BY <1>1, <1>4 DEF CompletedWritesAreStored, Safe, OnDisk
<1> QED
  BY <1>3, <1>5

(* The sectors of the floppies' images.                                    *)
FdDiskKept ==
  \A img \in FloppyImages, l \in 0 .. TotalSectors - 1 :
    disk'[<<img, l>>] = disk[<<img, l>>]

(* The bridge is at no floppy's work, before and after.                    *)
LEMMA FdAbsent ==
  ASSUME Known, FdInv, ~AtFloppy, ~AtFloppy', UNCHANGED fdcSide, FdDiskKept,
         UNCHANGED <<slot, fd_dead, fd_is_wr>>, SteadyInv'
  PROVE  FdInv'
<1>1. CommandInv' /\ ReadDataInPlace' /\ Stays /\ CountInv'
  BY CommandStays DEF AtFloppy, FdInv, CommandInv, ReadsOnly
<1>2. LinkInv' /\ CarryInv' /\ ~BlockFor("IDLE")'
  BY DEF AtFloppy, LinkInv, CarryInv
<1>3. FloppyInPlace'
  BY <1>1 DEF FdInv, FloppyInPlace, Good, Stays, FdDiskKept
<1>4. \A d, l : ~InHand(d, l)
  BY DEF Known, Inv, Handshake, InHand, AtFloppy, BlockFor
<1>5. ASSUME NEW d \in Floppies, NEW l, HasSector(d, l), Safe(d, l)
      PROVE  Safe(d, l)'
  <2>1. slot[d] \in FloppyImages
    BY <1>5, FloppySlots, ImagesAssumption DEF HasSector, DiskSectors, Images
  <2>2. l \in 0 .. TotalSectors - 1
    BY <1>5, <2>1, ImagesAssumption DEF HasSector, DiskSectors, Sectors
  <2> QED
    BY <1>4, <1>5, <2>1, <2>2 DEF Safe, OnDisk, FdDiskKept
<1>6. WrittenInv' /\ CompletedWritesAreStored'
  BY <1>2, <1>5, SafeStays DEF WrittenInv
<1> QED
  BY <1>1, <1>2, <1>3, <1>6 DEF FdInv

LEMMA AtaWork ==
  ASSUME Known, FdInv,
         \/ BridgeMountHd \/ BridgeMountHdDone
         \/ BridgeIdeReset \/ BridgeIdeDispatch \/ BridgeIdeData
         \/ BridgeIdeFetch \/ BridgeIdeSend \/ BridgeIdeStore \/ BridgeIdeStored
         \/ BridgeWaitOver \/ BridgeError
  PROVE  FdInv'
<1>1. /\ UNCHANGED <<fdcVars, historyVars, fd_pend, fd_wait, slot, disk, fd_dead,
                     fd_is_wr>>
  BY DEF BridgeMountHd, BridgeMountHdDone, BridgeIdeReset, BridgeIdeDispatch,
     BridgeIdeData, BridgeIdeFetch, BridgeIdeSend, BridgeIdeStore,
     BridgeIdeStored, BridgeWaitOver, BridgeError, MountHd, MountHdDone, IdeReset,
     IdeDispatch, IdeData, IdeFetch, IdeSendSector, IdeStore, IdeStored,
     FddWaitOver, FddError, WithIde, KeepFdc, serviceVars, fdVars, fdMountVars
<1>2. ~AtFloppy
  BY DEF BridgeMountHd, BridgeMountHdDone, BridgeIdeReset, BridgeIdeDispatch,
     BridgeIdeData, BridgeIdeFetch, BridgeIdeSend, BridgeIdeStore,
     BridgeIdeStored, BridgeWaitOver, BridgeError, MountHd, MountHdDone, IdeReset,
     IdeDispatch, IdeData, IdeFetch, IdeSendSector, IdeStore, IdeStored,
     FddWaitOver, FddError, AtFloppy, BlockFor, InBlock
<1>3. \/ bstate' = "BLK_ACK_HI"
         /\ seq_ret' \in {"IDE_MOUNT_GEO", "IDE_RD_TX", "IDE_STEP"}
      \/ bstate' \in {"IDLE", "IDE_MOUNT_GEO", "IDE_RD_FETCH", "IDE_RD_TX",
                      "IDE_WR_STORE", "IDE_STEP"}
  BY DEF BridgeMountHd, BridgeMountHdDone, BridgeIdeReset, BridgeIdeDispatch,
     BridgeIdeData, BridgeIdeFetch, BridgeIdeSend, BridgeIdeStore,
     BridgeIdeStored, BridgeWaitOver, BridgeError, MountHd, MountHdDone, IdeReset,
     IdeDispatch, IdeData, IdeFetch, IdeSendSector, IdeStore, IdeStored,
     FddWaitOver, FddError, Ask
<1>4. ~AtFloppy'
  BY <1>3 DEF AtFloppy, BlockFor, InBlock
<1>5. SteadyInv' /\ FdDiskKept
  BY <1>1, FdcStays, MediaStay DEF FdDiskKept
<1> QED
  BY <1>1, <1>2, <1>4, <1>5, FdcStays, FdAbsent

(* An eject or an insert is of a drive with no command on a steady disk.   *)
LEMMA MediaChanged ==
  ASSUME Known, FdInv, NEW d \in Floppies, BridgeEject(d) \/ BridgeInsert(d)
  PROVE  FdInv'
<1>1. /\ bstate = "IDLE" /\ bstate' = "IDLE"
      /\ UNCHANGED <<slot, disk, fd_dead, fd_is_wr>>
      /\ UNCHANGED <<fdc_state, pending, drive, loc, logical, sd_sector, fifo,
                     format_counter, terminated, dma_left, goal, steady,
                     completed>>
  BY DEF BridgeEject, BridgeInsert, Eject, Insert, ChangeFdc, MgmtMedia,
     serviceVars, fdVars, historyVars
<1>2. ~AtFloppy /\ ~AtFloppy'
  BY <1>1 DEF AtFloppy, BlockFor, InBlock
<1>3. fd_pend[d] \/ fd_wait[d]
  BY DEF BridgeEject, BridgeInsert, Eject, Insert, EjectDue
<1>4. \A e \in Floppies \ {d} :
        /\ fd_pend'[e] = fd_pend[e] /\ fd_wait'[e] = fd_wait[e]
        /\ media_present'[e] = media_present[e] /\ media_wp'[e] = media_wp[e]
  <2>1. /\ media_present \in [Floppies -> BOOLEAN]
        /\ media_wp \in [Floppies -> BOOLEAN]
        /\ fd_pend \in [Floppies -> BOOLEAN] /\ fd_wait \in [Floppies -> BOOLEAN]
    BY FdTypes DEF Known
  <2> QED
    BY <2>1 DEF BridgeEject, BridgeInsert, Eject, Insert, MgmtMedia
<1>5. SteadyInv'
  <2>1. \A e \in Floppies : Settled(e) => e # d
    BY <1>3 DEF Settled
  <2>2. drive \in Floppies /\ \A w \in completed : w[1] \in Floppies
    BY FdTypes DEF Known
  <2> QED
    BY <1>1, <1>4, <2>1, <2>2 DEF FdInv, SteadyInv, Settled
<1> QED
  BY <1>1, <1>2, <1>5, FdAbsent DEF fdcSide, FdDiskKept

(* The look at the request.                                                *)
LEMMA FdRequested ==
  ASSUME Known, FdInv, BridgeRequest \/ BridgeSampleKind
  PROVE  FdInv'
<1>1. /\ UNCHANGED <<fdcVars, historyVars, fd_pend, fd_wait, slot, disk, fd_dead>>
      /\ bstate \in {"IDLE", "FDD_REQ"} /\ bstate' \in {"FDD_REQ", "FDD_DISPATCH"}
      /\ bstate' = "FDD_REQ" => Requesting /\ fd_is_wr' = fd_is_wr
      /\ bstate' = "FDD_DISPATCH" => bstate = "FDD_REQ" /\ fd_is_wr' = WriteRequest
  BY DEF BridgeRequest, BridgeSampleKind, FddRequest, FddSampleKind, KeepFdc,
     serviceVars, fdVars, fdMountVars
<1>2. UNCHANGED <<fdc_state, pending, drive, sd_sector, fifo, goal, steady,
                  completed>> /\ UNCHANGED <<fdcSide, mediaVars>>
  BY <1>1, FdcStays DEF fdcSide
<1>3. Disruptive => ~fd_is_wr'
  BY <1>1 DEF FdInv, CommandInv, ReadsOnly, WriteRequest
<1>4. CommandInv' /\ ReadDataInPlace' /\ Stays /\ CountInv' /\ SteadyInv'
  BY <1>1, <1>2, <1>3, CommandStays, MediaStay
<1>5. \A r : ~BlockFor(r) /\ ~BlockFor(r)'
  BY <1>1 DEF BlockFor, InBlock
<1>6. CarryInv'
  BY <1>1, <1>5 DEF CarryInv
<1>7. LinkInv'
  <2>1. CASE bstate' = "FDD_REQ"
    BY <1>1, <1>2, <2>1 DEF LinkInv, Requesting, ReadRequest, WriteRequest, Waiting
  <2>2. CASE bstate' = "FDD_DISPATCH"
    <3>1. (WriteRequest' <=> WriteRequest) /\ (ReadRequest' <=> ReadRequest)
          /\ (Requesting <=> ReadRequest \/ WriteRequest)
      BY <1>2 DEF WriteRequest, ReadRequest, Waiting, Requesting
    <3>2. pending = "none" \/ Requesting
      BY <1>1, <2>2 DEF FdInv, LinkInv
    <3>3. ASSUME WriteRequest
          PROVE  ToDrain \/ fdc_state = "FORMAT_FILL"
      <4>1. bstate = "FDD_REQ"
        BY <1>1, <2>2
      <4>2. pending = "write" => fdc_state = "SD_WRITE"
        BY <3>3 DEF FdInv, CommandInv, OrderInv, WriteRequest, Waiting, Preparing,
           Ending
      <4>3. pending = "format" => fdc_state = "FORMAT_FILL"
        BY <3>3 DEF FdInv, CommandInv, OrderInv, WriteRequest, Waiting, Preparing
      <4>4. ASSUME pending = "write"
            PROVE  ToDrain
        BY <4>1, <4>2, <4>4 DEF FdInv, CommandInv, OrderInv, FillInv, AimInv,
           Filling, ToDrain
      <4> QED
        BY <3>3, <4>3, <4>4 DEF WriteRequest
    <3>4. (ToDrain \/ fdc_state = "FORMAT_FILL") =>
            (ToDrain \/ fdc_state = "FORMAT_FILL")'
      BY <1>2 DEF ToDrain, Sent
    <3> QED
      BY <1>1, <1>2, <2>2, <3>1, <3>2, <3>3, <3>4 DEF LinkInv
  <2> QED
    BY <1>1, <2>1, <2>2
<1>8. FloppyInPlace'
  BY <1>1, <1>4 DEF FdInv, FloppyInPlace, Good, Stays
<1>9. \A d, l : ~InHand(d, l)
  BY <1>1, <1>5 DEF Known, Inv, Handshake, InHand, BlockFor
<1>10. WrittenInv' /\ CompletedWritesAreStored'
  BY <1>1, <1>2, <1>5, <1>9 DEF FdInv, WrittenInv, CompletedWritesAreStored, Safe,
     OnDisk
<1> QED
  BY <1>4, <1>6, <1>7, <1>8, <1>10 DEF FdInv
(* Nothing that the PC takes for written is in the bridge's hands: what    *)
(* keeps the disks keeps what has become of it.                            *)
LEMMA NothingInHand ==
  ASSUME Inv, FdInv, bstate # "FDD_WR_STORE", ~fd_blk_wr,
         UNCHANGED <<fdcSide, slot, disk, fd_dead>>, ~BlockFor("IDLE")'
  PROVE  WrittenInv' /\ CompletedWritesAreStored'
<1>1. UNCHANGED <<fdc_state, pending, drive, goal, steady, completed>>
  BY DEF fdcSide
<1>2. \A d, l : ~InHand(d, l)
  BY DEF InHand
<1> QED
  BY <1>1, <1>2 DEF FdInv, WrittenInv, CompletedWritesAreStored, Safe, OnDisk

(* The sector number goes over and the transfer begins.                    *)
LEMMA FloppyDispatched ==
  ASSUME Known, FdInv, BridgeDispatch
  PROVE  FdInv'
<1>1. /\ bstate = "FDD_DISPATCH" /\ xcnt' = 0
      /\ fd_drv' = drive /\ fd_lba' = sd_sector
      /\ blk_drv' = drive /\ blk_lba' = sd_sector
      /\ UNCHANGED <<fdcVars, historyVars, fd_pend, fd_wait, slot, disk, fd_dead,
                     fd_is_wr, fd_blk_wr, fd_mounted, ack, copying, blk_err, buf>>
  BY DEF BridgeDispatch, FddDispatch, KeepFdc, serviceVars, fdMountVars
<1>2. IF fd_is_wr
      THEN bstate' = "RX"
      ELSE IF FdOk(drive, sd_sector, Mounted(drive))
           THEN bstate' = "BLK_ACK_HI" /\ seq_ret' = "FDD_RD_TX" /\ ~xzero'
           ELSE bstate' = "TX" /\ xzero'
  BY DEF BridgeDispatch, FddDispatch
<1>3. /\ UNCHANGED <<fdc_state, pending, drive, sd_sector, fifo, goal, steady,
                     format_counter, completed>>
      /\ UNCHANGED <<fdcSide, mediaVars>>
  BY <1>1, FdcStays DEF fdcSide
<1>4. Disruptive => ~fd_is_wr'
  BY <1>1 DEF Known, InBlock, FdInv, CommandInv, ReadsOnly
<1>5. /\ ~fd_blk_wr /\ ~copying /\ \A v \in VDrives : ~ack[v]
  BY <1>1, Quiet DEF Known, InBlock
<1>6. CommandInv' /\ ReadDataInPlace' /\ Stays /\ SteadyInv' /\ CountInv'
  <2>1. format_counter = 0
    BY <1>1 DEF FdInv, CountInv
  <2> QED
    BY <1>1, <1>3, <1>4, <2>1, CommandStays, MediaStay DEF CountInv, Known, FdInv,
       CommandInv, ReadsOnly
<1>7. FloppyInPlace'
  BY <1>1, <1>6 DEF FdInv, FloppyInPlace, Good, Stays
<1>8. WrittenInv' /\ CompletedWritesAreStored'
  <2>1. ~BlockFor("IDLE")'
    BY <1>2 DEF BlockFor, InBlock
  <2> QED
    BY <1>1, <1>3, <1>5, <2>1, NothingInHand DEF Known
<1>9. CarryInv'
  <2>1. /\ bstate' \notin {"FDD_RD_CHK", "FDD_WR_STORE"} /\ ~BlockFor("IDLE")'
        /\ BlockFor("FDD_RD_TX")' =>
             /\ bstate' = "BLK_ACK_HI" /\ ~xzero'
             /\ FdOk(drive, sd_sector, Mounted(drive))
    BY <1>2 DEF BlockFor, InBlock
  <2>2. drive \in VDrives
    BY FdTypes DEF Known
  <2> QED
    BY <1>1, <1>5, <2>1, <2>2 DEF CarryInv, FdOk, Internal
<1>10. LinkInv'
  <2>1. CASE fd_is_wr
    <3>1. (pending = "none" \/ WriteRequest) /\ (ToDrain \/ fdc_state = "FORMAT_FILL")
      BY <1>1, <2>1 DEF FdInv, LinkInv
    <3>2. ASSUME ToDrain
          PROVE  Draining'
      <4>1. pending = "none" \/ (pending = "write" /\ goal = sd_sector)
        BY <3>1, <3>2 DEF ToDrain, WriteRequest, FdInv, CommandInv, OrderInv,
           AimInv, Preparing
      <4>2. Len(fifo) = BlockBytes - 0 /\ \A i \in 1 .. Len(fifo) : 0 + i - 1 = i - 1
        BY <3>2, Sizes DEF ToDrain
      <4>3. \A i \in 1 .. Len(fifo) : Sent(fifo[i], drive, sd_sector, 0 + i - 1)
        BY <3>2, <4>2 DEF ToDrain
      <4> QED
        BY <1>1, <1>3, <3>2, <4>1, <4>2, <4>3 DEF Draining, ToDrain, Sent
    <3>3. \A i \in 0 .. xcnt' - 1 : FALSE
      BY <1>1
    <3> QED
      BY <1>1, <1>2, <1>3, <2>1, <3>1, <3>2, <3>3 DEF LinkInv
  <2>2. CASE ~fd_is_wr /\ FdOk(drive, sd_sector, Mounted(drive))
    BY <1>2, <2>2 DEF LinkInv
  <2>3. CASE ~fd_is_wr /\ ~FdOk(drive, sd_sector, Mounted(drive))
    <3>1. pending = "none" \/ ReadRequest
      BY <1>1, <2>3 DEF FdInv, LinkInv
    <3>2. ASSUME ReadRequest
          PROVE  Sending'
      <4>1. fdc_state = "SD_READ" /\ pending = "read" /\ sd_sector = goal
        BY <3>2 DEF ReadRequest, Waiting, FdInv, CommandInv, OrderInv, AimInv,
           Preparing, Ending
      <4>2. fifo = <<>> /\ Len(fifo) = 0
        BY <1>1, <4>1 DEF FdInv, CommandInv, OrderInv
      <4>3. goal < TotalSectors
        BY <4>1, AtWork DEF FdInv, CommandInv, Known, Between
      <4>4. ~steady
        <5>1. SUFFICES ASSUME steady PROVE FALSE
          OBVIOUS
        <5>2. Settled(drive) /\ drive \in Floppies
          BY <4>1, <5>1, FdTypes DEF FdInv, SteadyInv, Known
        <5>3. fd_mounted[drive] /\ Mounted(drive)
          BY <5>2 DEF Settled, Known, MediaAgrees
        <5> QED
          BY <2>3, <4>1, <4>3, <5>3 DEF FdOk
      <4> QED
        BY <1>1, <1>2, <1>3, <2>3, <4>1, <4>2, <4>4 DEF Sending, Offered
    <3> QED
      BY <1>2, <1>3, <2>3, <3>1, <3>2 DEF LinkInv
  <2> QED
    BY <2>1, <2>2, <2>3
<1> QED
  BY <1>6, <1>7, <1>8, <1>9, <1>10 DEF FdInv

(* The block is read: it is streamed only to the request it was read for.  *)
LEMMA FloppyChecked ==
  ASSUME Known, FdInv, BridgeCheck
  PROVE  FdInv'
<1>1. /\ bstate = "FDD_RD_CHK"
      /\ UNCHANGED <<fdcVars, historyVars, fd_pend, fd_wait, slot, disk, fd_dead,
                     fd_is_wr, fd_drv, fd_lba, xzero, buf>>
      /\ \/ /\ ReadRequest /\ drive = fd_drv /\ sd_sector = fd_lba
            /\ bstate' = "TX" /\ xcnt' = 0
         \/ bstate' = "IDLE"
  BY DEF BridgeCheck, FddCheck, KeepFdc, serviceVars, fdMountVars, fdVars
<1>2. /\ UNCHANGED <<fdc_state, pending, drive, sd_sector, fifo, goal, steady>>
      /\ UNCHANGED <<fdcSide, mediaVars>>
  BY <1>1, FdcStays DEF fdcSide
<1>3. ~InBlock /\ ~fd_blk_wr /\ (Disruptive => ~fd_is_wr')
  BY <1>1, Quiet DEF Known, InBlock, FdInv, CommandInv, ReadsOnly
<1>4. CommandInv' /\ ReadDataInPlace' /\ Stays /\ SteadyInv' /\ CountInv'
  BY <1>1, <1>2, <1>3, CommandStays, MediaStay
<1>5. FloppyInPlace'
  BY <1>1, <1>4 DEF FdInv, FloppyInPlace, Good, Stays
<1>6. CarryInv' /\ ~BlockFor("IDLE")'
  BY <1>1 DEF CarryInv, BlockFor, InBlock
<1>7. WrittenInv' /\ CompletedWritesAreStored'
  BY <1>1, <1>2, <1>3, <1>6, NothingInHand DEF Known
<1>8. LinkInv'
  <2>1. SUFFICES ASSUME ReadRequest, drive = fd_drv, sd_sector = fd_lba,
                        bstate' = "TX", xcnt' = 0
                 PROVE  Sending'
    BY <1>1 DEF LinkInv
  <2>2. fdc_state = "SD_READ" /\ pending = "read" /\ sd_sector = goal
    BY <2>1 DEF ReadRequest, Waiting, FdInv, CommandInv, OrderInv, AimInv,
       Preparing, Ending
  <2>3. fifo = <<>> /\ Len(fifo) = 0
    BY <1>1, <2>2 DEF FdInv, CommandInv, OrderInv
  <2>4. \A i \in Place : Offered(buf[i], goal, i)
    <3>1. ReadFor(fd_drv, fd_lba)
      BY <1>1 DEF FdInv, CarryInv
    <3>2. CASE \A i \in Place : Good(buf[i], slot[fd_drv], fd_lba, i)
      BY <2>1, <2>2, <3>2 DEF Good, Stuck, Offered, BelongsAt
    <3>3. CASE /\ fd_pend[fd_drv] \/ fd_wait[fd_drv]
               /\ buf = ZeroBlock \/ \A i \in Place : Loose(buf[i], fd_lba, i)
      <4>1. ~steady
        BY <2>1, <2>2, <3>3 DEF FdInv, SteadyInv, Settled
      <4> QED
        BY <2>1, <2>2, <3>3, <4>1 DEF ZeroBlock, Offered, Loose, Stuck
    <3> QED
      BY <3>1, <3>2, <3>3 DEF ReadFor
  <2>5. ~xzero
    BY <1>1 DEF FdInv, CarryInv
  <2> QED
    BY <1>1, <1>2, <2>1, <2>2, <2>3, <2>4, <2>5 DEF Sending, Offered
<1> QED
  BY <1>4, <1>5, <1>6, <1>7, <1>8 DEF FdInv

(* The sector is drained: it is stored, or the medium does not take it.    *)
LEMMA FloppyStores ==
  ASSUME Known, FdInv, BridgeStore
  PROVE  FdInv'
<1>1. /\ bstate = "FDD_WR_STORE"
      /\ UNCHANGED <<fdcVars, historyVars, fd_pend, fd_wait, slot, disk, fd_dead,
                     fd_is_wr, fd_drv, fd_lba, blk_drv, blk_lba, ack, copying,
                     blk_err, buf>>
      /\ IF FdOk(fd_drv, fd_lba, Mounted(fd_drv)) /\ ~fd_ro[fd_drv]
         THEN bstate' = "BLK_ACK_HI" /\ seq_ret' = "IDLE" /\ fd_blk_wr'
         ELSE bstate' = "FDD_WAIT" /\ fd_blk_wr' = fd_blk_wr
  BY DEF BridgeStore, FddStore, KeepFdc, serviceVars, fdMountVars, AfterStore
<1>2. /\ UNCHANGED <<fdc_state, pending, drive, goal, steady, completed>>
      /\ UNCHANGED <<fdcSide, mediaVars>>
  BY <1>1, FdcStays DEF fdcSide
<1>3. /\ ~fd_blk_wr /\ ~copying /\ \A v \in VDrives : ~ack[v]
  BY <1>1, Quiet DEF Known, InBlock
<1>4. /\ blk_drv = fd_drv /\ fd_is_wr /\ blk_lba = fd_lba /\ DrainedFor(fd_drv, fd_lba)
      /\ Disruptive => ~fd_is_wr'
  BY <1>1 DEF Known, Inv, Handshake, FdInv, CarryInv, CommandInv, ReadsOnly
<1>5. CommandInv' /\ ReadDataInPlace' /\ Stays /\ SteadyInv' /\ CountInv'
  BY <1>1, <1>2, <1>4, CommandStays, MediaStay
<1>6. FloppyInPlace' /\ LinkInv'
  BY <1>1, <1>5 DEF FdInv, FloppyInPlace, Good, Stays, LinkInv
<1>7. CarryInv'
  <2>1. /\ bstate' \notin {"FDD_RD_CHK", "FDD_WR_STORE"} /\ ~BlockFor("FDD_RD_TX")'
        /\ BlockFor("IDLE")' => fd_blk_wr'
    BY <1>1 DEF BlockFor, InBlock
  <2>2. DrainedFor(fd_drv, fd_lba)'
    BY <1>1, <1>4, <1>5, GoodKept
  <2> QED
    BY <1>1, <1>3, <1>4, <2>1, <2>2 DEF CarryInv
<1>8. ASSUME NEW d \in Floppies, NEW l, Safe(d, l),
             \/ <<d, l>> \in completed
             \/ /\ fdc_state = "UPDATE_SECTOR" /\ pending = "write" /\ steady
                /\ d = drive /\ l = goal
      PROVE  Safe(d, l)'
  <2>1. FdOk(d, l, Mounted(d)) /\ ~fd_ro[d]
    BY <1>8, TakenIsWritable
  <2>2. InHand(d, l) => InHand(d, l)'
    BY <1>1, <2>1 DEF InHand
  <2> QED
    BY <1>1, <1>8, <2>2 DEF Safe, OnDisk
<1>9. WrittenInv'
  <2>1. ~(BlockFor("IDLE") /\ (bstate = "BLK_ACK_LO" \/ ack[blk_drv]))'
    <3>1. bstate' # "BLK_ACK_LO" /\ ~ack'[blk_drv'] /\ fd_drv \in VDrives
      BY <1>1, <1>3, <1>4, FdTypes DEF Known
    <3> QED
      BY <3>1
  <2>2. drive \in Floppies
    BY FdTypes DEF Known
  <2> QED
    BY <1>2, <1>8, <2>1, <2>2 DEF FdInv, WrittenInv
<1>10. CompletedWritesAreStored'
  <2>1. ASSUME NEW w \in completed
        PROVE  Safe(w[1], w[2])'
    <3>1. w[1] \in Floppies /\ w = <<w[1], w[2]>>
      BY FdTypes DEF Known
    <3>2. Safe(w[1], w[2])
      BY DEF FdInv, CompletedWritesAreStored, Safe, OnDisk
    <3> QED
      BY <1>8, <3>1, <3>2
  <2> QED
    BY <1>2, <2>1 DEF CompletedWritesAreStored, Safe, OnDisk
<1> QED
  BY <1>5, <1>6, <1>7, <1>9, <1>10 DEF FdInv

LEMMA FloppyAckRises ==
  ASSUME Known, FdInv, BridgeAckRises
  PROVE  FdInv'
<1>1. /\ bstate = "BLK_ACK_HI" /\ bstate' = "BLK_ACK_LO" /\ ack[blk_drv]
      /\ UNCHANGED <<fdcVars, historyVars, fd_pend, fd_wait, slot, disk, fd_dead,
                     fd_is_wr, fd_drv, fd_lba, blk_drv, blk_lba, ack, copying,
                     blk_err, buf, fd_blk_wr, seq_ret, xzero, fd_mounted>>
  BY DEF BridgeAckRises, AckRises, KeepFdc, serviceVars, fdMountVars, fdVars,
     streamVars
<1>2. /\ UNCHANGED <<fdc_state, pending, drive, goal, steady, completed>>
      /\ UNCHANGED <<fdcSide, mediaVars>>
      /\ \A r : BlockFor(r)' <=> BlockFor(r)
  BY <1>1, FdcStays DEF fdcSide, BlockFor, InBlock
<1>3. Disruptive => ~fd_is_wr'
  BY <1>1 DEF FdInv, CommandInv, ReadsOnly
<1>4. CommandInv' /\ ReadDataInPlace' /\ Stays /\ SteadyInv' /\ CountInv'
  BY <1>1, <1>2, <1>3, CommandStays, MediaStay
<1>5. FloppyInPlace' /\ LinkInv'
  BY <1>1, <1>4 DEF FdInv, FloppyInPlace, Good, Stays, LinkInv
<1>6. CarryInv'
  <2>1. ReadFor(fd_drv, fd_lba) => ReadFor(fd_drv, fd_lba)'
    BY <1>1, <1>4, GoodKept
  <2>2. DrainedFor(fd_drv, fd_lba) => DrainedFor(fd_drv, fd_lba)'
    BY <1>1, <1>4, GoodKept
  <2>3. bstate' \notin {"FDD_RD_CHK", "FDD_WR_STORE"}
    BY <1>1
  <2> QED
    BY <1>1, <1>2, <2>1, <2>2, <2>3 DEF FdInv, CarryInv, Internal
<1>7. \A d, l : Safe(d, l)' <=> Safe(d, l)
  BY <1>1 DEF Safe, OnDisk, InHand
<1>8. WrittenInv' /\ CompletedWritesAreStored'
  BY <1>1, <1>2, <1>7 DEF FdInv, WrittenInv, CompletedWritesAreStored, Safe, OnDisk,
     HasSector
<1> QED
  BY <1>4, <1>5, <1>6, <1>8 DEF FdInv

(* The outcome counts: a read goes on with its block or is parked, a write *)
(* has reached its image or kills the drive.                               *)
LEMMA FloppyAckFalls ==
  ASSUME Known, FdInv, BridgeAckFalls
  PROVE  FdInv'
<1>1. /\ bstate = "BLK_ACK_LO" /\ ~ack[blk_drv]
      /\ bstate' = IF seq_ret # "FDD_RD_TX" THEN seq_ret
                   ELSE IF blk_err THEN "FDD_ERR" ELSE "FDD_RD_CHK"
      /\ fd_dead' = (fd_dead \/ (blk_err /\ fd_blk_wr)) /\ ~fd_blk_wr'
      /\ UNCHANGED <<fdcVars, historyVars, fd_pend, fd_wait, slot, disk,
                     fd_is_wr, fd_drv, fd_lba, blk_drv, blk_lba, ack, copying,
                     blk_err, buf, seq_ret, xzero, fd_mounted>>
  BY DEF BridgeAckFalls, AckFalls, WriteFailed, KeepFdc, serviceVars, fdMountVars,
     streamVars, portVars
<1>2. /\ UNCHANGED <<fdc_state, pending, drive, goal, steady, completed>>
      /\ UNCHANGED <<fdcSide, mediaVars>>
  BY <1>1, FdcStays DEF fdcSide
<1>3. Disruptive => ~fd_is_wr'
  BY <1>1 DEF FdInv, CommandInv, ReadsOnly
<1>4. /\ seq_ret \notin {"FDD_WAIT", "FDD_WR_STORE"} /\ seq_ret \in Returns
      /\ ~copying /\ (fd_blk_wr => seq_ret = "IDLE")
      /\ fd_dead \in BOOLEAN /\ blk_err \in BOOLEAN
  BY <1>1, FdTypes DEF Known, Inv, Handshake, InBlock
<1>5. bstate' \in {"IDLE", "FDD_ERR", "FDD_RD_CHK", "IDE_MOUNT_GEO", "IDE_RD_TX",
                   "IDE_STEP"}
  BY <1>1, <1>4 DEF Returns
<1>6. CommandInv' /\ ReadDataInPlace' /\ Stays /\ SteadyInv' /\ CountInv'
  BY <1>1, <1>2, <1>3, <1>5, CommandStays, MediaStay
<1>7. FloppyInPlace' /\ LinkInv'
  BY <1>1, <1>5, <1>6 DEF FdInv, FloppyInPlace, Good, Stays, LinkInv
<1>8. \A r : ~BlockFor(r)'
  BY <1>5 DEF BlockFor, InBlock
<1>9. CarryInv'
  <2>1. ASSUME bstate' = "FDD_RD_CHK"
        PROVE  ReadFor(fd_drv, fd_lba)' /\ ~xzero'
    <3>1. BlockFor("FDD_RD_TX") /\ ~blk_err
      BY <1>1, <1>4, <2>1 DEF BlockFor, InBlock, Returns
    <3>2. ReadFor(fd_drv, fd_lba) /\ ~xzero
      BY <1>1, <1>4, <3>1 DEF FdInv, CarryInv
    <3> QED
      BY <1>1, <1>6, <3>2, GoodKept
  <2> QED
    BY <1>5, <1>8, <2>1 DEF CarryInv
<1>10. CASE seq_ret = "IDLE"
  <2>1. /\ BlockFor("IDLE") /\ fd_is_wr /\ fd_blk_wr
        /\ blk_err \/ ~HasSector(fd_drv, fd_lba) \/ OnDisk(fd_drv, fd_lba)
    BY <1>1, <1>10 DEF FdInv, CarryInv, WrittenInv, BlockFor, InBlock
  <2>2. ASSUME NEW d \in Floppies, NEW l, Safe(d, l),
               \/ <<d, l>> \in completed
               \/ /\ fdc_state = "UPDATE_SECTOR" /\ pending = "write" /\ steady
                  /\ d = drive /\ l = goal
        PROVE  Safe(d, l)'
    <3>1. HasSector(d, l)
      BY <2>2, TakenIsWritable
    <3>2. OnDisk(d, l) \/ InHand(d, l) \/ fd_dead
      BY <2>2 DEF Safe
    <3>3. OnDisk(d, l) => OnDisk(d, l)'
      BY <1>1 DEF OnDisk
    <3>4. fd_dead \/ blk_err => fd_dead'
      BY <1>1, <2>1
    <3>5. InHand(d, l) => blk_err \/ OnDisk(d, l)
      BY <2>1, <3>1 DEF InHand
    <3> QED
      BY <3>2, <3>3, <3>4, <3>5 DEF Safe
  <2>3. WrittenInv'
    <3>1. drive \in Floppies
      BY FdTypes DEF Known
    <3> QED
      BY <1>2, <1>8, <2>2, <3>1 DEF FdInv, WrittenInv
  <2>4. CompletedWritesAreStored'
    <3>1. ASSUME NEW w \in completed
          PROVE  Safe(w[1], w[2])'
      <4>1. w[1] \in Floppies /\ w = <<w[1], w[2]>>
        BY FdTypes DEF Known
      <4>2. Safe(w[1], w[2])
        BY DEF FdInv, CompletedWritesAreStored, Safe, OnDisk
      <4> QED
        BY <2>2, <4>1, <4>2
    <3> QED
      BY <1>2, <3>1 DEF CompletedWritesAreStored, Safe, OnDisk
  <2> QED
    BY <1>6, <1>7, <1>9, <2>3, <2>4 DEF FdInv
<1>11. CASE seq_ret # "IDLE"
  <2>1. ~fd_blk_wr /\ fd_dead' = fd_dead /\ bstate # "FDD_WR_STORE"
    BY <1>1, <1>4, <1>11
  <2>2. WrittenInv' /\ CompletedWritesAreStored'
    BY <1>1, <1>2, <1>8, <2>1, NothingInHand DEF Known
  <2> QED
    BY <1>6, <1>7, <1>9, <2>2 DEF FdInv
<1> QED
  BY <1>10, <1>11

-----------------------------------------------------------------------------
(* The streams.                                                            *)

LEMMA AppendOne ==
  ASSUME NEW q, NEW b, q \in Seq(Byte)
  PROVE  /\ Len(Append(q, b)) = Len(q) + 1 /\ Len(q) \in Nat
         /\ \A i \in 1 .. Len(q) : Append(q, b)[i] = q[i]
         /\ Append(q, b)[Len(q) + 1] = b
<1>1. q \in Seq(Byte \cup {b}) /\ b \in Byte \cup {b}
  OBVIOUS
<1> QED
  BY <1>1

LEMMA TakeOne ==
  ASSUME NEW q, NEW t, q \in Seq(Byte), Len(q) > 0, t = Tail(q)
  PROVE  /\ q # <<>> /\ Len(q) \in Nat
         /\ Len(t) = Len(q) - 1 /\ Head(q) = q[1]
         /\ \A i \in 1 .. Len(t) : t[i] = q[i + 1]
         /\ Len(q) = 1 => t = <<>>
<1>1. q # <<>> /\ Len(q) \in Nat /\ t \in Seq(Byte)
  OBVIOUS
<1>2. Len(t) = Len(q) - 1 /\ Head(q) = q[1]
  BY <1>1
<1>3. \A i \in 1 .. Len(t) : t[i] = q[i + 1]
  BY <1>1
<1>4. Len(q) = 1 => t = <<>>
  BY <1>1, <1>2
<1> QED
  BY <1>1, <1>2, <1>3, <1>4

(* A byte of the block, or a zero, goes to the controller's FIFO.          *)
LEMMA FloppySends ==
  ASSUME Known, FdInv, BridgeSendByte
  PROVE  FdInv'
<1> DEFINE b == IF xzero THEN ZeroByte ELSE buf[xcnt]
           last == xcnt = BlockBytes - 1
           full == fdc_state = "SD_READ" /\ Len(fifo) = BlockBytes - 1
<1>1. /\ bstate = "TX" /\ Inv
      /\ fifo' = IF fdc_state \in {"IDLE", "FULL_WRITE"} THEN fifo
                                                        ELSE Append(fifo, b)
      /\ fdc_state' = IF full THEN "EMPTY_READ" ELSE fdc_state
      /\ IF last THEN bstate' = "FDD_WAIT" /\ xcnt' = 0
                 ELSE bstate' = "TX" /\ xcnt' = xcnt + 1
      /\ UNCHANGED <<pending, drive, loc, logical, sd_sector, format_counter,
                     terminated, dma_left, mediaVars, goal, steady, completed,
                     slot, disk, fd_dead, fd_is_wr, fd_drv, fd_lba, fd_blk_wr,
                     fd_pend, fd_wait, buf, xzero>>
  BY DEF BridgeSendByte, StreamStep, MgmtPush, ChangeFdc, historyVars, fdVars,
     fdMountVars, serviceVars, Known, Inv, Handshake
<1>2. ~fd_blk_wr /\ \A r : ~BlockFor(r)'
  BY <1>1, Quiet DEF InBlock, BlockFor
<1>3. fdc_state = "SD_READ" => pending = "read"
  BY DEF FdInv, CommandInv, OrderInv
<1>4. Stays
  BY <1>1, <1>3 DEF Stays, Stuck
<1>5. SteadyInv' /\ CountInv'
  BY <1>1 DEF FdInv, SteadyInv, Settled, mediaVars, CountInv
<1>6. FloppyInPlace' /\ CarryInv'
  BY <1>1, <1>2, <1>4 DEF FdInv, FloppyInPlace, Good, Stays, CarryInv
<1>7. \A d, l : ~InHand(d, l) /\ ~InHand(d, l)' /\ (OnDisk(d, l)' <=> OnDisk(d, l))
  BY <1>1, <1>2 DEF InHand, OnDisk
<1>8. CompletedWritesAreStored'
  BY <1>1, <1>7 DEF FdInv, CompletedWritesAreStored, OnDisk
<1>9. WrittenInv'
  <2>1. fdc_state' = "UPDATE_SECTOR" => fdc_state = "UPDATE_SECTOR"
    BY <1>1
  <2> QED
    BY <1>1, <1>2, <1>7, <2>1 DEF FdInv, WrittenInv, Safe
<1>10. CASE pending = "none"
  <2>1. fdc_state' = fdc_state /\ fdc_state # "SD_READ"
    BY <1>1, <1>3, <1>10
  <2>2. OrderInv' /\ ReadsOnly' /\ LinkInv'
    BY <1>1, <1>10, <2>1 DEF FdInv, CommandInv, OrderInv, ReadsOnly, LinkInv
  <2>3. WalkInv' /\ AimInv' /\ FillInv' /\ ReadDataInPlace'
    BY <1>1, <1>10 DEF WalkInv, AimInv, FillInv, ReadDataInPlace
  <2> QED
    BY <1>5, <1>6, <1>8, <1>9, <2>2, <2>3 DEF FdInv, CommandInv
<1>11. CASE pending # "none"
  <2>1. Sending
    BY <1>1, <1>11 DEF FdInv, LinkInv
  <2>2. /\ fdc_state = "SD_READ" /\ pending = "read" /\ Len(fifo) = xcnt
        /\ fd_drv = drive /\ fd_lba = goal /\ (full <=> last)
        /\ fifo' = Append(fifo, b)
    BY <1>1, <1>3, <2>1 DEF Sending
  <2>3. xcnt \in Place /\ xcnt \in Nat /\ xcnt < BlockBytes /\ fifo \in Seq(Byte)
    BY <1>1, FdTypes, Sizes DEF Place
  <2>4. /\ Len(fifo') = xcnt + 1 /\ fifo'[xcnt + 1] = b
        /\ \A i \in 1 .. xcnt : fifo'[i] = fifo[i]
    BY <2>2, <2>3, AppendOne
  <2>5. Offered(b, goal, xcnt)
    BY <2>1, <2>3 DEF Sending, Offered
  <2>6. \A i \in 1 .. xcnt + 1 : Offered(fifo'[i], goal, i - 1)
    <3>1. SUFFICES ASSUME NEW i \in 1 .. xcnt + 1
                   PROVE  Offered(fifo'[i], goal, i - 1)
      OBVIOUS
    <3>2. CASE i \in 1 .. xcnt
      BY <2>1, <2>4, <3>2 DEF Sending
    <3>3. CASE i = xcnt + 1
      <4>1. i - 1 = xcnt
        BY <2>3, <3>3
      <4> QED
        BY <2>4, <2>5, <3>3, <4>1
    <3> QED
      BY <2>3, <3>2, <3>3
  <2>7. AimInv' /\ FillInv' /\ ReadsOnly'
    BY <1>1, <2>2 DEF FdInv, CommandInv, AimInv, FillInv, ReadsOnly
  <2>8. CASE last
    <3>1. Len(fifo') = BlockBytes /\ fdc_state' = "EMPTY_READ" /\ bstate' = "FDD_WAIT"
      BY <1>1, <2>2, <2>3, <2>4, <2>8, Sizes
    <3>2. OrderInv' /\ LinkInv'
      BY <1>1, <2>2, <3>1, Sizes DEF OrderInv, LinkInv, Preparing, Ending
    <3>3. Held = 0 /\ Held' = 0 /\ ~Between /\ ~Between'
      BY <1>1, <2>2, <3>1, Sizes DEF Held, Between
    <3>4. WalkInv'
      BY <1>1, <3>3 DEF FdInv, CommandInv, WalkInv, Walks
    <3>5. ReadDataInPlace'
      <4>1. xcnt + 1 = BlockBytes
        BY <2>3, <2>8, Sizes
      <4>2. \A i \in 1 .. BlockBytes : BlockBytes - BlockBytes + i - 1 = i - 1
        BY Sizes
      <4>3. \A i \in 1 .. BlockBytes :
              Offered(fifo'[i], goal, BlockBytes - BlockBytes + i - 1)
        BY <2>6, <4>1, <4>2
      <4>4. goal' = goal /\ steady' = steady /\ slot' = slot /\ drive' = drive
        BY <1>1
      <4> QED
        BY <3>1, <4>3, <4>4, Sizes DEF ReadDataInPlace, Offered
    <3> QED
      BY <1>5, <1>6, <1>8, <1>9, <2>7, <3>2, <3>4, <3>5 DEF FdInv, CommandInv
  <2>9. CASE ~last
    <3>1. /\ fdc_state' = "SD_READ" /\ bstate' = "TX" /\ xcnt' = xcnt + 1
          /\ Len(fifo') = xcnt'
      BY <1>1, <2>2, <2>4, <2>9
    <3>2. OrderInv'
      BY <1>1, <2>2, <3>1 DEF OrderInv, Preparing, Ending
    <3>3. Held = 0 /\ Held' = 0 /\ ~Between /\ ~Between'
      BY <1>1, <2>2, <3>1 DEF Held, Between
    <3>4. WalkInv'
      BY <1>1, <3>3 DEF FdInv, CommandInv, WalkInv, Walks
    <3>5. ReadDataInPlace'
      BY <3>1 DEF ReadDataInPlace
    <3>6. Sending'
      <4>1. (\A i \in 1 .. xcnt : Offered(fifo[i], goal, i - 1))'
        BY <1>1, <2>6, <3>1 DEF Offered
      <4>2. IF xzero THEN ~steady ELSE \A i \in Place : Offered(buf[i], goal, i)
        BY <2>1 DEF Sending
      <4>3. (IF xzero THEN ~steady ELSE \A i \in Place : Offered(buf[i], goal, i))'
        BY <1>1, <4>2 DEF Offered
      <4>4. fd_drv' = drive' /\ fd_lba' = goal'
        BY <1>1, <2>2
      <4> QED
        BY <3>1, <4>1, <4>3, <4>4 DEF Sending, Offered
    <3>7. LinkInv'
      BY <3>1, <3>6 DEF LinkInv
    <3> QED
      BY <1>5, <1>6, <1>8, <1>9, <2>7, <3>2, <3>4, <3>5, <3>7 DEF FdInv, CommandInv
  <2> QED
    BY <2>8, <2>9
<1> QED
  BY <1>10, <1>11

(* A byte of the sector, or of the fill, goes from the controller's FIFO   *)
(* to the block buffer.                                                    *)
LEMMA ByteTaken ==
  ASSUME Known, FdInv, BridgeTakeByte
  PROVE  /\ bstate = "RX" /\ Inv
         /\ IF xcnt = BlockBytes - 1
            THEN bstate' = "FDD_WR_STORE" /\ xcnt' = 0
            ELSE bstate' = "RX" /\ xcnt' = xcnt + 1
         /\ fifo' = IF fifo = <<>> \/ fdc_state = "EMPTY_READ" THEN fifo
                                                              ELSE Tail(fifo)
         /\ fdc_state' = IF fdc_state = "FORMAT_FILL" /\ xcnt = BlockBytes - 1
                         THEN "WAIT"
                         ELSE IF fdc_state = "SD_WRITE" /\ Len(fifo) = 1
                         THEN "UPDATE_SECTOR" ELSE fdc_state
         /\ UNCHANGED <<pending, drive, loc, logical, sd_sector, terminated,
                        dma_left, mediaVars, goal, steady, completed, slot, disk,
                        fd_dead, fd_is_wr, fd_drv, fd_lba, fd_blk_wr, fd_pend,
                        fd_wait, blk_lba>>
         /\ fd_is_wr /\ ~Disruptive /\ blk_lba = fd_lba
         /\ \A i \in 0 .. xcnt - 1 : Written(buf[i], fd_drv, fd_lba, i)
         /\ Draining \/ fdc_state = "FORMAT_FILL"
         /\ xcnt \in Nat /\ xcnt < BlockBytes /\ fifo \in Seq(Byte)
         /\ \A i \in Place : buf'[i] = IF i = xcnt THEN MgmtByte ELSE buf[i]
         /\ CountInv'
<1>1. /\ bstate = "RX" /\ Inv
      /\ IF xcnt = BlockBytes - 1
         THEN bstate' = "FDD_WR_STORE" /\ xcnt' = 0
         ELSE bstate' = "RX" /\ xcnt' = xcnt + 1
      /\ buf' = [buf EXCEPT ![xcnt] = MgmtByte]
      /\ fifo' = IF fifo = <<>> \/ fdc_state = "EMPTY_READ" THEN fifo ELSE Tail(fifo)
      /\ format_counter' = IF fdc_state = "IDLE" \/ format_counter = BlockBytes - 1
                           THEN 0 ELSE format_counter + 1
      /\ fdc_state' = IF fdc_state = "FORMAT_FILL" /\ format_counter = BlockBytes - 1
                      THEN "WAIT"
                      ELSE IF fdc_state = "SD_WRITE" /\ Len(fifo) = 1
                      THEN "UPDATE_SECTOR" ELSE fdc_state
      /\ UNCHANGED <<pending, drive, loc, logical, sd_sector, terminated, dma_left,
                     mediaVars, goal, steady, completed, slot, disk, fd_dead,
                     fd_is_wr, fd_drv, fd_lba, fd_blk_wr, fd_pend, fd_wait,
                     blk_lba>>
  BY DEF BridgeTakeByte, StreamStep, MgmtPop, PutByte, ChangeFdc, historyVars,
     fdVars, fdMountVars, portVars, Known, Inv, Handshake
<1>2. /\ fd_is_wr /\ ~Disruptive /\ blk_lba = fd_lba
      /\ \A i \in 0 .. xcnt - 1 : Written(buf[i], fd_drv, fd_lba, i)
      /\ Draining \/ fdc_state = "FORMAT_FILL"
      /\ format_counter = xcnt
  BY <1>1 DEF FdInv, LinkInv, CountInv, CommandInv, ReadsOnly
<1>3. /\ xcnt \in Nat /\ xcnt < BlockBytes /\ fifo \in Seq(Byte)
      /\ \A i \in Place : buf'[i] = IF i = xcnt THEN MgmtByte ELSE buf[i]
  BY <1>1, FdTypes, Sizes DEF Place, Block
<1>4. CountInv'
  BY <1>1, <1>2 DEF CountInv, Draining
<1> QED
  BY <1>1, <1>2, <1>3, <1>4

(* A sector's byte: the controller's FIFO and the bridge's count go down   *)
(* and up together, and end together.                                      *)
LEMMA SectorDrained ==
  ASSUME Known, FdInv, BridgeTakeByte, Draining, NEW b, b = MgmtByte,
         NEW d, d = fd_drv, NEW l, l = fd_lba,
         NEW n, n = xcnt
  PROVE  /\ Stays /\ Written(b, d, l, n)'
         /\ bstate' = "RX" => Draining'
         /\ OrderInv' /\ WalkInv' /\ AimInv' /\ FillInv' /\ ReadDataInPlace'
         /\ fdc_state' = "UPDATE_SECTOR" /\ pending = "write" =>
              InHand(drive, goal)'
<1> DEFINE last == xcnt = BlockBytes - 1
<1>1. /\ bstate = "RX" /\ Inv /\ fd_is_wr /\ ~Disruptive
      /\ IF last THEN bstate' = "FDD_WR_STORE" /\ xcnt' = 0
                 ELSE bstate' = "RX" /\ xcnt' = xcnt + 1
      /\ fifo' = IF fifo = <<>> \/ fdc_state = "EMPTY_READ" THEN fifo ELSE Tail(fifo)
      /\ fdc_state' = IF fdc_state = "FORMAT_FILL" /\ last THEN "WAIT"
                      ELSE IF fdc_state = "SD_WRITE" /\ Len(fifo) = 1
                      THEN "UPDATE_SECTOR" ELSE fdc_state
      /\ UNCHANGED <<pending, drive, loc, logical, sd_sector, terminated, dma_left,
                     goal, steady, fd_is_wr, fd_drv, fd_lba>>
      /\ xcnt \in Nat /\ xcnt < BlockBytes /\ fifo \in Seq(Byte)
      /\ BlockBytes \in Nat /\ BlockBytes > 1
  BY ByteTaken, Sizes
<1>2. /\ fdc_state = "SD_WRITE" /\ Len(fifo) = BlockBytes - xcnt
      /\ \A i \in 1 .. Len(fifo) : Sent(fifo[i], fd_drv, fd_lba, xcnt + i - 1)
      /\ pending = "none" \/ (pending = "write" /\ fd_drv = drive /\ fd_lba = goal)
  BY DEF Draining
<1>3. Len(fifo) > 0 /\ (Len(fifo) = 1 <=> last)
  BY <1>1, <1>2
<1>4. /\ fifo # <<>> /\ fifo' = Tail(fifo) /\ Len(fifo') = Len(fifo) - 1
      /\ Head(fifo) = fifo[1] /\ (last => fifo' = <<>>)
      /\ \A i \in 1 .. Len(fifo') : fifo'[i] = fifo[i + 1]
  <2>1. fifo # <<>> /\ fifo' = Tail(fifo)
    BY <1>1, <1>2, <1>3, TakeOne
  <2> QED
    BY <1>1, <1>3, <2>1, TakeOne
<1>5. fdc_state' = IF last THEN "UPDATE_SECTOR" ELSE "SD_WRITE"
  BY <1>1, <1>2, <1>3
<1>6. b = fifo[1] /\ Sent(fifo[1], d, l, n)
  <2>1. xcnt + 1 - 1 = xcnt /\ 1 \in 1 .. Len(fifo)
    BY <1>1, <1>2, <1>3
  <2> QED
    BY <1>2, <1>4, <2>1 DEF MgmtByte
<1>7. Stays /\ Written(b, d, l, n)'
  BY <1>2, <1>6 DEF Written, Sent, Stays, Stuck
<1>8. ASSUME bstate' = "RX"
      PROVE  Draining'
  <2>1. /\ ~last /\ xcnt' = xcnt + 1 /\ fdc_state' = "SD_WRITE"
        /\ Len(fifo') = BlockBytes - xcnt'
    BY <1>1, <1>2, <1>4, <1>5, <1>8
  <2>2. ASSUME NEW i \in 1 .. Len(fifo')
        PROVE  Sent(fifo'[i], fd_drv, fd_lba, xcnt' + i - 1)
    <3>1. /\ i + 1 \in 1 .. Len(fifo) /\ fifo'[i] = fifo[i + 1]
          /\ xcnt + (i + 1) - 1 = xcnt' + i - 1
      BY <1>1, <1>2, <1>4, <2>1
    <3>2. Sent(fifo[i + 1], fd_drv, fd_lba, xcnt + (i + 1) - 1)
      BY <1>2, <3>1
    <3> QED
      BY <3>1, <3>2
  <2>3. pending' = "none"
        \/ (pending' = "write" /\ fd_drv' = drive' /\ fd_lba' = goal')
    BY <1>1, <1>2
  <2>4. (\A i \in 1 .. Len(fifo) : Sent(fifo[i], fd_drv, fd_lba, xcnt + i - 1))'
    BY <1>1, <2>2
  <2> QED
    BY <2>1, <2>3, <2>4 DEF Draining
<1>9. OrderInv'
  BY <1>1, <1>2, <1>4, <1>5 DEF OrderInv, Preparing, Ending
<1>10. AimInv' /\ FillInv' /\ ReadDataInPlace'
  BY <1>1, <1>2, <1>5 DEF FdInv, CommandInv, AimInv, FillInv, Filling,
     ReadDataInPlace
<1>11. WalkInv'
  <2>1. pending = "write" => Held' = Held /\ ~Between /\ ~Between'
    BY <1>1, <1>2, <1>5 DEF Held, Between
  <2> QED
    BY <1>1, <1>2, <2>1 DEF FdInv, CommandInv, WalkInv, Walks
<1>12. fdc_state' = "UPDATE_SECTOR" /\ pending = "write" => InHand(drive, goal)'
  BY <1>1, <1>2, <1>5 DEF InHand
<1> QED
  BY <1>7, <1>8, <1>9, <1>10, <1>11, <1>12

(* A byte of a format's fill, which may have been reset.                   *)
LEMMA FillTaken ==
  ASSUME Known, FdInv, BridgeTakeByte, fdc_state = "FORMAT_FILL",
         NEW b, b = MgmtByte, NEW d, NEW l, NEW n
  PROVE  /\ Stays /\ Written(b, d, l, n)'
         /\ bstate' = "RX" => fdc_state' = "FORMAT_FILL"
         /\ OrderInv' /\ WalkInv' /\ AimInv' /\ FillInv' /\ ReadDataInPlace'
         /\ ~(fdc_state' = "UPDATE_SECTOR" /\ pending = "write")
<1>1. /\ ~Disruptive /\ pending' = pending
      /\ fdc_state' = IF xcnt = BlockBytes - 1 THEN "WAIT" ELSE "FORMAT_FILL"
      /\ bstate' = IF xcnt = BlockBytes - 1 THEN "FDD_WR_STORE" ELSE "RX"
  BY ByteTaken
<1>2. pending \in {"none", "format"}
  BY FdTypes DEF FdInv, CommandInv, OrderInv, Preparing, Ending, Known, Commands
<1>3. Stays /\ Written(b, d, l, n)'
  <2>1. CASE pending = "format"
    BY <2>1 DEF MgmtByte, Written, Stays, Stuck
  <2>2. CASE pending = "none"
    <3>1. b = Stale /\ Stuck'
      BY <1>1, <2>2 DEF MgmtByte, Stuck
    <3> QED
      BY <3>1 DEF Written, Stays
  <2> QED
    BY <1>2, <2>1, <2>2
<1>4. OrderInv' /\ WalkInv' /\ AimInv' /\ FillInv' /\ ReadDataInPlace'
  BY <1>1, <1>2 DEF OrderInv, WalkInv, AimInv, FillInv, ReadDataInPlace
<1> QED
  BY <1>1, <1>2, <1>3, <1>4

LEMMA FloppyTakes ==
  ASSUME Known, FdInv, BridgeTakeByte
  PROVE  FdInv'
<1> DEFINE last == xcnt = BlockBytes - 1
<1>1. /\ bstate = "RX" /\ Inv
      /\ IF last THEN bstate' = "FDD_WR_STORE" /\ xcnt' = 0
                 ELSE bstate' = "RX" /\ xcnt' = xcnt + 1
      /\ UNCHANGED <<pending, drive, loc, logical, sd_sector, terminated, dma_left,
                     mediaVars, goal, steady, completed, slot, disk, fd_dead,
                     fd_is_wr, fd_drv, fd_lba, fd_blk_wr, fd_pend, fd_wait,
                     blk_lba>>
      /\ fd_is_wr /\ ~Disruptive /\ blk_lba = fd_lba
      /\ \A i \in 0 .. xcnt - 1 : Written(buf[i], fd_drv, fd_lba, i)
      /\ Draining \/ fdc_state = "FORMAT_FILL"
      /\ xcnt \in Nat /\ xcnt < BlockBytes
      /\ \A i \in Place : buf'[i] = IF i = xcnt THEN MgmtByte ELSE buf[i]
      /\ CountInv'
  BY ByteTaken
<1>2. ~fd_blk_wr /\ \A r : ~BlockFor(r)'
  BY <1>1, Quiet DEF InBlock, BlockFor
<1>3. PICK b, d, l, n :
        b = MgmtByte /\ d = fd_drv /\ l = fd_lba /\ n = xcnt
  OBVIOUS
<1>4. /\ Stays /\ Written(b, d, l, n)'
      /\ bstate' = "RX" => (Draining \/ fdc_state = "FORMAT_FILL")'
      /\ OrderInv' /\ WalkInv' /\ AimInv' /\ FillInv' /\ ReadDataInPlace'
      /\ fdc_state' = "UPDATE_SECTOR" /\ pending = "write" =>
           InHand(drive, goal)'
  <2>1. CASE Draining
    BY <1>3, <2>1, SectorDrained
  <2>2. CASE fdc_state = "FORMAT_FILL"
    BY <1>3, <2>2, FillTaken
  <2> QED
    BY <1>1, <2>1, <2>2
<1>5. CommandInv' /\ SteadyInv'
  BY <1>1, <1>4 DEF CommandInv, ReadsOnly, FdInv, SteadyInv, Settled, mediaVars
<1>6. (\A i \in Place : i < n + 1 => Written(buf[i], d, l, i))'
  <2>1. ASSUME NEW i \in Place, i < n + 1
        PROVE  Written(buf[i], d, l, i)'
    <3>1. CASE i = n
      <4>1. buf'[i] = b
        BY <1>1, <1>3, <3>1
      <4> QED
        BY <1>4, <3>1, <4>1 DEF Written, Sent
    <3>2. CASE i # n
      <4>1. i \in 0 .. xcnt - 1 /\ buf'[i] = buf[i]
        BY <1>1, <1>3, <2>1, <3>2 DEF Place
      <4>2. Written(buf[i], d, l, i)
        BY <1>1, <1>3, <4>1
      <4> QED
        BY <1>4, <4>1, <4>2 DEF Written, Sent, Stays
    <3> QED
      BY <3>1, <3>2
  <2> QED
    BY <2>1
<1>7. LinkInv'
  <2>1. SUFFICES ASSUME bstate' = "RX"
                 PROVE  (\A i \in 0 .. xcnt - 1 : Written(buf[i], fd_drv, fd_lba, i))'
    BY <1>1, <1>4 DEF LinkInv
  <2>2. xcnt' = n + 1 /\ \A i \in 0 .. xcnt' - 1 : i \in Place /\ i < n + 1
    BY <1>1, <1>3, <2>1, Sizes DEF Place
  <2> QED
    BY <1>1, <1>3, <1>6, <2>2
<1>8. CarryInv'
  <2>1. SUFFICES ASSUME bstate' = "FDD_WR_STORE"
                 PROVE  DrainedFor(fd_drv, fd_lba)'
    BY <1>1, <1>2 DEF CarryInv
  <2>2. \A i \in Place : i < n + 1
    BY <1>1, <1>3, <2>1, Sizes DEF Place
  <2> QED
    BY <1>1, <1>3, <1>6, <2>2 DEF DrainedFor
<1>9. FloppyInPlace'
  BY <1>1, <1>4 DEF FdInv, FloppyInPlace, Good, Stays
<1>10. \A c, m : ~InHand(c, m) /\ (OnDisk(c, m)' <=> OnDisk(c, m))
  BY <1>1, <1>2 DEF InHand, OnDisk
<1>11. CompletedWritesAreStored'
  BY <1>1, <1>10 DEF FdInv, CompletedWritesAreStored, OnDisk
<1>12. WrittenInv'
  <2>1. fdc_state' = "UPDATE_SECTOR" /\ pending' = "write" => Safe(drive, goal)'
    BY <1>1, <1>4 DEF Safe
  <2> QED
    BY <1>2, <2>1 DEF WrittenInv
<1> QED
  BY <1>1, <1>4, <1>5, <1>7, <1>8, <1>9, <1>11, <1>12 DEF FdInv

-----------------------------------------------------------------------------
(* The firmware.                                                           *)

(* What a step of the firmware on the block port leaves alone.             *)
LEMMA FirmwareSteps ==
  ASSUME Known, FdInv, FirmwareAlone, InBlock, UNCHANGED slot
  PROVE  /\ CommandInv' /\ ReadDataInPlace' /\ Stays /\ CountInv' /\ SteadyInv'
         /\ LinkInv'
         /\ UNCHANGED <<fdc_state, pending, drive, goal, steady, completed, bstate,
                        seq_ret, blk_op, blk_drv, blk_lba, xzero, fd_is_wr, fd_drv,
                        fd_lba, fd_dead, fd_blk_wr, fd_pend, fd_wait, fd_mounted>>
         /\ UNCHANGED <<fdcSide, mediaVars>>
         /\ \A r : BlockFor(r)' <=> BlockFor(r)
<1>1. /\ UNCHANGED <<fdcVars, historyVars>>
      /\ UNCHANGED <<bstate, seq_ret, blk_op, blk_drv, blk_lba, xzero, fd_is_wr,
                     fd_drv, fd_lba, fd_dead, fd_blk_wr, fd_pend, fd_wait,
                     fd_mounted>>
  BY DEF FirmwareAlone, BridgeRests, portVars, streamVars, fdVars, fdMountVars
<1>2. /\ UNCHANGED <<fdc_state, pending, drive, goal, steady, completed>>
      /\ UNCHANGED <<fdcSide, mediaVars>>
      /\ \A r : BlockFor(r)' <=> BlockFor(r)
  BY <1>1, FdcStays DEF fdcSide, BlockFor, InBlock
<1>3. bstate \notin {"TX", "RX"} /\ bstate' # "RX" /\ (Disruptive => ~fd_is_wr')
  BY <1>1 DEF InBlock, FdInv, CommandInv, ReadsOnly
<1>4. CommandInv' /\ ReadDataInPlace' /\ Stays /\ CountInv' /\ SteadyInv'
  BY <1>1, <1>2, <1>3, CommandStays, MediaStay
<1>5. LinkInv'
  BY <1>1 DEF LinkInv, InBlock
<1> QED
  BY <1>1, <1>2, <1>4, <1>5

(* What was on a floppy's image stays there.                               *)
LEMMA WrittenStays ==
  ASSUME Known, FdInv, FirmwareAlone, InBlock, UNCHANGED slot,
         \A d \in Floppies : \A l : HasSector(d, l) /\ OnDisk(d, l) => OnDisk(d, l)'
  PROVE  /\ CompletedWritesAreStored'
         /\ fdc_state' = "UPDATE_SECTOR" /\ pending' = "write" /\ steady' =>
              Safe(drive, goal)'
<1>1. UNCHANGED <<bstate, fd_is_wr, fd_drv, fd_lba, fd_dead, fd_blk_wr>>
      /\ UNCHANGED fdcSide
  BY FirmwareSteps
<1>2. \A d \in Floppies : \A l : HasSector(d, l) /\ Safe(d, l) => Safe(d, l)'
  BY <1>1 DEF Safe, InHand
<1> QED
  BY <1>1, <1>2, SafeStays

(* A drained sector goes to its place in its drive's image.                *)
LEMMA FloppyWritten ==
  ASSUME Known, FdInv, FirmwareAlone, BlockFor("IDLE"), Store(blk_drv, blk_lba),
         UNCHANGED <<buf, slot>>
  PROVE  /\ FloppyInPlace'
         /\ \A d \in Floppies : \A l :
              HasSector(d, l) /\ OnDisk(d, l) => OnDisk(d, l)'
         /\ HasSector(fd_drv, fd_lba) => OnDisk(fd_drv, fd_lba)'
<1>1. /\ blk_drv = fd_drv /\ blk_lba = fd_lba /\ DrainedFor(fd_drv, fd_lba)
      /\ UNCHANGED <<fd_drv, fd_lba>> /\ Stays /\ InBlock
  BY FirmwareSteps DEF Known, Inv, Handshake, FdInv, CarryInv, BlockFor
<1>2. disk \in [DiskSectors -> Block] /\ buf \in Block /\ 0 \in Place
  BY PlaceFacts DEF Known, Inv, TypeOK, ServiceTypeOK
<1>3. /\ \A s \in DiskSectors :
           disk'[s] = IF HasSector(fd_drv, fd_lba) /\ s = <<slot[fd_drv], fd_lba>>
                      THEN buf ELSE disk[s]
      /\ ~HasSector(fd_drv, fd_lba) => disk' = disk
  BY <1>1, <1>2 DEF Store
<1>4. buf[0].from # "image"
  <2>1. Written(buf[0], fd_drv, fd_lba, 0)
    BY <1>1, <1>2 DEF DrainedFor
  <2> QED
    BY <2>1 DEF Written, Sent, CpuByte, Padding, Filler, Stale, Unmarked
<1>5. FloppyInPlace'
  <2>1. ASSUME NEW img \in FloppyImages, NEW l \in 0 .. TotalSectors - 1,
               NEW i \in Place
        PROVE  Good(disk[<<img, l>>][i], img, l, i)'
    <3>1. <<img, l>> \in DiskSectors
      BY ImagesAssumption DEF DiskSectors, Images, Sectors
    <3>2. Good(disk'[<<img, l>>][i], img, l, i)
      <4>1. CASE HasSector(fd_drv, fd_lba) /\ <<img, l>> = <<slot[fd_drv], fd_lba>>
        <5>1. disk'[<<img, l>>] = buf /\ l = fd_lba /\ img = slot[fd_drv]
          BY <1>3, <3>1, <4>1
        <5>2. Written(buf[i], fd_drv, l, i)
          BY <1>1, <5>1 DEF DrainedFor
        <5>3. fd_drv \in Homes(img)
          BY <5>1, ImagesAssumption, FdTypes DEF Known, Inv, AtHome
        <5> QED
          BY <5>1, <5>2, <5>3 DEF Written, Sent, Good, BelongsAt, InPlace, CpuByte,
             Padding, Filler, Unmarked
      <4>2. CASE ~(HasSector(fd_drv, fd_lba) /\ <<img, l>> = <<slot[fd_drv], fd_lba>>)
        <5>1. disk'[<<img, l>>] = disk[<<img, l>>]
          BY <1>3, <3>1, <4>2
        <5> QED
          BY <5>1 DEF FdInv, FloppyInPlace
      <4> QED
        BY <4>1, <4>2
    <3> QED
      BY <1>1, <3>2 DEF Good, Stays
  <2> QED
    BY <2>1 DEF FloppyInPlace
<1>6. ASSUME NEW d \in Floppies, NEW l, HasSector(d, l), OnDisk(d, l)
      PROVE  OnDisk(d, l)'
  <2>1. disk'[<<slot[d], l>>] \in {buf, disk[<<slot[d], l>>]}
    BY <1>3, <1>6 DEF HasSector
  <2> QED
    BY <1>4, <1>6, <2>1 DEF OnDisk
<1>7. HasSector(fd_drv, fd_lba) => OnDisk(fd_drv, fd_lba)'
  BY <1>1, <1>3, <1>4 DEF HasSector, OnDisk
<1> QED
  BY <1>5, <1>6, <1>7

(* The drives that have a block on the port, by what they return to.       *)
LEMMA PortReturns ==
  ASSUME Known, InBlock
  PROVE  /\ seq_ret \in {"IDLE", "FDD_RD_TX", "IDE_MOUNT_GEO", "IDE_RD_TX",
                         "IDE_STEP"}
         /\ seq_ret \in {"IDE_MOUNT_GEO", "IDE_RD_TX", "IDE_STEP"} =>
              blk_drv = HardDisk
  BY FdTypes DEF Known, Inv, Handshake, HdInv, BlockInv, BlockFor, Returns

(* A block of the hard disk.                                               *)
LEMMA AtaBlock ==
  ASSUME Known, FdInv, FirmwareAlone, InBlock,
         seq_ret \notin {"IDLE", "FDD_RD_TX"}, FdDiskKept, UNCHANGED slot
  PROVE  FdInv'
<1>1. /\ UNCHANGED <<bstate, fd_is_wr, fd_dead>> /\ UNCHANGED fdcSide /\ SteadyInv'
      /\ \A r : BlockFor(r)' <=> BlockFor(r)
  BY FirmwareSteps
<1>2. ~AtFloppy /\ ~AtFloppy'
  BY <1>1 DEF AtFloppy, BlockFor, InBlock
<1> QED
  BY <1>1, <1>2, FdAbsent

(* A block of the floppy's comes off the image, or cannot.                 *)
LEMMA FloppyStoredBlock ==
  ASSUME Known, FdInv, NEW b, NEW d \in Floppies, NEW l \in Nat,
         fd_drv = d, fd_lba = l, b = Stored(d, l),
         l < TotalSectors, fd_mounted[d]
  PROVE  \/ \A i \in Place : Good(b[i], slot[d], l, i)
         \/ /\ b = ZeroBlock /\ ~HasSector(d, l)
            /\ fd_pend[d] \/ fd_wait[d]
<1>1. l \in 0 .. TotalSectors - 1
  BY Sizes
<1>2. CASE HasSector(d, l)
  <2>1. slot[d] \in FloppyImages
    BY <1>2, FloppySlots, ImagesAssumption DEF HasSector, DiskSectors, Images
  <2> QED
    BY <1>1, <1>2, <2>1 DEF Stored, FdInv, FloppyInPlace
<1>3. CASE ~HasSector(d, l)
  <2>1. b = ZeroBlock
    BY <1>3 DEF Stored
  <2>2. slot[d] \notin FloppyImages
    BY <1>1, <1>3, ImagesAssumption DEF HasSector, DiskSectors, Images, Sectors
  <2>3. ~Mounted(d)
    BY <2>2, FloppySlots DEF Mounted
  <2>4. fd_pend[d] \/ fd_wait[d]
    BY <2>3 DEF Known, MediaAgrees
  <2> QED
    BY <1>3, <2>1, <2>4
<1> QED
  BY <1>2, <1>3

(* The ways to serve a block.                                              *)
LEMMA ServeKinds ==
  ASSUME Serve, NEW d, d = blk_drv
  PROVE  \/ blk_op = "read" /\ ~Internal(d) /\ ImageReadBegins(d)
         \/ blk_op = "write" /\ ~Internal(d) /\ ImageWrite(d, blk_lba)
         \/ /\ Internal(d)
            /\ \E err \in BOOLEAN : InternalServe(d, blk_op, blk_lba, err)
<1>1. blk_op = "read" /\ ImageReadBegins(d) => ~Internal(d)
  BY DEF ImageReadBegins
<1>2. blk_op = "write" /\ ImageWrite(d, blk_lba) => ~Internal(d)
  BY DEF ImageWrite
<1>3. ASSUME NEW err \in BOOLEAN, InternalServe(d, blk_op, blk_lba, err)
      PROVE  Internal(d)
  BY <1>3 DEF InternalServe
<1> QED
  BY <1>1, <1>2, <1>3 DEF Serve

(* The firmware serves the block.                                          *)
LEMMA FloppyServes ==
  ASSUME Known, FdInv, Serve
  PROVE  FdInv'
<1>1. /\ FirmwareAlone /\ blk_op # "none" /\ bstate = "BLK_ACK_HI" /\ InBlock
      /\ Inv /\ slot' = slot
  BY DEF Serve, Known, Inv, Handshake, InBlock, ImageReadBegins, ImageWrite,
     InternalServe
<1>2. /\ CommandInv' /\ ReadDataInPlace' /\ Stays /\ CountInv' /\ SteadyInv'
      /\ LinkInv'
      /\ UNCHANGED <<bstate, seq_ret, blk_op, blk_drv, blk_lba, xzero, fd_is_wr,
                     fd_drv, fd_lba, fd_dead, fd_blk_wr, fd_pend, fd_wait,
                     fd_mounted>>
      /\ \A r : BlockFor(r)' <=> BlockFor(r)
  BY <1>1, FirmwareSteps
<1>3. /\ blk_op \in {"read", "write"} /\ fd_drv \in Floppies /\ fd_drv \in VDrives
      /\ fd_lba \in Nat /\ ack \in [VDrives -> BOOLEAN]
      /\ blk_op = "write" <=> seq_ret \in {"IDLE", "IDE_STEP"}
  BY <1>1, FdTypes DEF Known, HdInv, BlockInv, Inv, TypeOK, BridgeTypeOK
<1>4. CASE seq_ret = "FDD_RD_TX"
  <2>1. /\ blk_op = "read" /\ blk_drv = fd_drv /\ blk_lba = fd_lba
        /\ fd_mounted[fd_drv] /\ ~xzero /\ fd_lba < TotalSectors
        /\ BlockFor("FDD_RD_TX") /\ ~BlockFor("IDLE")
    BY <1>1, <1>3, <1>4 DEF FdInv, CarryInv, BlockFor
  <2>2. disk' = disk
    BY <2>1 DEF Serve, ImageReadBegins, ImageWrite, InternalServe
  <2>3. IF Internal(fd_drv) THEN ~copying' ELSE copying'
    <3>1. CASE Internal(fd_drv)
      <4>1. ~copying
        BY <2>1, <3>1 DEF FdInv, CarryInv
      <4>2. \E err \in BOOLEAN : InternalServe(fd_drv, blk_op, blk_lba, err)
        BY <2>1, <3>1, ServeKinds
      <4> QED
        BY <3>1, <4>1, <4>2 DEF InternalServe
    <3>2. CASE ~Internal(fd_drv)
      <4>1. ImageReadBegins(fd_drv)
        BY <2>1, <3>2, ServeKinds
      <4> QED
        BY <3>2, <4>1 DEF ImageReadBegins
    <3> QED
      BY <3>1, <3>2
  <2>4. ~copying' => blk_err' \/ ReadFor(fd_drv, fd_lba)'
    <3>1. SUFFICES ASSUME Internal(fd_drv), ~blk_err'
                   PROVE  ReadFor(fd_drv, fd_lba)'
      BY <2>3
    <3>2. buf' = Stored(fd_drv, fd_lba)
      <4>1. PICK err \in BOOLEAN : InternalServe(fd_drv, blk_op, blk_lba, err)
        BY <2>1, <3>1, ServeKinds
      <4> QED
        BY <2>1, <3>1, <4>1 DEF InternalServe
    <3>3. \/ \A i \in Place : Good(buf'[i], slot[fd_drv], fd_lba, i)
          \/ /\ buf' = ZeroBlock
             /\ fd_pend[fd_drv] \/ fd_wait[fd_drv]
      BY <1>3, <2>1, <3>2, FloppyStoredBlock
    <3> QED
      BY <1>1, <1>2, <3>3 DEF ReadFor, Good, Stays
  <2>5. CarryInv'
    <3>1. bstate' \notin {"FDD_RD_CHK", "FDD_WR_STORE"}
      BY <1>1, <1>2
    <3> QED
      BY <1>2, <2>1, <2>3, <2>4, <3>1 DEF CarryInv, Internal
  <2>6. FloppyInPlace'
    BY <1>2, <2>2 DEF FdInv, FloppyInPlace, Good, Stays
  <2>7. WrittenInv' /\ CompletedWritesAreStored'
    <3>1. \A d \in Floppies : \A l : HasSector(d, l) /\ OnDisk(d, l) => OnDisk(d, l)'
      BY <1>1, <2>2 DEF OnDisk
    <3> QED
      BY <1>1, <1>2, <2>1, <3>1, WrittenStays DEF WrittenInv
  <2> QED
    BY <1>2, <2>5, <2>6, <2>7 DEF FdInv
<1>5. CASE seq_ret = "IDLE"
  <2>1. /\ blk_op = "write" /\ blk_drv = fd_drv /\ blk_lba = fd_lba
        /\ BlockFor("IDLE") /\ ~BlockFor("FDD_RD_TX") /\ fd_is_wr /\ fd_blk_wr
        /\ ~copying /\ DrainedFor(fd_drv, fd_lba)
    BY <1>1, <1>3, <1>5 DEF FdInv, CarryInv, BlockFor, Known, Inv, Handshake
  <2>2. /\ UNCHANGED <<buf, copying>>
        /\ \/ Store(blk_drv, blk_lba)
           \/ disk' = disk /\ blk_err'
    <3>1. CASE ImageWrite(blk_drv, blk_lba)
      BY <3>1 DEF ImageWrite
    <3>2. ASSUME NEW err \in BOOLEAN,
                 InternalServe(blk_drv, blk_op, blk_lba, err)
          PROVE  /\ UNCHANGED <<buf, copying>>
                 /\ \/ Store(blk_drv, blk_lba)
                    \/ disk' = disk /\ blk_err'
      BY <2>1, <3>2 DEF InternalServe
    <3> QED
      BY <2>1, <3>1, <3>2, ServeKinds
  <2>3. CarryInv'
    <3>1. bstate' \notin {"FDD_RD_CHK", "FDD_WR_STORE"} /\ DrainedFor(fd_drv, fd_lba)'
      BY <1>1, <1>2, <2>1, <2>2, GoodKept
    <3> QED
      BY <1>2, <2>1, <2>2, <3>1 DEF CarryInv
  <2>4. /\ FloppyInPlace'
        /\ \A d \in Floppies : \A l : HasSector(d, l) /\ OnDisk(d, l) => OnDisk(d, l)'
        /\ blk_err' \/ ~HasSector(fd_drv, fd_lba) \/ OnDisk(fd_drv, fd_lba)'
    <3>1. CASE Store(blk_drv, blk_lba)
      BY <1>1, <2>1, <2>2, <3>1, FloppyWritten
    <3>2. CASE disk' = disk /\ blk_err'
      BY <1>1, <1>2, <3>2 DEF FdInv, FloppyInPlace, Good, Stays, OnDisk
    <3> QED
      BY <2>2, <3>1, <3>2
  <2>5. WrittenInv' /\ CompletedWritesAreStored'
    BY <1>1, <1>2, <2>4, WrittenStays DEF WrittenInv, HasSector, OnDisk
  <2> QED
    BY <1>2, <2>3, <2>4, <2>5 DEF FdInv
<1>6. CASE seq_ret \notin {"IDLE", "FDD_RD_TX"}
  <2>1. blk_drv = HardDisk /\ ~Internal(HardDisk)
    BY <1>1, <1>6, PortReturns, Drives
  <2>2. disk' = disk \/ Store(HardDisk, blk_lba)
    BY <2>1 DEF Serve, ImageReadBegins, ImageWrite, InternalServe
  <2>3. FdDiskKept
    <3>1. slot[HardDisk] \notin FloppyImages /\ disk \in [DiskSectors -> Block]
      BY ImagesAssumption DEF Known, HdInv, SlotInv, Inv, TypeOK, ServiceTypeOK
    <3>2. \A img \in FloppyImages, l \in 0 .. TotalSectors - 1 :
            <<img, l>> \in DiskSectors /\ <<img, l>> # <<slot[HardDisk], blk_lba>>
      BY <3>1, ImagesAssumption DEF DiskSectors, Images, Sectors
    <3> QED
      BY <2>2, <3>1, <3>2 DEF Store, FdDiskKept
  <2> QED
    BY <1>1, <1>6, <2>3, AtaBlock
<1> QED
  BY <1>4, <1>5, <1>6

(* What a copy or a pulse leaves alone.                                    *)
LEMMA ServedKeeps ==
  ASSUME Known, FdInv, NEW d \in VDrives, Served(d)
  PROVE  /\ FirmwareAlone /\ InBlock /\ bstate = "BLK_ACK_LO" /\ d = blk_drv
         /\ ack[d] /\ ack' = [ack EXCEPT ![d] = FALSE] /\ ~ack'[d]
         /\ \A e \in VDrives : ~ack'[e]
         /\ ~copying' /\ UNCHANGED <<disk, slot, blk_err>>
         /\ buf' = IF copying THEN Stored(d, blk_lba) ELSE buf
<1>1. /\ FirmwareAlone /\ bstate # "BLK_ACK_HI" /\ ack[d]
      /\ ack' = [ack EXCEPT ![d] = FALSE] /\ copying' = FALSE
      /\ UNCHANGED <<disk, slot, blk_err>>
      /\ buf' = IF copying THEN Stored(d, blk_lba) ELSE buf
  BY DEF Served, AckEnds, SetAck, AckRiseSeen
<1>2. InBlock /\ d = blk_drv /\ \A e \in VDrives : ack[e] => e = d
  BY <1>1 DEF Known, Inv, Handshake
<1>3. ack \in [VDrives -> BOOLEAN]
  BY FdTypes DEF Known
<1>4. ~ack'[d] /\ \A e \in VDrives : ~ack'[e]
  BY <1>1, <1>2, <1>3
<1> QED
  BY <1>1, <1>2, <1>4 DEF InBlock

(* The firmware's copy of a block or its pulse ends.                       *)
LEMMA FloppyCopied ==
  ASSUME Known, FdInv, NEW d \in VDrives, Served(d)
  PROVE  FdInv'
<1>1. /\ FirmwareAlone /\ InBlock /\ bstate = "BLK_ACK_LO" /\ d = blk_drv
      /\ ack[d] /\ \A e \in VDrives : ~ack'[e]
      /\ ~copying' /\ UNCHANGED <<disk, slot, blk_err>>
      /\ buf' = IF copying THEN Stored(d, blk_lba) ELSE buf
  BY ServedKeeps
<1>2. /\ CommandInv' /\ ReadDataInPlace' /\ Stays /\ CountInv' /\ SteadyInv'
      /\ LinkInv'
      /\ UNCHANGED <<bstate, seq_ret, blk_op, blk_drv, blk_lba, xzero, fd_is_wr,
                     fd_drv, fd_lba, fd_dead, fd_blk_wr, fd_pend, fd_wait,
                     fd_mounted>>
      /\ \A r : BlockFor(r)' <=> BlockFor(r)
  BY <1>1, FirmwareSteps
<1>3. /\ fd_drv \in Floppies /\ fd_drv \in VDrives /\ fd_lba \in Nat
  BY FdTypes DEF Known
<1>4. FloppyInPlace'
  BY <1>1, <1>2 DEF FdInv, FloppyInPlace, Good, Stays
<1>5. CompletedWritesAreStored'
      /\ (fdc_state' = "UPDATE_SECTOR" /\ pending' = "write" /\ steady' =>
            Safe(drive, goal)')
  <2>1. \A e \in Floppies : \A l : HasSector(e, l) /\ OnDisk(e, l) => OnDisk(e, l)'
    BY <1>1 DEF OnDisk
  <2> QED
    BY <1>1, <2>1, WrittenStays
<1>6. bstate' = "BLK_ACK_LO"
  BY <1>1, <1>2
<1>7. CASE seq_ret = "FDD_RD_TX"
  <2>1. /\ blk_drv = fd_drv /\ blk_lba = fd_lba /\ fd_mounted[fd_drv] /\ ~xzero
        /\ fd_lba < TotalSectors
        /\ copying \/ blk_err \/ ReadFor(fd_drv, fd_lba)
        /\ BlockFor("FDD_RD_TX") /\ ~BlockFor("IDLE")
    BY <1>1, <1>7 DEF FdInv, CarryInv, BlockFor
  <2>2. blk_err' \/ ReadFor(fd_drv, fd_lba)'
    <3>1. CASE copying
      <4>1. buf' = Stored(fd_drv, fd_lba)
        BY <1>1, <2>1, <3>1
      <4>2. \/ \A i \in Place : Good(buf'[i], slot[fd_drv], fd_lba, i)
            \/ buf' = ZeroBlock /\ (fd_pend[fd_drv] \/ fd_wait[fd_drv])
        BY <1>3, <2>1, <4>1, FloppyStoredBlock
      <4> QED
        BY <1>1, <1>2, <4>2 DEF ReadFor, Good, Stays
    <3>2. CASE ~copying
      <4>1. buf' = buf
        BY <1>1, <3>2
      <4> QED
        BY <1>1, <1>2, <2>1, <3>2, <4>1 DEF ReadFor, Good, Loose, Stays
    <3> QED
      BY <3>1, <3>2
  <2>3. CarryInv'
    <3>1. ~ack'[fd_drv] /\ ~copying'
      BY <1>1, <1>3
    <3> QED
      BY <1>2, <1>6, <2>1, <2>2, <3>1 DEF CarryInv
  <2>4. WrittenInv'
    BY <1>2, <1>5, <2>1 DEF WrittenInv
  <2> QED
    BY <1>2, <1>4, <1>5, <2>3, <2>4 DEF FdInv
<1>8. CASE seq_ret = "IDLE"
  <2>1. /\ BlockFor("IDLE") /\ ~BlockFor("FDD_RD_TX") /\ fd_is_wr /\ fd_blk_wr
        /\ blk_lba = fd_lba /\ ~copying /\ DrainedFor(fd_drv, fd_lba)
        /\ blk_err \/ ~HasSector(fd_drv, fd_lba) \/ OnDisk(fd_drv, fd_lba)
    BY <1>1, <1>8 DEF FdInv, CarryInv, WrittenInv, BlockFor
  <2>2. buf' = buf
    BY <1>1, <2>1
  <2>3. CarryInv'
    <3>1. DrainedFor(fd_drv, fd_lba)'
      BY <1>2, <2>1, <2>2 DEF DrainedFor, Written, Sent, Stays
    <3> QED
      BY <1>1, <1>2, <1>6, <2>1, <3>1 DEF CarryInv
  <2>4. WrittenInv'
    <3>1. (blk_err \/ ~HasSector(fd_drv, fd_lba) \/ OnDisk(fd_drv, fd_lba))'
      BY <1>1, <1>2, <2>1 DEF HasSector, OnDisk
    <3> QED
      BY <1>5, <3>1 DEF WrittenInv
  <2> QED
    BY <1>2, <1>4, <1>5, <2>3, <2>4 DEF FdInv
<1>9. CASE seq_ret \notin {"IDLE", "FDD_RD_TX"}
  BY <1>1, <1>9, AtaBlock DEF FdDiskKept
<1> QED
  BY <1>7, <1>8, <1>9

(* A disk goes into a drive, or out of it: what the PC does with that      *)
(* drive is no longer steady, what it has written there no longer counts.  *)
LEMMA FloppyPutIn ==
  ASSUME Known, FdInv, NEW m \in FloppyMounts, MountFloppy(m)
  PROVE  FdInv'
<1> DEFINE d == m.drv
<1>1. /\ bstate # "BLK_ACK_LO" /\ \A e \in VDrives : ~ack[e]
      /\ slot' = [slot EXCEPT ![d] = m.img]
      /\ blk_err' = (blk_err /\ ~Internal(d))
      /\ UNCHANGED <<ack, copying, buf, disk>>
      /\ UNCHANGED <<bstate, seq_ret, portVars, streamVars, fdVars>>
      /\ fd_pend' = [fd_pend EXCEPT ![d] = TRUE]
      /\ UNCHANGED <<fd_wait, fd_mounted>>
      /\ UNCHANGED <<fdcVars, goal>>
      /\ steady' = (steady /\ drive # d)
      /\ completed' = {w \in completed : w[1] # d}
  BY DEF MountFloppy, Mount, FloppyStrobe, AckFallSeen, FirmwareIdle,
     fdcVars
<1>2. /\ d \in Floppies /\ fd_pend \in [Floppies -> BOOLEAN]
      /\ slot \in [VDrives -> Slots] /\ d \in VDrives /\ steady \in BOOLEAN
      /\ drive \in Floppies /\ blk_err \in BOOLEAN
      /\ \A w \in completed : w[1] \in Floppies /\ w[1] \in VDrives
  BY ScenarioAssumption, FdTypes DEF Known, Inv, TypeOK, ServiceTypeOK, VDrives
<1>3. /\ UNCHANGED <<fdc_state, pending, drive, loc, logical, sd_sector, fifo,
                     format_counter, terminated, dma_left, media_present,
                     media_wp, goal>>
      /\ UNCHANGED <<bstate, seq_ret, blk_op, blk_drv, blk_lba, xzero, xcnt,
                     fd_is_wr, fd_drv, fd_lba, fd_dead, fd_blk_wr>>
  BY <1>1 DEF fdcVars, portVars, streamVars, fdVars
<1>4. Stays /\ completed' \subseteq completed /\ (steady' => steady)
  BY <1>1, <1>2, <1>3 DEF Stays, Stuck
<1>14. /\ drive' = drive /\ (steady' => steady)
       /\ steady' => slot'[drive] = slot[drive]
  BY <1>1, <1>2, <1>3, <1>4 DEF VDrives
<1>5. \A r : BlockFor(r)' <=> BlockFor(r)
  BY <1>3 DEF BlockFor, InBlock
<1>6. CommandInv'
  <2>1. OrderInv' /\ ReadsOnly' /\ AimInv' /\ FillInv'
    BY <1>3, <1>4 DEF FdInv, CommandInv, OrderInv, ReadsOnly, AimInv, FillInv
  <2>2. WalkInv'
    BY <1>3 DEF FdInv, CommandInv, WalkInv, Walks, Held, Between
  <2> QED
    BY <2>1, <2>2 DEF CommandInv
<1>7. SteadyInv'
  <2>1. ASSUME NEW e \in Floppies, e # d, Settled(e)
        PROVE  Settled(e)'
    BY <1>1, <1>2, <1>3, <2>1 DEF Settled
  <2>2. steady' /\ pending' # "none" =>
          Settled(drive)' /\ (pending' # "read" => ~media_wp'[drive'])
    BY <1>1, <1>2, <1>3, <2>1 DEF FdInv, SteadyInv
  <2>3. ASSUME NEW w \in completed'
        PROVE  Settled(w[1])' /\ ~media_wp'[w[1]] /\ w[2] < TotalSectors
    BY <1>1, <1>2, <1>3, <2>1 DEF FdInv, SteadyInv
  <2> QED
    BY <2>2, <2>3 DEF SteadyInv
<1>8. CarryInv'
  <2>1. /\ bstate' # "BLK_ACK_LO" /\ \A e \in VDrives : ~ack'[e]
        /\ buf' = buf /\ copying' = copying
        /\ UNCHANGED <<fd_wait, fd_mounted>>
    BY <1>1
  <2>2. \A e \in Floppies : fd_pend[e] => fd_pend'[e]
    BY <1>1, <1>2
  <2>3. fd_drv \in Floppies /\ fd_drv \in VDrives
    BY FdTypes DEF Known
  <2>4. ReadFor(fd_drv, fd_lba) => ReadFor(fd_drv, fd_lba)'
    <3>1. CASE fd_drv # d
      <4>1. slot'[fd_drv] = slot[fd_drv]
        BY <1>1, <1>2, <2>3, <3>1
      <4> QED
        BY <1>3, <1>4, <2>1, <2>2, <2>3, <4>1 DEF ReadFor, Good, Loose, Stays
    <3>2. CASE fd_drv = d
      <4>1. fd_pend'[fd_drv']
        BY <1>1, <1>2, <1>3, <3>2
      <4>2. (\A i \in Place : Good(buf[i], slot[d], fd_lba, i)) =>
              (\A i \in Place : Loose(buf[i], fd_lba, i))
        BY DEF Good, Loose, BelongsAt
      <4> QED
        BY <1>3, <1>4, <2>1, <3>2, <4>1, <4>2 DEF ReadFor, Loose, Stays
    <3> QED
      BY <3>1, <3>2
  <2>5. DrainedFor(fd_drv, fd_lba) => DrainedFor(fd_drv, fd_lba)'
    BY <1>3, <1>4, <2>1 DEF DrainedFor, Written, Sent, Stays
  <2> QED
    BY <1>3, <1>5, <2>1, <2>3, <2>4, <2>5 DEF FdInv, CarryInv, Internal
<1>9. LinkInv' /\ CountInv'
  <2>0. \A b, l, i : Offered(b, l, i) => Offered(b, l, i)'
    BY <1>14 DEF Offered, BelongsAt
  <2>1. /\ (Sending => Sending')
        /\ (Draining => Draining') /\ (ToDrain => ToDrain')
        /\ (Requesting' <=> Requesting) /\ (ReadRequest' <=> ReadRequest)
        /\ (WriteRequest' <=> WriteRequest)
    BY <1>1, <1>3, <1>4, <2>0 DEF Sending, Draining, ToDrain, Requesting,
       ReadRequest, WriteRequest, Waiting
  <2>2. \A b, e, l, i : Written(b, e, l, i) => Written(b, e, l, i)'
    BY <1>4 DEF Written, Sent, Stays
  <2> QED
    BY <1>1, <1>3, <2>1, <2>2 DEF FdInv, LinkInv, CountInv
<1>10. FloppyInPlace' /\ ReadDataInPlace'
  <2>1. FloppyInPlace'
    BY <1>1, <1>4 DEF FdInv, FloppyInPlace, Good, Stays
  <2>2. ReadDataInPlace'
    BY <1>3, <1>4, <1>14 DEF FdInv, ReadDataInPlace, BelongsAt
  <2> QED
    BY <2>1, <2>2
<1>11. \A e \in Floppies : \A l : e # d =>
         /\ (OnDisk(e, l)' <=> OnDisk(e, l))
         /\ (InHand(e, l)' <=> InHand(e, l))
         /\ (Safe(e, l)' <=> Safe(e, l))
  <2>1. \A e \in Floppies : e # d => slot'[e] = slot[e]
    BY <1>1, <1>2 DEF VDrives
  <2> QED
    BY <1>1, <1>3, <2>1 DEF OnDisk, InHand, Safe
<1>12. WrittenInv'
  <2>1. ~(BlockFor("IDLE") /\ (bstate = "BLK_ACK_LO" \/ ack[blk_drv]))'
    BY <1>1, <1>3, FdTypes DEF Known, Inv, TypeOK, BridgeTypeOK
  <2>2. fdc_state' = "UPDATE_SECTOR" /\ pending' = "write" /\ steady' =>
          Safe(drive, goal)'
    BY <1>1, <1>2, <1>3, <1>4, <1>11 DEF FdInv, WrittenInv
  <2> QED
    BY <2>1, <2>2 DEF WrittenInv
<1>13. CompletedWritesAreStored'
  <2>1. ASSUME NEW w \in completed'
        PROVE  Safe(w[1], w[2])'
    <3>1. w \in completed /\ w[1] # d
      BY <1>1
    <3>2. Safe(w[1], w[2])
      BY <3>1 DEF FdInv, CompletedWritesAreStored, Safe, OnDisk
    <3> QED
      BY <1>2, <1>11, <3>1, <3>2
  <2> QED
    BY <2>1 DEF CompletedWritesAreStored, Safe, OnDisk
<1> QED
  BY <1>6, <1>7, <1>8, <1>9, <1>10, <1>12, <1>13 DEF FdInv

-----------------------------------------------------------------------------
(* The invariant and the theorems.                                         *)

LEMMA FdStarts == Init => FdInv
<1> SUFFICES ASSUME Init PROVE FdInv
  OBVIOUS
<1>2. /\ fdc_state = "IDLE" /\ pending = "none" /\ fifo = <<>>
      /\ format_counter = 0 /\ ~terminated /\ bstate = "IDLE" /\ ~fd_is_wr
      /\ completed = {} /\ ~steady
      /\ disk = [s \in DiskSectors |-> ImageBlock(s[1], s[2])]
  BY DEF Init, FdcInit, BridgeInit, ServiceInit
<1>3. CommandInv
  BY <1>2 DEF CommandInv, OrderInv, ReadsOnly, WalkInv, AimInv, FillInv
<1>4. SteadyInv /\ LinkInv /\ CountInv
  BY <1>2 DEF SteadyInv, LinkInv, CountInv
<1>5. CarryInv /\ WrittenInv /\ ReadDataInPlace /\ CompletedWritesAreStored
  BY <1>2 DEF CarryInv, WrittenInv, ReadDataInPlace, CompletedWritesAreStored,
     BlockFor, InBlock
<1>6. FloppyInPlace
  <2>1. ASSUME NEW img \in FloppyImages, NEW l \in 0 .. TotalSectors - 1,
               NEW i \in Place
        PROVE  Good(disk[<<img, l>>][i], img, l, i)
    <3>1. <<img, l>> \in DiskSectors
      BY ImagesAssumption DEF DiskSectors, Images, Sectors
    <3>2. disk[<<img, l>>] = ImageBlock(img, l)
      BY <1>2, <3>1
    <3> QED
      BY <3>2 DEF ImageBlock, ImageByte, Good, BelongsAt, InPlace
  <2> QED
    BY <2>1 DEF FloppyInPlace
<1> QED
  BY <1>3, <1>4, <1>5, <1>6 DEF FdInv

LEMMA FdBridge ==
  ASSUME Orderly, Known, Inv', FdInv, BridgeNext
  PROVE  FdInv'
<1>1. CASE \/ BridgeMountHd \/ BridgeMountHdDone
           \/ BridgeIdeReset \/ BridgeIdeDispatch \/ BridgeIdeData
           \/ BridgeIdeFetch \/ BridgeIdeSend \/ BridgeIdeStore \/ BridgeIdeStored
           \/ BridgeWaitOver \/ BridgeError
  BY <1>1, AtaWork
<1>2. CASE \E d \in Floppies : BridgeEject(d) \/ BridgeInsert(d)
  BY <1>2, MediaChanged
<1>3. CASE BridgeRequest \/ BridgeSampleKind
  BY <1>3, FdRequested
<1>4. CASE BridgeDispatch
  BY <1>4, FloppyDispatched
<1>5. CASE BridgeCheck
  BY <1>5, FloppyChecked
<1>6. CASE BridgeSendByte
  BY <1>6, FloppySends
<1>7. CASE BridgeTakeByte
  BY <1>7, FloppyTakes
<1>8. CASE BridgeStore
  BY <1>8, FloppyStores
<1>9. CASE BridgeAckRises
  BY <1>9, FloppyAckRises
<1>10. CASE BridgeAckFalls
  BY <1>10, FloppyAckFalls
<1> QED
  BY <1>1, <1>2, <1>3, <1>4, <1>5, <1>6, <1>7, <1>8, <1>9, <1>10 DEF BridgeNext

LEMMA FdInductive ==
  ASSUME Orderly, Known, Inv', FdInv, [Next]_vars
  PROVE  FdInv'
<1>0. Inv /\ HdInv
  BY DEF Known
<1>1. ASSUME NEW cmd \in FdcCommands, StartCommand(cmd)
      PROVE  FdInv'
  <2>1. \/ fdc_state' = "IDLE" /\ pending' = "none"
        \/ StartAccepted(cmd)
    BY <1>0, <1>1, Starting
  <2> QED
    BY <1>0, <1>1, <2>1, NotAccepted, CommandAccepted
<1>2. CASE FdcStep \/ Dma
  BY <1>0, <1>2, ControllerSteps
<1>3. CASE FdcWrote
  BY <1>0, <1>3, SectorDone
<1>4. CASE Result \/ SoftReset \/ ResetButton
  BY <1>0, <1>4, Answered, SoftlyReset, ButtonPressed
<1>5. CASE \/ IdeStart \/ IdeTransfer \/ IdeSrst \/ UNCHANGED vars
           \/ \E m \in HdMounts : MountHardDisk(m)
  BY <1>0, <1>5, AtaSide
<1>6. CASE BridgeNext
  BY <1>6, FdBridge
<1>7. CASE Serve \/ \E d \in VDrives : Served(d)
  BY <1>7, FloppyServes, FloppyCopied
<1>8. CASE \E m \in FloppyMounts : MountFloppy(m)
  BY <1>8, FloppyPutIn
<1> QED
  BY <1>1, <1>2, <1>3, <1>4, <1>5, <1>6, <1>7, <1>8 DEF Next, Machine

LEMMA FdInvariant == ASSUME Orderly PROVE Spec => []FdInv
<1>1. Inv /\ HdInv /\ MediaAgrees => Known
  BY DEF Known
<1>2. Known /\ Inv' /\ FdInv /\ [Next]_vars => FdInv'
  BY FdInductive
<1> QED
  BY <1>1, <1>2, FdStarts, Invariant, HdInvariant, MediaCorrect, PTL DEF Spec

(* A READ hands the PC the sector its command is at, whole and in order,   *)
(* whatever was abandoned, ejected or failed before: in every orderly      *)
(* scenario, for every geometry, transfer length and interleaving of the   *)
(* bridge with the controller, the firmware and the hard disk.             *)
THEOREM ReadsInPlace == ASSUME Orderly PROVE Spec => []ReadDataInPlace
<1>1. FdInv => ReadDataInPlace
  BY DEF FdInv
<1> QED
  BY <1>1, FdInvariant, PTL

(* Every sector of every floppy image holds bytes of that image or bytes   *)
(* that the PC wrote to a drive the image goes into, meant for that sector *)
(* and in their places: no write, format, mount or reset in an orderly     *)
(* scenario stores a sector shifted, short, at another sector or on the    *)
(* other drive.  A reset that selects the other drive beside a write does: *)
(* WritesReachTheirDrive is violated, and Orderly leaves it out.           *)
THEOREM ImagesInPlace == ASSUME Orderly PROVE Spec => []SectorsInPlace
<1>1. ASSUME FdInv
      PROVE  SectorsInPlace
  <2>1. SUFFICES ASSUME NEW s \in DiskSectors, s[1] \in FloppyImages,
                        NEW i \in Place
                 PROVE  BelongsAt(disk[s][i], s[1], s[2], i) \/ disk[s][i] = Stale
    BY DEF SectorsInPlace
  <2>2. s = <<s[1], s[2]>> /\ s[2] \in 0 .. TotalSectors - 1
    BY <2>1, ImagesAssumption DEF DiskSectors, Sectors
  <2>3. Good(disk[<<s[1], s[2]>>][i], s[1], s[2], i)
    BY <1>1, <2>1, <2>2 DEF FdInv, FloppyInPlace
  <2> QED
    BY <2>2, <2>3 DEF Good
<1> QED
  BY <1>1, FdInvariant, PTL

(* A sector that the controller has reported written is on its image, in   *)
(* the bridge's hands on its way there, or its drive is dead.              *)
THEOREM WritesAreStored == ASSUME Orderly PROVE Spec => []CompletedWritesAreStored
<1>1. FdInv => CompletedWritesAreStored
  BY DEF FdInv
<1> QED
  BY <1>1, FdInvariant, PTL
=============================================================================
