------------------------------- MODULE Floppy -------------------------------
(***************************************************************************)
(* The floppy disk controller (CORE/rtl/overlay/floppy.v): the data        *)
(* commands READ DATA, WRITE DATA and FORMAT TRACK, from the last command  *)
(* byte to the result phase, with the 8237 channel that moves their bytes  *)
(* and the management side that mgmt_bridge works on.                      *)
(*                                                                         *)
(* Abstractions.  A command's bytes are issued as one step, the motor of   *)
(* the drive is on and the transfer runs in DMA mode (the PC's BIOS never  *)
(* sets the non-DMA bit).  The 8237 is dma_left, the units it still moves: *)
(* bytes, or ID fields for a format.  Location and EOT are those of the    *)
(* running command, which sets them for its drive before they are used.    *)
(* A DOR write that resets nothing (the motors, the selection before a     *)
(* command) is left out, as are SEEK, RECALIBRATE and READ ID.             *)
(***************************************************************************)
EXTENDS StorageData

VARIABLES
  fdc_state,      \* state of the sector state machine
  pending,        \* pending_command: the data command in progress
  busy,           \* MSR busy: a command was accepted and not yet answered
  reply,          \* reply_left > 0: the result the CPU has not read yet
  drive,          \* selected_drive
  loc,            \* cylinder, head, sector, EOT and multitrack
  logical,        \* logical_sector
  sd_sector,      \* the sector the management side is asked for
  fifo,           \* bytes of the 512-byte FIFO
  format_counter, \* management reads since idle, modulo the sector size
  terminated,     \* dma_has_terminated
  dma_left,       \* what the 8237 is still programmed to move
  media_present,
  media_wp,
  goal            \* history: the sector the command is at by its own count

fdcVars == <<fdc_state, pending, busy, reply, drive, loc, logical, sd_sector,
             fifo, format_counter, terminated, dma_left,
             media_present, media_wp, goal>>
mediaVars == <<media_present, media_wp>>

FdcStates == {"IDLE", "PREPARE_COUNT", "COUNT_LOGICAL", "PREPARE",
  "SD_CONTROL", "SD_READ", "EMPTY_READ", "UPDATE_SECTOR", "CHECK_TC", "WAIT",
  "FULL_WRITE", "SD_WRITE", "FORMAT_INPUT", "FORMAT_FILL"}
Commands == {"read", "write", "format"}

(* count is what the 8237 is programmed for; a format's is one track.      *)
FdcCommand ==
  {cmd \in [op : Commands, drv : Floppies, c : Nat, h : {0, 1},
            r : Nat \ {0}, eot : Nat, mt : BOOLEAN, count : Nat \ {0}] :
     cmd.op = "format" => cmd.count <= SectorsPerTrack}
Location == [c : Nat, h : {0, 1}, s : Nat \ {0}, eot : Nat, mt : BOOLEAN]
(* Bug: the reset leaves the sector register at 0.                         *)
HomeAtZero == [c |-> 0, h |-> 0, s |-> 0, eot |-> 0, mt |-> FALSE]
Home == [c |-> 0, h |-> 0, s |-> 1, eot |-> 0, mt |-> FALSE]

FdcTypeOK ==
  /\ fdc_state \in FdcStates
  /\ pending \in Commands \cup {"none"}
  /\ busy \in BOOLEAN
  /\ reply \in {"none", "normal", "abnormal"}
  /\ drive \in Floppies
  /\ loc \in Location
  /\ logical \in Nat /\ sd_sector \in Nat /\ goal \in Nat
  /\ fifo \in Seq(Byte)
  /\ format_counter \in Place
  /\ terminated \in BOOLEAN
  /\ dma_left \in Nat
  /\ pending = "format" => dma_left <= SectorsPerTrack
  /\ media_present \in [Floppies -> BOOLEAN]
  /\ media_wp \in [Floppies -> BOOLEAN]

FdcInit ==
  /\ fdc_state = "IDLE" /\ pending = "none"
  /\ busy = FALSE /\ reply = "none"
  /\ drive = 0 /\ loc = Home
  /\ logical = 0 /\ sd_sector = 0 /\ goal = 0
  /\ fifo = <<>> /\ format_counter = 0
  /\ terminated = FALSE /\ dma_left = 0
  /\ media_present = [d \in Floppies |-> FALSE]
  /\ media_wp = [d \in Floppies |-> FALSE]

-----------------------------------------------------------------------------
(* The management side: the request levels and the register file.          *)
Waiting == fdc_state \in {"SD_READ", "SD_WRITE", "FORMAT_FILL"}
ReadRequest == Waiting /\ pending = "read"
WriteRequest == Waiting /\ pending \in {"write", "format"}
Requesting == ReadRequest \/ WriteRequest

(* A byte written to the FIFO port.  The FIFO is held clear in the idle    *)
(* state and listens to the DMA side while a write fills it.  The machine  *)
(* follows the full and empty flags within two clocks, before the bridge's *)
(* next bus cycle, so the byte and the transition are one step.            *)
MgmtPush(b) ==
  LET full == fdc_state = "SD_READ" /\ Len(fifo) = BlockBytes - 1 IN
  /\ fifo' = IF fdc_state \in {"IDLE", "FULL_WRITE"} THEN fifo
                                                     ELSE Append(fifo, b)
  /\ fdc_state' = IF full THEN "EMPTY_READ" ELSE fdc_state
  /\ UNCHANGED <<pending, busy, reply, drive, loc, logical, sd_sector,
       format_counter, terminated, dma_left, mediaVars, goal>>

(* What a read of the FIFO port returns: the filler while a format runs.   *)
MgmtByte == IF pending = "format" THEN Filler
            ELSE IF fdc_state = "FORMAT_FILL" THEN Stale
            ELSE IF fifo = <<>> THEN Junk ELSE Head(fifo)

(* A read of the FIFO port: it pops, except while the DMA side reads, and  *)
(* it counts; the count's wrap ends the fill of a format.                  *)
MgmtPop ==
  LET wrap == format_counter = BlockBytes - 1
      empty == fdc_state = "SD_WRITE" /\ Len(fifo) = 1 IN
  /\ fifo' = IF fifo = <<>> \/ fdc_state = "EMPTY_READ" THEN fifo
                                                        ELSE Tail(fifo)
  /\ format_counter' = IF fdc_state = "IDLE" \/ wrap THEN 0
                                                     ELSE format_counter + 1
  /\ fdc_state' = IF fdc_state = "FORMAT_FILL" /\ wrap THEN "WAIT"
                  ELSE IF empty THEN "UPDATE_SECTOR" ELSE fdc_state
  /\ UNCHANGED <<pending, busy, reply, drive, loc, logical, sd_sector,
       terminated, dma_left, mediaVars, goal>>

MgmtMedia(d, present, wp) ==
  /\ media_present' = [media_present EXCEPT ![d] = present]
  /\ media_wp' = [media_wp EXCEPT ![d] = wp]
  /\ UNCHANGED <<fdc_state, pending, busy, reply, drive, loc, logical,
       sd_sector, fifo, format_counter, terminated, dma_left, goal>>

-----------------------------------------------------------------------------
(* The last byte of a command.                                             *)
Hangs(cmd) ==
  \/ ~media_present[cmd.drv]
  \/ cmd.op # "format" /\ cmd.c >= Cylinders
  \/ cmd.op = "format" /\ cmd.eot # SectorsPerTrack
BadHead(cmd) == cmd.op # "format" /\ cmd.h = 1 /\ Heads = 1
BadSector(cmd) ==
  /\ cmd.op # "format" /\ ~Hangs(cmd)
  /\ cmd.r > SectorsPerTrack \/ cmd.r > cmd.eot
Protected(cmd) ==
  /\ cmd.op # "read" /\ ~Hangs(cmd) /\ ~BadSector(cmd)
  /\ media_wp[cmd.drv]

CanStart == fdc_state = "IDLE" /\ ~busy

(* Motor off, no medium, bad cylinder: the controller stays busy, silent.  *)
StartHangs(cmd) ==
  /\ CanStart /\ Hangs(cmd) /\ ~BadHead(cmd)
  /\ busy' = TRUE /\ drive' = cmd.drv
  /\ UNCHANGED <<fdc_state, pending, reply, loc, logical, sd_sector, fifo,
       format_counter, terminated, dma_left, mediaVars, goal>>

StartRejected(cmd) ==
  /\ CanStart
  /\ BadHead(cmd) \/ BadSector(cmd) \/ Protected(cmd)
  /\ busy' = TRUE /\ drive' = cmd.drv /\ reply' = "abnormal"
  /\ loc' = IF cmd.op = "format" THEN [loc EXCEPT !.h = cmd.h]
            ELSE IF BadSector(cmd) \/ Protected(cmd)
            THEN [loc EXCEPT !.c = cmd.c, !.h = cmd.h, !.s = cmd.r]
            ELSE loc
  /\ UNCHANGED <<fdc_state, pending, logical, sd_sector, fifo, format_counter,
       terminated, dma_left, mediaVars, goal>>

StartAccepted(cmd) ==
  /\ CanStart /\ ~Hangs(cmd) /\ ~BadHead(cmd) /\ ~BadSector(cmd)
  /\ ~Protected(cmd)
  /\ busy' = TRUE /\ drive' = cmd.drv /\ pending' = cmd.op
  /\ dma_left' = cmd.count
  /\ IF cmd.op = "format"
     THEN /\ fdc_state' = "FORMAT_INPUT"
          /\ loc' = [loc EXCEPT !.h = cmd.h]
          /\ goal' = goal
     ELSE /\ fdc_state' = "PREPARE_COUNT"
          /\ loc' = [c |-> cmd.c, h |-> cmd.h, s |-> cmd.r,
                     eot |-> cmd.eot, mt |-> cmd.mt]
          /\ goal' = Lba(cmd.c, cmd.h, cmd.r)
  /\ UNCHANGED <<reply, logical, sd_sector, fifo, format_counter,
       terminated, mediaVars>>

ReadResult ==
  /\ reply # "none"
  /\ reply' = "none" /\ busy' = FALSE
  /\ UNCHANGED <<fdc_state, pending, drive, loc, logical, sd_sector, fifo,
       format_counter, terminated, dma_left, mediaVars, goal>>

-----------------------------------------------------------------------------
(* The sector state machine.                                               *)
Goto(s) ==
  /\ fdc_state' = s
  /\ UNCHANGED <<pending, busy, reply, drive, loc, logical, sd_sector, fifo,
       format_counter, terminated, dma_left, mediaVars, goal>>

PrepareCount ==
  /\ fdc_state = "PREPARE_COUNT"
  /\ fdc_state' = "COUNT_LOGICAL"
  /\ logical' = Lba(loc.c, loc.h, loc.s)
  /\ UNCHANGED <<pending, busy, reply, drive, loc, sd_sector, fifo,
       format_counter, terminated, dma_left, mediaVars, goal>>

(* The multiplication is done.  Without a command the machine stays here.  *)
CountLogical ==
  /\ fdc_state = "COUNT_LOGICAL"
  /\ \/ pending \in {"read", "format"} /\ Goto("PREPARE")
     \/ pending = "write" /\ Goto("FULL_WRITE")

(* The sector asked for is clamped to the last one of the medium.          *)
Prepare ==
  /\ fdc_state = "PREPARE"
  /\ fdc_state' = "SD_CONTROL"
  /\ sd_sector' = IF logical >= TotalSectors THEN TotalSectors - 1
                                             ELSE logical
  /\ UNCHANGED <<pending, busy, reply, drive, loc, logical, fifo,
       format_counter, terminated, dma_left, mediaVars, goal>>

SdControl ==
  /\ fdc_state = "SD_CONTROL"
  /\ \/ pending = "read" /\ Goto("SD_READ")
     \/ pending = "write" /\ Goto("SD_WRITE")
     \/ pending = "format" /\ Goto("FORMAT_FILL")

(* The CPU's side of the FIFO.                                             *)
FillFifo(b) ==
  /\ fdc_state = "FULL_WRITE"
  /\ fifo' = Append(fifo, b)
  /\ fdc_state' = IF Len(fifo') = BlockBytes THEN "PREPARE" ELSE fdc_state

(* Bug: the terminal count is never latched.                               *)
DmaNeverEnds ==
  /\ ~terminated /\ dma_left > 0
  /\ dma_left' = dma_left - 1
  /\ terminated' = FALSE

(* The 8237 moves one byte; with its last one it presents terminal count.  *)
DmaMoves ==
  /\ ~terminated /\ dma_left > 0
  /\ dma_left' = dma_left - 1
  /\ terminated' = (dma_left = 1)

DmaReadByte ==
  /\ fdc_state = "EMPTY_READ" /\ pending = "read" /\ fifo # <<>>
  /\ DmaMoves
  /\ fifo' = Tail(fifo)
  /\ fdc_state' = IF fifo' = <<>> THEN "UPDATE_SECTOR" ELSE fdc_state
  /\ UNCHANGED <<pending, busy, reply, drive, loc, logical, sd_sector,
       format_counter, mediaVars, goal>>

DmaWriteByte ==
  /\ pending = "write" /\ DmaMoves
  /\ FillFifo(CpuByte(drive, goal, Len(fifo)))
  /\ UNCHANGED <<pending, busy, reply, drive, loc, logical, sd_sector,
       format_counter, mediaVars, goal>>

(* After terminal count the rest of the sector is padding (zeros).         *)
PadWriteByte ==
  /\ terminated
  /\ FillFifo(Padding)
  /\ UNCHANGED <<pending, busy, reply, drive, loc, logical, sd_sector,
       format_counter, terminated, dma_left, mediaVars, goal>>

OnlySector == loc.s < loc.eot /\ loc.s < SectorsPerTrack
NextCylinder == ~OnlySector /\ (~loc.mt \/ loc.h = 1)
NextLocation ==
  [loc EXCEPT
     !.s = IF OnlySector THEN @ + 1 ELSE 1,
     !.h = IF ~OnlySector /\ loc.mt THEN 1 - @ ELSE @,
     !.c = IF ~NextCylinder THEN @
           ELSE IF @ >= Cylinders THEN Cylinders - 1 ELSE @ + 1]

UpdateSector ==
  /\ fdc_state = "UPDATE_SECTOR"
  /\ fdc_state' = "WAIT"
  /\ loc' = NextLocation
  /\ goal' = goal + 1
  /\ UNCHANGED <<pending, busy, reply, drive, logical, sd_sector, fifo,
       format_counter, terminated, dma_left, mediaVars>>

WaitOver == fdc_state = "WAIT" /\ Goto("CHECK_TC")

(* Into the idle state with a result: the FIFO and the counters are clear. *)
EnterResult(status) ==
  /\ fdc_state' = "IDLE" /\ pending' = "none"
  /\ busy' = TRUE /\ reply' = status
  /\ fifo' = <<>> /\ format_counter' = 0 /\ terminated' = FALSE
  /\ UNCHANGED <<drive, loc, logical, sd_sector, dma_left,
       mediaVars, goal>>

CheckTc ==
  /\ fdc_state = "CHECK_TC"
  /\ \/ pending # "none" /\ terminated /\ EnterResult("normal")
     \/ pending = "format" /\ ~terminated /\ Goto("FORMAT_INPUT")
     \/ pending = "none" /\ Goto("PREPARE_COUNT")
     \/ pending \in {"read", "write"} /\ ~terminated /\ Goto("PREPARE_COUNT")

(* The four bytes of an ID field: C and R place the sector, H is ignored.  *)
(* A completed field is handled even when terminal count came with it.     *)
FormatId(c, r) ==
  /\ fdc_state = "FORMAT_INPUT" /\ pending = "format"
  /\ DmaMoves
  /\ fdc_state' = "PREPARE_COUNT"
  /\ loc' = [loc EXCEPT !.c = c, !.s = r]
  /\ goal' = Lba(c, loc.h, r)
  /\ UNCHANGED <<pending, busy, reply, drive, logical, sd_sector, fifo,
       format_counter, mediaVars>>

(* A DMA count that is no multiple of four ends inside an ID field: the    *)
(* terminal count without a complete field ends the format.                *)
FormatShortId ==
  /\ fdc_state = "FORMAT_INPUT" /\ pending = "format"
  /\ dma_left = 1 /\ DmaMoves
  /\ UNCHANGED <<fdc_state, pending, busy, reply, drive, loc, logical,
       sd_sector, fifo, format_counter, mediaVars, goal>>

FormatInputEnds ==
  fdc_state = "FORMAT_INPUT" /\ terminated /\ EnterResult("abnormal")

-----------------------------------------------------------------------------
(* The software reset (DOR or DSR) clears the command, and only a READ     *)
(* that waits for the management side leaves its state.  The DOR write     *)
(* that asserts it selects a drive d like any other; the DSR keeps it.     *)

(* Bug: a WRITE leaves it too, while the bridge drains its FIFO.           *)
AbandonsDrain == fdc_state \in {"SD_READ", "SD_WRITE"}
Abandons == fdc_state = "SD_READ"

SwReset(d) ==
  /\ pending' = "none" /\ busy' = FALSE /\ reply' = "none"
  /\ loc' = [Home EXCEPT !.mt = loc.mt]
  /\ IF Abandons
     THEN /\ fdc_state' = "IDLE"
          /\ fifo' = <<>> /\ format_counter' = 0 /\ terminated' = FALSE
     ELSE UNCHANGED <<fdc_state, fifo, format_counter, terminated>>
  /\ drive' = d
  /\ UNCHANGED <<logical, sd_sector, dma_left, mediaVars, goal>>

(* The chip reset; the media registers have no reset.                      *)
HardReset ==
  /\ fdc_state' = "IDLE" /\ pending' = "none"
  /\ busy' = FALSE /\ reply' = "none"
  /\ drive' = 0 /\ loc' = Home
  /\ logical' = 0 /\ sd_sector' = 0
  /\ fifo' = <<>> /\ format_counter' = 0
  /\ terminated' = FALSE
  /\ UNCHANGED <<dma_left, mediaVars, goal>>
=============================================================================
