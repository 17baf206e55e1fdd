------------------------------- MODULE IdeTask -------------------------------
(***************************************************************************)
(* Unit 0 of the ATA controller as mgmt_bridge and the PC see it.          *)
(*                                                                         *)
(* The controller itself (ide.v) is in the MiSTer submodule, which is not  *)
(* part of the repository: this is the interface the bridge is written     *)
(* against, as docs/mgmt-bus-and-storage-regs.md records it.  One word of  *)
(* state stands for the status register; the task file is the command and  *)
(* its first sector.  host_moved counts the sectors the PC has moved.      *)
(***************************************************************************)
EXTENDS StorageData

VARIABLES
  ide_request,   \* the request level: reset (110), command (100), data (101)
  ide_status,    \* what the PC reads in the status register
  ide_srst,      \* the PC holds SRST
  ide_regs,      \* task file: command, first sector, count
  ide_buf,       \* the sector buffer
  ide_present,
  host_moved     \* sectors of the command the PC has moved

ideVars == <<ide_request, ide_status, ide_srst, ide_regs, ide_buf,
             ide_present, host_moved>>

IdeRequests == {"none", "reset", "command", "data"}
IdeStatuses == {"busy", "ready", "ok", "abort", "drq", "drq_last"}
IdeOps == {"none", "read", "write", "identify", "other_ok", "other_abort"}
IdeCommand == [op : IdeOps, lba : Nat, count : 1 .. 256]
NoCommand == [op |-> "none", lba |-> 0, count |-> 1]

IdeTypeOK ==
  /\ ide_request \in IdeRequests
  /\ ide_status \in IdeStatuses
  /\ ide_srst \in BOOLEAN
  /\ ide_regs \in IdeCommand
  /\ ide_buf \in Block
  /\ ide_present \in BOOLEAN
  /\ host_moved \in Nat

IdeInit ==
  /\ ide_request = "reset" /\ ide_status = "busy" /\ ide_srst = FALSE
  /\ ide_regs = NoCommand /\ ide_buf = ZeroBlock
  /\ ide_present = FALSE /\ host_moved = 0

-----------------------------------------------------------------------------
(* The PC.                                                                 *)
HostCommand(cmd) ==
  /\ ide_present /\ ~ide_srst /\ ide_status # "busy"
  /\ ide_request' = "command" /\ ide_status' = "busy"
  /\ ide_regs' = cmd /\ host_moved' = 0
  /\ UNCHANGED <<ide_srst, ide_buf, ide_present>>

DataRequest == ide_status \in {"drq", "drq_last"} /\ ~ide_srst

HostReadSector ==
  /\ DataRequest /\ ide_regs.op \in {"read", "identify"}
  /\ host_moved' = host_moved + 1
  /\ IF ide_status = "drq_last"
     THEN ide_status' = "ready" /\ UNCHANGED ide_request
     ELSE ide_status' = "busy" /\ ide_request' = "data"
  /\ UNCHANGED <<ide_srst, ide_regs, ide_buf, ide_present>>

HostWriteSector ==
  /\ DataRequest /\ ide_regs.op = "write"
  /\ ide_buf' = CpuBlock(HardDisk, ide_regs.lba + host_moved)
  /\ host_moved' = host_moved + 1
  /\ ide_status' = "busy" /\ ide_request' = "data"
  /\ UNCHANGED <<ide_srst, ide_regs, ide_present>>

SrstOn ==
  /\ ~ide_srst
  /\ ide_srst' = TRUE
  /\ ide_request' = "reset" /\ ide_status' = "busy"
  /\ ide_regs' = NoCommand /\ host_moved' = 0
  /\ UNCHANGED <<ide_buf, ide_present>>

SrstOff ==
  /\ ide_srst /\ ide_srst' = FALSE
  /\ UNCHANGED <<ide_request, ide_status, ide_regs, ide_buf, ide_present,
       host_moved>>

IdeHardReset ==
  /\ ide_srst' = FALSE
  /\ ide_request' = "reset" /\ ide_status' = "busy"
  /\ ide_regs' = NoCommand /\ host_moved' = 0
  /\ UNCHANGED <<ide_buf, ide_present>>

-----------------------------------------------------------------------------
(* The management side: a write of register 5 sets the status and clears   *)
(* the request, unless SRST is held.                                       *)
Answer(status) ==
  IF ide_srst THEN UNCHANGED <<ide_request, ide_status>>
              ELSE ide_request' = "none" /\ ide_status' = status
=============================================================================
