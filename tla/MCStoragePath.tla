---------------------------- MODULE MCStoragePath ----------------------------
(***************************************************************************)
(* Small instances of StoragePath: the commands and mounts of each run.    *)
(* Sectors have two bytes, the floppies one cylinder of two heads.         *)
(***************************************************************************)
EXTENDS StoragePath

CONSTANTS f1, f2, h1   \* images

(* A multitrack transfer of n bytes from sector lba on, as a BIOS asks it. *)
Transfer(op, d, lba, n) ==
  [op |-> op, drv |-> d, c |-> lba \div (Heads * SectorsPerTrack),
   h |-> (lba \div SectorsPerTrack) % Heads, r |-> (lba % SectorsPerTrack) + 1,
   eot |-> SectorsPerTrack, mt |-> TRUE, count |-> n]

Format(d, h) ==
  [op |-> "format", drv |-> d, c |-> 0, h |-> h, r |-> 1,
   eot |-> SectorsPerTrack, mt |-> FALSE, count |-> SectorsPerTrack]

Insertion(d, img, ro) == [drv |-> d, img |-> img, ro |-> ro]
Ata(op, l, n) == [op |-> op, lba |-> l, count |-> n]

NoCommands == {}
NoMounts == {}

-----------------------------------------------------------------------------
(* Floppy data: a read of both sectors, of one, a write of one and a half  *)
(* sectors and a format, on drives that never change their disks.          *)
DataCommands ==
  {Transfer("read", 0, 0, 4), Transfer("read", 1, 1, 2),
   Transfer("write", 0, 0, 3), Format(0, 1)}
DataMounts == {Insertion(0, f1, FALSE), Insertion(1, f2, FALSE)}

(* Hard disk: transfers that end on, before and beyond the last sector,    *)
(* while a floppy read may be parked.                                      *)
AtaCommands ==
  {Ata("read", 1, 2), Ata("write", 0, 2), Ata("identify", 0, 1),
   Ata("other_ok", 0, 1), Ata("other_abort", 0, 1)}
ParkingRead == {Transfer("read", 0, 0, 2)}
OneFloppy == {Insertion(0, f1, FALSE)}
OneHardDisk == {[img |-> h1, ro |-> FALSE]}
=============================================================================
