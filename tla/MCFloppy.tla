------------------------------ MODULE MCFloppy ------------------------------
(***************************************************************************)
(* The floppies in three scenarios of one run.  B: gets its disk first and *)
(* keeps it, and which one it is tells the scenario.  "data": transfers of *)
(* every kind on disks that stay in both drives.  "media": the disk of A:  *)
(* changed at any time under small commands, wrong ones among them.        *)
(* "reads": reads of both drives, and resets that select the other drive   *)
(* (those beside a WRITE are MCStoragePath's).                             *)
(***************************************************************************)
EXTENDS MCStoragePath

CONSTANTS f3, g1, g2   \* a protected disk for A:, two more disks for B:

(* Media: commands on any disk, absent, write-protected or not, and wrong  *)
(* ones: a cylinder or a sector that the medium does not have.             *)
MediaCommands ==
  {Transfer("read", 0, 1, 2), Transfer("write", 0, 0, 2),
   [Transfer("read", 0, 0, 2) EXCEPT !.c = Cylinders],
   [Transfer("read", 0, 0, 2) EXCEPT !.r = SectorsPerTrack + 1]}
ReadCommands == {Transfer("read", 0, 1, 2), Transfer("read", 1, 1, 2)}
AllCommands == DataCommands \cup MediaCommands \cup ReadCommands

ForB == {Insertion(1, img, FALSE) : img \in {f2, g1, g2}}
DataForA == {Insertion(0, f1, FALSE)}
MediaForA ==
  {Insertion(0, f1, FALSE), Insertion(0, f3, TRUE), Insertion(0, NoImage, FALSE)}
AllMounts == ForB \cup MediaForA

InData == slot[1] = f2
InMedia == slot[1] = g1
InReads == slot[1] = g2
CommandsNow == CASE InData -> DataCommands [] InMedia -> MediaCommands
                 [] InReads -> ReadCommands [] OTHER -> {}
MountsNow == IF slot[1] = NoImage THEN ForB
             ELSE IF InMedia THEN MediaForA
             ELSE {m \in DataForA : slot[0] = NoImage}

MCNext ==
  \/ \E cmd \in CommandsNow : StartCommand(cmd)
  \/ \E m \in MountsNow : MountFloppy(m)
  \/ SoftReset /\ (drive' # drive => InReads)
  \/ Result \/ FdcWrote \/ FdcStep \/ Dma
  \/ BridgeNext
  \/ Serve \/ \E d \in VDrives : Served(d)
MCSpec == Init /\ [][MCNext]_vars /\ Fairness
=============================================================================
