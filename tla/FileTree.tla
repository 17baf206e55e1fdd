------------------------------- MODULE FileTree -------------------------------
(***************************************************************************)
(* What fat16-edit promises: a tree of files and directories that a        *)
(* session changes one path at a time, and that is saved as a whole or not *)
(* at all.                                                                 *)
(***************************************************************************)
EXTENDS Naturals, Sequences, TLC

CONSTANTS Paths, Blobs, Absent, Directory

VARIABLES saved, working
vars == <<saved, working>>

Parent(p) == SubSeq(p, 1, Len(p) - 1)
IsDirectory(p) == p = <<>> \/ working[p] = Directory
Below(p) == {q \in Paths : Len(q) >= Len(p) /\ SubSeq(q, 1, Len(p)) = p}

Init == saved \in [Paths -> Blobs \cup {Absent, Directory}] /\ working = saved

Put(p, b) ==
  /\ IsDirectory(Parent(p)) /\ working[p] # Directory
  /\ working' = [working EXCEPT ![p] = b]
  /\ UNCHANGED saved

Remove(p) ==
  /\ working[p] # Absent
  /\ working' = [q \in Below(p) |-> Absent] @@ working
  /\ UNCHANGED saved

MakeDirectory(p) ==
  /\ IsDirectory(Parent(p)) /\ working[p] = Absent
  /\ working' = [working EXCEPT ![p] = Directory]
  /\ UNCHANGED saved

Save == saved' = working /\ UNCHANGED working
GiveUp == working' = saved /\ UNCHANGED saved

Next ==
  \/ \E p \in Paths : Remove(p) \/ MakeDirectory(p) \/ \E b \in Blobs : Put(p, b)
  \/ Save \/ GiveUp

Spec == Init /\ [][Next]_vars
=============================================================================
