------------------------------ MODULE DiskTools ------------------------------
(***************************************************************************)
(* The tools that change a hard disk image, run one after another on it:   *)
(* fat16-edit (a session of commands in memory, saved at its end),         *)
(* fat16-put (files into the root directory, their data written at once,   *)
(* the FAT and the directory at the end) and clean-hd-image (whole trees   *)
(* of the root directory and every byte of free space).                    *)
(*                                                                         *)
(* A name stands for the eleven bytes of an entry, Base(name) for the      *)
(* first eight of them, the name without its extension.                    *)
(***************************************************************************)
EXTENDS Fat16

CONSTANTS
  Paths,          \* the paths the commands name, closed under prefixes
  Base(_),        \* a name without its extension
  Targets,        \* the names clean-hd-image is asked to remove
  Scenarios       \* [tools, images, paths, blobs, commands]: the tools in
                  \* use, the images they start from, what their commands
                  \* name, and a bound on the commands of one session

VARIABLES
  image,          \* the image file
  tool,           \* the tool that is running, or "none"
  mem,            \* the volume, or the FAT and root directory, it has read
  ok,             \* fat16-edit: every check has passed
  left,           \* commands the session may still run
  scenario        \* the one of this behaviour
vars == <<image, tool, mem, ok, left, scenario>>

Volumes == [fat : [Clusters -> 0 .. EndOfChain],
            data : [Clusters -> [blob : Blobs \cup {NoBlob}, part : Nat,
                                 slots : Seq([kind : {"file", "dir", "dot",
                                   "dotdot", "label", "deleted"}, name : STRING,
                                   start : 0 .. EndOfChain, size : Nat])]],
            root : Seq([kind : {"file", "dir", "label", "deleted"},
                        name : STRING, start : 0 .. EndOfChain, size : Nat])]

(* Every volume a tool holds or writes is one the format can express: its  *)
(* root directory fits and no directory cluster has more slots than it can *)
(* hold.                                                                   *)
TypeOK ==
  /\ tool \in {"none", "edit", "put"} /\ ok \in BOOLEAN
  /\ scenario \in Scenarios /\ left \in 0 .. scenario.commands
  /\ \A v \in {image, mem} :
       /\ v \in Volumes
       /\ Len(v.root) <= RootSlots
       /\ \A c \in Clusters : Len(v.data[c].slots) <= ClusterSlots

Init ==
  /\ scenario \in Scenarios /\ image \in scenario.images
  /\ tool = "none" /\ mem = image /\ ok = TRUE /\ left = 0

Start(t) ==
  /\ tool = "none" /\ t \in scenario.tools
  /\ tool' = t /\ mem' = image /\ ok' = TRUE /\ left' = scenario.commands
  /\ UNCHANGED image

(* The tool ends with new as the image.                                    *)
End(new) ==
  tool' = "none" /\ image' = new /\ mem' = new /\ ok' = TRUE /\ left' = 0

Command(t) == tool = t /\ left > 0
Done(v) == mem' = v /\ left' = left - 1 /\ UNCHANGED <<image, tool, ok>>

-----------------------------------------------------------------------------
(* fat16-edit.  A command that cannot be done ends the program, and what   *)
(* the session did before is lost with it.                                 *)
Dir(p) == WalkTo(mem, Front(p))

EditPut(p, b) ==
  /\ Command("edit")
  /\ IF CanPut(mem, Dir(p), Last(p), b)
     THEN Done(Put(mem, Dir(p), Last(p), b)) ELSE End(image)

EditRemove(p) ==
  /\ Command("edit")
  /\ IF CanRemove(mem, Dir(p), Last(p))
     THEN Done(Remove1(mem, Dir(p), Last(p))) ELSE End(image)

EditMakeDir(p) ==
  /\ Command("edit")
  /\ IF CanMakeDir(mem, Dir(p), Last(p))
     THEN Done(MakeDir(mem, Dir(p), Last(p))) ELSE End(image)

(* cat and ls print what Cat and Ls give; cat needs the file.              *)
EditCat(p) ==
  /\ Command("edit")
  /\ IF Dir(p) # Nowhere /\ Old(mem, Dir(p), Last(p)).kind # "none"
     THEN Done(mem) ELSE End(image)
EditLs == Command("edit") /\ Done(mem)

EditCheck ==
  /\ Command("edit")
  /\ ok' = (ok /\ Check(mem)) /\ left' = left - 1
  /\ UNCHANGED <<image, tool, mem>>

EditSave == tool = "edit" /\ End(IF ok THEN mem ELSE image)

-----------------------------------------------------------------------------
(* fat16-put.  The clusters of a replaced entry are zeroed in the image at *)
(* once, and so the new data is written; a full disk ends the program      *)
(* there.                                                                  *)
Replaced(name) ==
  {i \in 1 .. Len(mem.root) :
     mem.root[i].kind # "deleted" /\ mem.root[i].name = name}
FirstSlot ==
  LET gone == {i \in 1 .. Len(mem.root) : mem.root[i].kind = "deleted"} IN
  IF gone = {} THEN Len(mem.root) + 1 ELSE First(gone)

(* Bug: the search ends at the first free slot.                             *)
PutSlotFree(name) == FirstSlot
PutSlot(name) ==
  IF Replaced(name) = {} THEN FirstSlot ELSE First(Replaced(name))

(* Bug: a new file always goes behind the last slot.                       *)
RootWithAppended(i, slot) == Append(mem.root, slot)
RootWith(i, slot) ==
  IF i > Len(mem.root) THEN Append(mem.root, slot)
                       ELSE [mem.root EXCEPT ![i] = slot]

PutFile(name, b) ==
  /\ Command("put")
  /\ LET i == PutSlot(name)
         view == [mem EXCEPT !.data = image.data]
         v1 == IF Replaced(name) = {} THEN view
               ELSE Freed(view, ToSet(Chain(view, mem.root[i].start)))
         cl == FirstFree(v1, b.size)
         v2 == IF b.size = 0 THEN v1 ELSE FilledWithBlob(Linked(v1, cl), cl, b)
         slot == Slot("file", name, IF b.size = 0 THEN 0 ELSE Head(cl), b.size)
     IN IF i > RootSlots THEN End(image)
        ELSE IF Len(FreeList(v1)) < b.size
        THEN End([image EXCEPT !.data = v1.data])
        ELSE /\ mem' = [v2 EXCEPT !.root = RootWith(i, slot)]
             /\ image' = [image EXCEPT !.data = v2.data]
             /\ left' = left - 1 /\ UNCHANGED <<tool, ok>>

(* A name that is not 8.3, or a host file that is not there, ends the      *)
(* program at its pair; the data of the pairs before it has been written.  *)
PutGivesUp == Command("put") /\ End(image)

PutEnd == tool = "put" /\ left < scenario.commands /\ End(mem)

-----------------------------------------------------------------------------
(* clean-hd-image, one run: unlink, free, then wipe all that is free.  It  *)
(* reads the volume and takes it as it is.                                 *)
CleanOpens == tool = "none" /\ "clean" \in scenario.tools

(* Bug: the name is compared with its extension.                           *)
CleanFoundWhole(targets) ==
  {i \in 1 .. Len(image.root) :
     image.root[i].kind # "deleted" /\ image.root[i].name \in targets}
(* A file or a label of that base name is found as well as a directory.    *)
CleanFound(targets) ==
  {i \in 1 .. Len(image.root) :
     image.root[i].kind # "deleted" /\ Base(image.root[i].name) \in targets}

CleanFreed(targets) ==
  UNION {Removed(image, image.root[i]) : i \in CleanFound(targets)}

(* Bug: only what this run has freed is wiped.                             *)
WipedFreed(v, S) == Freed(v, S)
Wiped(v, S) == Freed(v, S \cup {c \in Clusters : v.fat[c] = Free})

Clean(targets) ==
  /\ CleanOpens /\ CleanFound(targets) # {}
  /\ image' = [Wiped(image, CleanFreed(targets)) EXCEPT !.root =
       [i \in DOMAIN image.root |->
          IF i \in CleanFound(targets)
          THEN [image.root[i] EXCEPT !.kind = "deleted"] ELSE image.root[i]]]
  /\ mem' = image' /\ UNCHANGED <<tool, ok, left>>

Step ==
  \/ \E t \in {"edit", "put"} : Start(t)
  \/ \E p \in scenario.paths : EditRemove(p) \/ EditMakeDir(p) \/ EditCat(p)
  \/ \E p \in scenario.paths, b \in scenario.blobs : EditPut(p, b)
  \/ EditLs \/ EditCheck \/ EditSave
  \/ \E p \in scenario.paths, b \in scenario.blobs :
       Len(p) = 1 /\ PutFile(Last(p), b)
  \/ PutGivesUp \/ PutEnd
  \/ Clean(Targets)
Next == Step /\ UNCHANGED scenario

Spec == Init /\ [][Next]_vars

-----------------------------------------------------------------------------
(* The tree that a volume holds.                                           *)
Content(v, slot) ==
  LET fits == {b \in Blobs : Cat(v, slot) = [i \in 1 .. b.size |-> BlobPart(b, i)]}
  IN IF fits = {} THEN Damaged ELSE CHOOSE b \in fits : TRUE

At(v, p) ==
  LET d == WalkTo(v, Front(p)) IN
  IF d = Nowhere \/ Old(v, d, Last(p)).kind = "none" THEN NoBlob
  ELSE IF Old(v, d, Last(p)).kind = "dir" THEN DirectoryMark
  ELSE Content(v, Old(v, d, Last(p)))
Tree(v) == [p \in Paths |-> At(v, p)]

(* What fat16-edit holds and saves passes the tool's own check, if no      *)
(* other tool has changed the image: no cluster in two chains, none lost,  *)
(* every chain as long as its file, free ones all zeros.                   *)
OnlyEdited == scenario.tools = {"edit"}
PassesCheck == OnlyEdited => Check(image) /\ Check(mem)

(* ls lists every file and directory once, under the name that cat, put    *)
(* and rm find it by, also where another tool has used a deleted slot.     *)
Listed ==
  LET lines == Ls(image, 0, <<>>) IN
  /\ Cardinality({l.path : l \in ToSet(lines)}) = Len(lines)
  /\ \A l \in ToSet(lines) : l.path \in Paths /\ At(image, l.path) # NoBlob
  /\ \A p \in Paths : At(image, p) # NoBlob =>
                         \E l \in ToSet(lines) : l.path = p


(* clean-hd-image leaves nothing readable in free space, also of what was  *)
(* deleted before it ran or written by a fat16-put that gave up.           *)
CleanIsThorough ==
  [][Clean(Targets) =>
       \A c \in Clusters : image'.fat[c] = Free => image'.data[c] = Zeros]_vars

(* It takes every entry of the root directory with the base name of a      *)
(* target, whatever its extension and whether directory, file or label,    *)
(* with all that is below it, and leaves every other path what it was,     *)
(* also on an image in which fat16-put has torn the chains.  (Its usage    *)
(* line asks for TOPLEVEL_DIR_TO_REMOVE: that a file of a directory's base *)
(* name goes too is written nowhere.)                                      *)
CleanTakesTheBaseNames ==
  [][Clean(Targets) =>
       \A p \in Paths :
         At(image', p) = IF Base(Head(p)) \in Targets THEN NoBlob
                                                     ELSE At(image, p)]_vars

(* fat16-put.py: an existing entry "is replaced: its cluster chain is      *)
(* freed and zeroed"; fat16-edit.py: a command that fails "must not leave  *)
(* zeroed clusters behind a FAT that still points at them".                *)
NoZeroedFile ==
  tool = "none" => \A p \in Paths : At(image, p) # Damaged
=============================================================================
