----------------------------- MODULE MCDiskTools -----------------------------
(***************************************************************************)
(* Small volumes for the image tools: four clusters, three slots to a      *)
(* directory cluster and to the root, files of up to three clusters.       *)
(* A directory outgrows its first cluster with its first entry.            *)
(***************************************************************************)
EXTENDS DiskTools

MCBlobs == {[id |-> "empty", size |-> 0], [id |-> "short", size |-> 1],
            [id |-> "long", size |-> 2]}
Blob(n) == CHOOSE b \in MCBlobs : b.size = n

DeepPaths == {<<"A">>, <<"D">>, <<"D", "A">>, <<"D", "E">>}
FewPaths == {<<"A">>, <<"D">>, <<"D", "A">>}
RootPaths == {<<"A">>, <<"D.X">>}
MCPaths == DeepPaths \cup RootPaths
MCBase(name) == IF name \in {"D.X", "D.L"} THEN "D" ELSE name
TwoBlobs == MCBlobs \ {[id |-> "empty", size |-> 0]}
EdgeBlobs == MCBlobs \ {Blob(1)}
BigBlobs == MCBlobs \cup {[id |-> "big", size |-> 3]}

Fresh ==
  [fat |-> [c \in Clusters |-> Free], data |-> [c \in Clusters |-> Zeros],
   root |-> <<Slot("label", "L", 0, 0)>>]

(* A file that lies in two pieces, around the directory of a second one.   *)
Populated ==
  [fat |-> [c \in Clusters |-> CASE c = 2 -> 4 [] c = 3 -> 5
              [] c \in {4, 5} -> EndOfChain [] OTHER -> Free],
   data |-> [c \in Clusters |-> CASE c = 2 -> BlobPart(Blob(2), 1)
              [] c = 3 -> DirPart(<<Slot("dot", "", 3, 0), Slot("dotdot", "", 0, 0),
                                    Slot("file", "A", 0, 0)>>)
              [] c = 4 -> BlobPart(Blob(2), 2) [] OTHER -> Zeros],
   root |-> <<Slot("label", "L", 0, 0), Slot("file", "A", 2, 2),
              Slot("dir", "D", 3, 0)>>]

(* As DOS leaves it: deleted files, the bytes of one still there.          *)
Used ==
  [Fresh EXCEPT !.root = <<Slot("deleted", "A", 2, 1), Slot("label", "L", 0, 0),
                           Slot("dir", "D", 3, 0)>>,
                !.fat[3] = EndOfChain,
                !.data[2] = BlobPart(Blob(1), 1),
                !.data[3] = DirPart(<<Slot("dot", "", 3, 0),
                                      Slot("dotdot", "", 0, 0),
                                      Slot("deleted", "A", 2, 1)>>)]

(* A file and a label share the base name of a directory.                  *)
Namesakes ==
  [Fresh EXCEPT !.root = <<Slot("label", "D.L", 0, 0), Slot("file", "D.X", 4, 1),
                           Slot("dir", "D", 3, 0)>>,
                !.fat[3] = EndOfChain, !.fat[4] = EndOfChain,
                !.data[3] = DirPart(<<Slot("dot", "", 3, 0),
                                      Slot("dotdot", "", 0, 0)>>),
                !.data[4] = BlobPart(Blob(1), 1)]

(* fat16-edit alone, with one command that succeeds before one that fails; *)
(* all tools, also on an image that DOS has used; and the two that write   *)
(* at once, with files of different sizes.                                 *)
Editing ==
  [tools |-> {"edit"}, images |-> {Fresh, Populated}, paths |-> DeepPaths,
   blobs |-> EdgeBlobs, commands |-> 2]
Mixing ==
  [tools |-> {"edit", "put", "clean"}, images |-> {Populated, Used},
   paths |-> FewPaths, blobs |-> {Blob(2)}, commands |-> 1]
Putting ==
  [tools |-> {"put"}, images |-> {Fresh, Populated},
   paths |-> FewPaths, blobs |-> BigBlobs, commands |-> 2]
PutAndClean ==
  [tools |-> {"put", "clean"}, images |-> {Populated, Used, Namesakes},
   paths |-> RootPaths, blobs |-> TwoBlobs, commands |-> 2]
MCScenarios == {Editing, Mixing, PutAndClean}
PutScenarios == {Putting}

(* The trees of the image and of the volume in memory, as history          *)
(* variables: TLC computes each once per step.                             *)
VARIABLES savedTree, workingTree

MCInit == Init /\ savedTree = Tree(image) /\ workingTree = Tree(mem)
MCNext == Next /\ savedTree' = Tree(image') /\ workingTree' = Tree(mem')
MCSpec == MCInit /\ [][MCNext]_<<vars, savedTree, workingTree>>

NoTree == [p \in Paths |-> NoBlob]
Files == INSTANCE FileTree WITH
  Absent <- NoBlob, Directory <- DirectoryMark,
  saved <- IF OnlyEdited THEN savedTree ELSE NoTree,
  working <- IF OnlyEdited THEN workingTree ELSE NoTree

(* fat16-edit is a tree of files: a command changes the one path it names, *)
(* whatever clusters it reuses and however directories grow and shrink,    *)
(* and a session that fails half way leaves the image as it was.           *)
FileTreeSpec == Files!Spec
=============================================================================
