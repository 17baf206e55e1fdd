-------------------------------- MODULE Fat16 --------------------------------
(***************************************************************************)
(* A FAT16 volume and what the image tools do to it: the class Vol and the *)
(* commands of tools/fat16-edit.py, as functions from volumes to volumes.  *)
(*                                                                         *)
(* A volume is its FAT, the contents of its clusters and its root          *)
(* directory.  The FAT copies are always written together and are one; a   *)
(* file is a blob of whole clusters; times, attributes and long names are  *)
(* left out.  A directory is the sequence of its slots up to the end       *)
(* marker; a cluster with no slots is the same as a zeroed one.            *)
(***************************************************************************)
EXTENDS Naturals, Sequences, FiniteSets, SequencesExt

CONSTANTS
  NClusters,      \* data clusters of the volume
  ClusterSlots,   \* directory slots of a cluster
  RootSlots,      \* slots of the root directory
  Blobs           \* [id, size]: file contents, size in clusters

ASSUME VolumeAssumption ==
  /\ NClusters \in Nat \ {0} /\ RootSlots \in Nat \ {0}
  /\ ClusterSlots \in Nat \ (0 .. 2)

Clusters == 2 .. NClusters + 1
Free == 0
Nowhere == 1                   \* no directory of that name
EndOfChain == NClusters + 2    \* 0xFFF8 and above

NoBlob == [id |-> "none", size |-> 0]
DirectoryMark == [id |-> "directory", size |-> 0]
Damaged == [id |-> "damaged", size |-> 0]

Zeros == [blob |-> NoBlob, part |-> 0, slots |-> <<>>]
BlobPart(b, i) == [blob |-> b, part |-> i, slots |-> <<>>]
DirPart(slots) == [blob |-> NoBlob, part |-> 0, slots |-> slots]

(* kind: file, dir, dot, dotdot, label or deleted.                         *)
Slot(kind, name, start, size) ==
  [kind |-> kind, name |-> name, start |-> start, size |-> size]

CeilDiv(a, b) == (a + b - 1) \div b
First(S) == CHOOSE i \in S : \A j \in S : i <= j

-----------------------------------------------------------------------------
(* The FAT.                                                                *)

(* A chain is followed until it leaves the clusters.  (One that meets      *)
(* itself ends the tool; no volume here has one.)                          *)
Chain(v, c) ==
  LET link == [x \in 0 .. EndOfChain |-> IF x \in Clusters THEN v.fat[x] ELSE x]
      hop[n \in Nat] == IF n = 0 THEN c ELSE link[hop[n - 1]]
      steps == {n \in 0 .. NClusters - 1 : hop[n] \in Clusters}
  IN [i \in 1 .. Cardinality(steps) |-> hop[i - 1]]

FreeList(v) ==
  SetToSortSeq({c \in Clusters : v.fat[c] = Free}, LAMBDA a, b : a < b)
FirstFree(v, n) == SubSeq(FreeList(v), 1, n)

(* Bug: the last cluster keeps its old link.                               *)
LinkedOpen(v, cl) ==
  [v EXCEPT !.fat = [c \in Clusters |->
     IF \E i \in 1 .. Len(cl) - 1 : cl[i] = c
     THEN cl[1 + CHOOSE i \in 1 .. Len(cl) - 1 : cl[i] = c] ELSE @[c]]]
Linked(v, cl) ==
  [v EXCEPT !.fat = [c \in Clusters |->
     IF c \notin ToSet(cl) THEN @[c]
     ELSE IF c = Last(cl) THEN EndOfChain
     ELSE cl[1 + CHOOSE i \in 1 .. Len(cl) : cl[i] = c]]]

Freed(v, S) ==
  [v EXCEPT !.fat = [c \in Clusters |-> IF c \in S THEN Free ELSE @[c]],
            !.data = [c \in Clusters |-> IF c \in S THEN Zeros ELSE @[c]]]

FilledWithBlob(v, cl, b) ==
  [v EXCEPT !.data = [c \in Clusters |->
     IF \E i \in 1 .. Len(cl) : cl[i] = c
     THEN BlobPart(b, CHOOSE i \in 1 .. Len(cl) : cl[i] = c) ELSE @[c]]]

(* Bytes beyond the slots are zeros, to the end of the last cluster.       *)
FilledWithSlots(v, cl, slots) ==
  LET chunk(i) == SubSeq(slots, (i - 1) * ClusterSlots + 1,
                         IF i * ClusterSlots > Len(slots)
                         THEN Len(slots) ELSE i * ClusterSlots)
  IN [v EXCEPT !.data = [c \in Clusters |->
        IF \E i \in 1 .. Len(cl) : cl[i] = c
        THEN DirPart(chunk(CHOOSE i \in 1 .. Len(cl) : cl[i] = c)) ELSE @[c]]]

(* The bytes of a chain, a cluster at a time.                              *)
ReadChain(v, c) ==
  [i \in 1 .. Len(Chain(v, c)) |-> v.data[Chain(v, c)[i]]]

-----------------------------------------------------------------------------
(* Directories; 0 is the root.                                             *)
ReadDir(v, start) ==
  LET raw == IF start = 0 THEN v.root
             ELSE FoldLeft(LAMBDA s, k : s \o k.slots, <<>>, ReadChain(v, start))
  IN SelectSeq(raw, LAMBDA s : s.kind # "deleted")

(* The end marker takes a slot.                                            *)
ClustersNeeded(slots) == CeilDiv(Len(slots) + 1, ClusterSlots)

DirFits(v, start, slots) ==
  IF start = 0 THEN Len(slots) <= RootSlots
  ELSE ClustersNeeded(slots) <= Len(Chain(v, start)) + Len(FreeList(v))

(* The directory grows or shrinks to what its slots and the end marker     *)
(* need, and the clusters it gives up are freed and zeroed.                *)
WriteDir(v, start, slots) ==
  IF start = 0 THEN [v EXCEPT !.root = slots]
  ELSE LET old == Chain(v, start)
           need == ClustersNeeded(slots)
           cl == IF Len(old) >= need THEN SubSeq(old, 1, need)
                 ELSE old \o FirstFree(v, need - Len(old))
       IN FilledWithSlots(Linked(Freed(v, ToSet(old) \ ToSet(cl)), cl),
                          cl, slots)

Named(slots, name) ==
  {i \in 1 .. Len(slots) :
     slots[i].kind \in {"file", "dir"} /\ slots[i].name = name}

(* The start cluster of the directory that the names lead to.              *)
WalkTo(v, names) ==
  FoldLeft(LAMBDA d, n :
             IF d = Nowhere THEN Nowhere
             ELSE LET slots == ReadDir(v, d)
                      hits == {i \in Named(slots, n) : slots[i].kind = "dir"}
                  IN IF hits = {} THEN Nowhere
                     ELSE slots[First(hits)].start,
           0, names)

(* The clusters of a directory and of everything below it.                 *)
RECURSIVE TreeClusters(_, _)
TreeClusters(v, start) ==
  ToSet(Chain(v, start)) \cup
    UNION {IF s.kind = "dir" THEN TreeClusters(v, s.start)
                             ELSE ToSet(Chain(v, s.start)) :
           s \in {x \in ToSet(ReadDir(v, start)) : x.kind \in {"file", "dir"}}}

-----------------------------------------------------------------------------
(* The commands, on the directory at d.  Each is a condition under which   *)
(* the tool does not give up, and the volume it then makes.                *)
Old(v, d, name) ==
  LET slots == ReadDir(v, d) hits == Named(slots, name) IN
  IF hits = {} THEN Slot("none", name, 0, 0)
               ELSE slots[First(hits)]

SlotsWith(v, d, slot) ==
  LET slots == ReadDir(v, d) hits == Named(slots, slot.name) IN
  IF hits = {} THEN Append(slots, slot)
               ELSE [slots EXCEPT ![First(hits)] = slot]

PutClusters(v, d, name, b) ==
  FirstFree(Freed(v, ToSet(Chain(v, Old(v, d, name).start))), b.size)
PutSlots(v, d, name, b) ==
  SlotsWith(v, d, Slot("file", name,
     IF b.size = 0 THEN 0 ELSE Head(PutClusters(v, d, name, b)), b.size))
PutData(v, d, name, b) ==
  LET v1 == Freed(v, ToSet(Chain(v, Old(v, d, name).start)))
      cl == PutClusters(v, d, name, b)
  IN IF b.size = 0 THEN v1 ELSE FilledWithBlob(Linked(v1, cl), cl, b)

CanPut(v, d, name, b) ==
  /\ d # Nowhere /\ Old(v, d, name).kind # "dir"
  /\ Len(FreeList(Freed(v, ToSet(Chain(v, Old(v, d, name).start))))) >= b.size
  /\ DirFits(PutData(v, d, name, b), d, PutSlots(v, d, name, b))
Put(v, d, name, b) ==
  WriteDir(PutData(v, d, name, b), d, PutSlots(v, d, name, b))

(* Bug: what is below a removed directory stays allocated.                 *)
RemovedFlat(v, slot) == ToSet(Chain(v, slot.start))
Removed(v, slot) ==
  IF slot.kind = "dir" THEN TreeClusters(v, slot.start)
                       ELSE ToSet(Chain(v, slot.start))

CanRemove(v, d, name) == d # Nowhere /\ Old(v, d, name).kind # "none"
Remove1(v, d, name) ==
  LET slots == ReadDir(v, d) old == Old(v, d, name) IN
  WriteDir(Freed(v, Removed(v, old)), d, RemoveAt(slots, First(Named(slots, name))))

NewDir(v) == Head(FreeList(v))
DirBody(d, c) == <<Slot("dot", "", c, 0), Slot("dotdot", "", d, 0)>>
DirMade(v, d) ==
  FilledWithSlots(Linked(v, <<NewDir(v)>>), <<NewDir(v)>>, DirBody(d, NewDir(v)))
CanMakeDir(v, d, name) ==
  /\ d # Nowhere /\ Old(v, d, name).kind = "none"
  /\ FreeList(v) # <<>>
  /\ DirFits(DirMade(v, d), d, SlotsWith(v, d, Slot("dir", name, NewDir(v), 0)))
MakeDir(v, d, name) ==
  WriteDir(DirMade(v, d), d, SlotsWith(v, d, Slot("dir", name, NewDir(v), 0)))

(* What cat prints: the chain, cut to the size of the entry.               *)
Cat(v, slot) ==
  LET bytes == ReadChain(v, slot.start) IN
  SubSeq(bytes, 1, IF slot.size < Len(bytes) THEN slot.size ELSE Len(bytes))

(* What ls prints: the entries of a directory in their order, each         *)
(* directory followed by what is in it.                                    *)
RECURSIVE Ls(_, _, _)
Ls(v, start, path) ==
  LET lines(s) ==
        LET p == Append(path, s.name) IN
        IF s.kind = "dir" THEN <<[path |-> p, size |-> 0]>> \o Ls(v, s.start, p)
        ELSE IF s.kind = "file" THEN <<[path |-> p, size |-> s.size]>>
        ELSE <<>>
  IN FoldLeft(LAMBDA out, s : out \o lines(s), <<>>, ReadDir(v, start))

-----------------------------------------------------------------------------
(* fat16-edit's own check of a volume.                                     *)

(* What claims clusters: [who, parent, slot] for all that can be reached.  *)
RECURSIVE Claims(_, _, _, _)
Claims(v, start, parent, path) ==
  UNION {{[who |-> Append(path, s.name), within |-> start, above |-> parent,
           slot |-> s]}
         \cup (IF s.kind = "dir"
               THEN Claims(v, s.start, start, Append(path, s.name)) ELSE {}) :
         s \in {x \in ToSet(ReadDir(v, start)) : x.kind # "label"}}

Check(v) ==
  LET all == Claims(v, 0, 0, <<>>)
      dots == {k \in all : k.slot.kind \in {"dot", "dotdot"}}
      owners == all \ dots
      chain(k) == Chain(v, k.slot.start)
  IN /\ \A k \in dots :
          k.slot.start = IF k.slot.kind = "dot" THEN k.within ELSE k.above
     /\ \A k \in owners :
          /\ chain(k) # <<>> => v.fat[Last(chain(k))] = EndOfChain
          /\ k.slot.kind = "file" => Len(chain(k)) = k.slot.size
          /\ \A j \in owners \ {k} : ToSet(chain(j)) \cap ToSet(chain(k)) = {}
     /\ \A c \in Clusters :
          IF v.fat[c] = Free THEN v.data[c] = Zeros
          ELSE \E k \in owners : c \in ToSet(chain(k))
=============================================================================
