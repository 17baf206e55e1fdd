----------------------------- MODULE StorageData -----------------------------
(***************************************************************************)
(* The data of the storage path: drives, sectors, images and the bytes     *)
(* that travel between them.                                               *)
(*                                                                         *)
(* A byte is abstracted to where it comes from: the image it was first     *)
(* stored in, the CPU (a DMA byte of a write), the filler of a format, the *)
(* padding of a short write, a zero the bridge makes up, stale (read from  *)
(* the FIFO in the fill of a format that was reset) or junk (any other     *)
(* read of an empty FIFO).  A byte of an image also carries that image, a  *)
(* byte of the CPU the drive its command named, and both the sector they   *)
(* were meant for and their place in it: a byte that lands in the wrong    *)
(* image, in the wrong sector, in the wrong order or twice is seen.        *)
(***************************************************************************)
EXTENDS Naturals, Sequences

CONSTANTS
  BlockBytes,        \* bytes of a sector (512 in the code)
  Cylinders,         \* floppy geometry, the same for every floppy image
  Heads,
  SectorsPerTrack,
  HdSectors,         \* sectors of a hard disk image
  FloppyImages,      \* images (or disks of the internal drive) for A: and B:
  HdImages,          \* images of the hard disk
  NoImage            \* the content of an empty slot

ASSUME BlockBytesAssumption == BlockBytes \in Nat \ {0, 1}
ASSUME GeometryAssumption ==
  /\ Cylinders \in Nat \ {0}
  /\ Heads \in {1, 2}
  /\ SectorsPerTrack \in Nat \ {0}
  /\ HdSectors \in Nat \ {0}
ASSUME ImagesAssumption ==
  /\ FloppyImages \cap HdImages = {}
  /\ NoImage \notin FloppyImages \cup HdImages

Floppies == {0, 1}             \* drive A: and drive B:
HardDisk == 2                  \* the hard disk's place on the block port
VDrives == Floppies \cup {HardDisk}

Images == FloppyImages \cup HdImages
Slots == Images \cup {NoImage}

TotalSectors == Cylinders * Heads * SectorsPerTrack
Sectors(img) == IF img \in HdImages THEN 0 .. HdSectors - 1
                                    ELSE 0 .. TotalSectors - 1

DiskSectors == UNION {{img} \X Sectors(img) : img \in Images}

(* The sector that cylinder c, head h, sector s names on the medium.       *)
Lba(c, h, s) == (c * Heads + h) * SectorsPerTrack + s - 1

-----------------------------------------------------------------------------
Origins == {"image", "cpu", "fill", "pad", "zero", "stale", "junk"}
Owners == Images \cup VDrives \cup {NoImage}
Byte == [from : Origins, of : Owners, lba : Nat, at : Nat]
Place == 0 .. BlockBytes - 1
Block == [Place -> Byte]

ImageByte(img, l, i) == [from |-> "image", of |-> img, lba |-> l, at |-> i]
CpuByte(d, l, i) == [from |-> "cpu", of |-> d, lba |-> l, at |-> i]
Unmarked(origin) == [from |-> origin, of |-> NoImage, lba |-> 0, at |-> 0]
Filler == Unmarked("fill")
Padding == Unmarked("pad")
ZeroByte == Unmarked("zero")
Stale == Unmarked("stale")
Junk == Unmarked("junk")

ImageBlock(img, l) == [i \in Place |-> ImageByte(img, l, i)]
CpuBlock(d, l) == [i \in Place |-> CpuByte(d, l, i)]
ZeroBlock == [i \in Place |-> ZeroByte]

(* The byte is one that may stand at place i of sector l of some medium.   *)
InPlace(b, l, i) ==
  \/ b.from \in {"image", "cpu"} /\ b.lba = l /\ b.at = i
  \/ b.from \in {"fill", "pad"}
=============================================================================
