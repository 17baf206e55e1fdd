CONSTANTS
  f1 = f1
  f2 = f2
  f3 = f3
  g1 = g1
  g2 = g2
  h1 = h1
  NoImage = NoImage
  BlockBytes = 2
  Cylinders = 1
  Heads = 2
  SectorsPerTrack = 1
  HdSectors = 2
  FloppyImages = {f1, f2, f3, g1, g2}
  HdImages = {h1}
  InternalA = TRUE
  FdcCommands <- AllCommands
  IdeCommands <- NoCommands
  FloppyMounts <- AllMounts
  HdMounts <- NoMounts
  SoftResets = {"fdc", "select"}
  HardResets = FALSE
  FastCpu = FALSE
SPECIFICATION MCSpec
INVARIANTS TypeOK Handshake ReadDataInPlace SectorsInPlace CompletedWritesAreStored MediaAgrees ProtectedStays
PROPERTIES ParkedStaysParked FloppyRequestServed CommandEnds
