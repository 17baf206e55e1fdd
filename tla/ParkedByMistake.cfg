CONSTANTS
  f1 = f1
  f2 = f2
  h1 = h1
  NoImage = NoImage
  BlockBytes = 2
  Cylinders = 1
  Heads = 2
  SectorsPerTrack = 1
  HdSectors = 2
  FloppyImages = {f1}
  HdImages = {h1}
  InternalA = TRUE
  FdcCommands <- DataCommands
  IdeCommands <- NoCommands
  FloppyMounts <- OneFloppy
  HdMounts <- NoMounts
  SoftResets = {"fdc"}
  HardResets = FALSE
  FastCpu = FALSE
SPECIFICATION Spec
PROPERTIES OnlyFailedRequestParks
