CONSTANTS
  Addr <- MCAddr
  Byte = {0, 1}
  Block = {2}
  ReadOnly = {2}
  RomByte = 1
  Dummy = Dummy
  Unknown = Unknown
  None = None
  RowEnd = {2}
  Protected = {2}
  Stores <- MCRomStores
  RefreshAddr = {}
  WordAddr = {}
  MaxResets = 0
SPECIFICATION Spec
PROPERTIES CyclesEnd
