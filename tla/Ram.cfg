CONSTANTS
  Addr <- MCAddr
  Byte = {0, 1}
  Block = {1, 2}
  ReadOnly = {2}
  RomByte = 1
  Dummy = Dummy
  Unknown = Unknown
  None = None
  RowEnd = {2}
  Protected = {2}
  Stores <- MCStores
  RefreshAddr = {0}
  WordAddr = {0}
  MaxResets = 1
SPECIFICATION Spec
INVARIANTS TypeOK LookaheadCurrent AnswersExact
PROPERTIES ReadsRight WritesTaken CyclesEnd
