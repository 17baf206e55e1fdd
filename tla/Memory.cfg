CONSTANTS
  Addr <- MCAddr
  Byte = {0, 1}
  Block = {4, 5}
  ReadOnly = {4}
  RomByte = 1
  Dummy = Dummy
  Unknown = Unknown
  None = None
  LineSize = 2
  Stores <- MCStores
  SelfTest <- MCSelfTest
  Configs <- MCConfigs
  FifoDepth = 2
  MaxOwed = 2
  MaxResets = 1
SPECIFICATION Spec
INVARIANTS TypeOK AnswersCounted SelfTestPasses LineCurrent
PROPERTIES Implements ComesBack AccessesEnd
