CONSTANTS
  NImages = 1
  Version <- MCVersion
  Length <- LongLength
  Signed <- MCSigned
  Full <- MCFull
  RunningVersion = 0
  ManifestUnits = 3
  MsgUnits = 2
  BufferUnits = 3
  SlotUnits = 11
  MaxChunk = 2
  FsmFaults <- NoFaults
  Transports <- BothTransports
  Offered = 1
  NetFaults <- NoFaults
  MaxLosses = 4
  MaxDelays = 0
  MaxErrors = 0
SPECIFICATION Spec
INVARIANT DownloadInOrder
PROPERTIES ResumeCompletes
CHECK_DEADLOCK FALSE
