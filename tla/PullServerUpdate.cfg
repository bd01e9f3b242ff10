CONSTANTS
  NImages = 1
  Version <- MCVersion
  Length <- MCLength
  Signed <- MCSigned
  Full <- NoneFull
  RunningVersion = 1
  ManifestUnits = 3
  MsgUnits = 2
  BufferUnits = 3
  SlotUnits = 8
  MaxChunk = 2
  FsmFaults <- NoFaults
  Transports <- BothTransports
  Offered = 1
  NetFaults <- NoFaults
  MaxLosses = 0
  MaxDelays = 0
  MaxErrors = 0
SPECIFICATION Spec
INVARIANT GenuineDownloadVerified
CHECK_DEADLOCK FALSE
