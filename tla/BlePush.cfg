CONSTANTS
  NImages = 3
  Version <- MCVersion
  Length <- MCLength
  Signed <- MCSigned
  Full <- MCFull
  RunningVersion = 1
  ManifestUnits = 2
  MsgUnits = 2
  BufferUnits = 2
  SlotUnits = 5
  MaxChunk = 2
  FsmFaults <- AllFaults
SPECIFICATION Spec
INVARIANTS FsmInv RebootVerified
