CONSTANTS
  NImages = 1
  Version <- MCVersion
  Length <- MCLength
  Signed <- MCSigned
  Full <- MCFull
  RunningVersion = 0
  ManifestUnits = 3
  MsgUnits = 2
  BufferUnits = 3
  SlotUnits = 8
  MaxChunk = 2
  FsmFaults <- AllFsmFaults
  Transports <- BothTransports
  Offered = 1
  NetFaults <- AllNetFaults
  MaxLosses = 2
  MaxDelays = 2
  MaxErrors = 1
SPECIFICATION Spec
INVARIANTS TypeOK PipelineInOrder RebootVerified ApplyHarmless
PROPERTY AgentEnds
CHECK_DEADLOCK FALSE
