SPECIFICATION Spec
CONSTANTS
  BufferUnits = 2
  VersionMod = 65536
  Devices <- MCDevices
  Garbage <- MCGarbage
  Sizes <- MCSizes
  FirstVersion = 2
  DeviceVersions <- MCDeviceVersions
  AreaUnits = 5
  SignFaults = TRUE
  MaxAttempts = 2
  MaxBumps = 1
  MaxRestarts = 1
INVARIANTS
  AcceptedForDevice
  UndisturbedAccepted
  GenuineVerified
  OfferedValid
CHECK_DEADLOCK FALSE
