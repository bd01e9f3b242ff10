SPECIFICATION Spec
CONSTANTS
  NImages = 4
  Version <- MCVersion
  Size <- MCSize
  Signed <- MCSigned
  MaxVersion = 9
  NSlots = 3
  Bootable <- PosixBootable
  SlotBlocks = 4
  PageBlocks = 2
  SwapBlocks = 2
  Faults <- ReportedFaults
  Coroutines = FALSE
  Interruptions = TRUE
  ResetInSwap = TRUE
  MaxResets = 3
  MaxDownloads = 4
CHECK_DEADLOCK FALSE
INVARIANT TypeOK
INVARIANT BootstrapOnce
PROPERTY NoDowngrade
