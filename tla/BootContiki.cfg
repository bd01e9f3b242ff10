SPECIFICATION Spec
CONSTANTS
  NImages = 4
  Version <- MCVersion
  Size <- MCSize
  Signed <- MCSigned
  MaxVersion = 9
  NSlots = 2
  Bootable <- FlashBootable
  SlotBlocks = 4
  PageBlocks = 2
  SwapBlocks = 2
  Faults <- ReportedFaults
  Coroutines = TRUE
  Interruptions = TRUE
  ResetInSwap = TRUE
  MaxResets = 3
  MaxDownloads = 3
CHECK_DEADLOCK FALSE
INVARIANT BootValid
INVARIANT BootInv
INVARIANT BootstrapOnce
INVARIANT BootstrapWipesOthers
PROPERTY NoDowngrade
