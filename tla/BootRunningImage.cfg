SPECIFICATION Spec
CONSTANTS
  NImages = 4
  Version <- MCVersion
  Size <- MCSize
  Signed <- MCSigned
  MaxVersion = 9
  NSlots = 2
  Bootable <- FlashBootable
  SlotBlocks = 4
  PageBlocks = 2
  SwapBlocks = 2
  Faults <- NoFaults
  Coroutines = TRUE
  Interruptions = TRUE
  ResetInSwap = FALSE
  MaxResets = 1
  MaxDownloads = 2
CHECK_DEADLOCK FALSE
INVARIANT RunningImageKept
