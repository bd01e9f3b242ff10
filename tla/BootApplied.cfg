SPECIFICATION Spec
CONSTANTS
  NImages = 4
  Version <- MCVersion
  Size <- MCSize
  Signed <- AllSigned
  MaxVersion = 9
  NSlots = 2
  Bootable <- FlashBootable
  SlotBlocks = 4
  PageBlocks = 2
  SwapBlocks = 2
  Faults <- NoFaults
  Coroutines = TRUE
  Interruptions = FALSE
  ResetInSwap = FALSE
  MaxResets = 2
  MaxDownloads = 3
CHECK_DEADLOCK FALSE
INVARIANT AlwaysBoots
PROPERTY UpdateApplied
