SPECIFICATION Spec
CONSTANTS
  NImages = 1
  Version <- MCVersion
  Size <- MCSize
  Signed <- MCSigned
  MaxVersion = 2
  NSlots = 4
  Bootable <- MCBootable
  SlotBlocks = 1
  PageBlocks = 1
  SwapBlocks = 1
INVARIANT TypeOK
INVARIANT ScanCorrect
CHECK_DEADLOCK FALSE
