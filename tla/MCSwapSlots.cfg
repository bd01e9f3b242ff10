SPECIFICATION SwapSpec
CONSTANTS
  NImages = 3
  Version <- MCVersion
  Size <- MCSize
  Signed <- MCSigned
  MaxVersion = 9
  NSlots = 2
  Bootable <- MCBootable
  SlotBlocks = 6
  PageBlocks = 2
  SwapBlocks = 4
  Faults <- MCReportedFaults
INVARIANT SwapInv
PROPERTY SwapIsAtomicExchange
PROPERTY SwapTerminates
CHECK_DEADLOCK FALSE
