SPECIFICATION Spec
CONSTANTS
  BITS = 3
  OFFW = 4
  MAGIC = 5
  MAGICLEN = 2
  SMALL = 3
  FUZZ = 1
  EI = 3
  EJ = 1
  SPACE = 1
  Deltas <- MCDeltas
  Pairs <- MCPairs
  Texts <- MCTexts
  Codes <- MCCodes
  MaxChunk = 3
  BadReads <- MCBadReads
  SortSuffixes <- qsufsort
INVARIANTS
  SuffixesSorted
  DiffSoFar
  ToolPatches
  StageIsTool
  DeliversImage
  FinishesAtEnd
  FailedReadStops
CHECK_DEADLOCK FALSE
