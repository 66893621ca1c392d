SPECIFICATION TablesSpec
CONSTANTS
  MemBase = 4
  MemEnd = 20
  StackBase = 17
  MAX_LMB_REGIONS = 3
  Blocks <- MCBlocks
  AllocSizes = {1, 3, 4}
  Aligns = {1, 4}
  MaxAddrs = {0, 11, 30}
  MaxHeld = 4
  k1 = k1
  k2 = k2
  k3 = k3
  Keys <- MCKeys
  Vals = {1, 2}
  NoKey = NoKey
  NoVal = NoVal
  Code <- MCCode
  Sizes <- MCSizes
  Imports <- MCImports
  NameLists <- MCNameLists
CONSTRAINT BucketIsEmpty
INVARIANTS
  HeldIsReserved
  FindsWhatWasSet ExportsWhatWasSet ProbesAll
PROPERTIES AllocTakesFree SearchEnds
CHECK_DEADLOCK FALSE
