SPECIFICATION Spec
CONSTANTS
  Null = Null
  Free = Free
  Heap = Heap
  h1 = h1
  h2 = h2
  h3 = h3
  h4 = h4
  Handles = {h1, h2, h3, h4}
  PageBytes = 4
  Space = 5
  Bos <- MCBos
  Pictures <- MCPictures
  Retries = 2
  MaxDraws = 2
INVARIANTS
  TypeOK
  PlanesVisible
  MappingsUndone
  NothingLeftOpen
PROPERTIES
  UnmapsOwn
  DrawReturns
