SPECIFICATION Spec
CONSTANTS
  Null = Null
  Junk = Junk
  NoEgl = NoEgl
  Bos <- MCBos
  FbFormats <- MCFbFormats
  MAX_PLANE_COUNT = 4
  MaxPlanes = 3
  MaxSpilled = 3
  Programs <- MCPrograms
INVARIANTS
  TypeOK
  RequestIsOwn
  FaultsAreKnown
  LeavesOnly
  StatusHonest
\* Programs end.
CHECK_DEADLOCK FALSE
