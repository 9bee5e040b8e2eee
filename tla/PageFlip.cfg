CONSTANTS
  Null = Null
  Last = 4
SPECIFICATION Spec
CHECK_DEADLOCK FALSE
INVARIANTS
  TypeOK
  NoTearing
  FlagInScope
PROPERTIES
  FramesInOrder
  Ends
