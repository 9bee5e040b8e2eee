CONSTANTS
  Null = Null
  FbCounts <- MCFbCounts
  MaxSetups = 3
SPECIFICATION Spec
INVARIANTS
  TypeOK
  AllOrNothing
  ReadyIsComplete
  NeverMisused
