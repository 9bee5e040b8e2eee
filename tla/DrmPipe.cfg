CONSTANTS
  DRM_MAX_MINOR = 2
  MaskBits = 2
  c1 = c1
  c2 = c2
  c3 = c3
  e1 = e1
  e2 = e2
  e3 = e3
  lvds = lvds
  hdmi = hdmi
  vga = vga
  Connectors = {c1, c2, c3}
  Encoders = {e1, e2, e3}
  Types = {lvds, hdmi, vga}
  AnyType = AnyType
  Skip = 3
  Null = Null
  Pending = Pending
  Hardware <- MCHardware
  RankTables <- MCRankTables
  Masks <- MCMasks
  MaxMakes = 1
SPECIFICATION Spec
INVARIANTS
  TypeOK
  AnswerIsBest
  OwnershipBalanced
PROPERTIES
  KeepsPromise
  MakeReturns
