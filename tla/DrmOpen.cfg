CONSTANTS
  DRM_MAX_MINOR = 3
  MaskBits = 2
  c1 = c1
  c2 = c2
  c3 = c3
  c4 = c4
  e1 = e1
  e2 = e2
  e3 = e3
  lvds = lvds
  dsi = dsi
  hdmi = hdmi
  vgem = vgem
  i915 = i915
  Connectors = {c1, c2, c3, c4}
  Encoders = {e1, e2, e3}
  Types = {lvds, dsi, hdmi}
  AnyType = AnyType
  Skip = 4
  Null = Null
  Internal <- MCInternal
  OtherRank = 3
  Drivers = {vgem, i915}
  CardDrivers <- MCCardDrivers
  VgemPrefixes = {vgem}
  Hardware <- MCHardware
  Limits = {1, 2, 3}
  MaxCalls = 2
SPECIFICATION Spec
CHECK_DEADLOCK FALSE
INVARIANTS
  TypeOK
  FilteredIsFirst
  RankedIsLowest
  DisplayHasPipe
  OnlyUnusableLeak
