SPECIFICATION Spec
CONSTANTS
  Null = Null
  rgb = rgb
  nv12 = nv12
  Axes = {"x", "y"}
  Display <- MCDisplay
  Speed = 3
  Formats = {rgb, nv12}
  Cards <- MCCards
  Arguments <- MCArguments
  CardFails = TRUE
  Word = 64
  MaxSteps = 12
CHECK_DEADLOCK FALSE
INVARIANTS
  TypeOK
  PlanesFit
  ShownIsCurrent
  StaysNear
