SPECIFICATION Spec
CONSTANTS
  Null = Null
  k1 = k1
  k2 = k2
  Crtcs = {1, 2}
  Planes = {1, 2, 3}
  Connectors = {k1, k2}
  Formats = 2
  Machines <- MCMachines
  Chosen <- MCNames
  MayRefuse = FALSE
  Farthest = 1001
CHECK_DEADLOCK FALSE
INVARIANT NoActiveCrtcWithoutPlanes
