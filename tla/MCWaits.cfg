SPECIFICATION Spec
CONSTANTS
  p1 = p1
  p2 = p2
  p3 = p3
  Unused = Unused
PROPERTIES WaitsEnd
CHECK_DEADLOCK FALSE
