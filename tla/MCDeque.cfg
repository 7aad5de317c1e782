SPECIFICATION Spec
CONSTANTS
  p1 = p1
  p2 = p2
  p3 = p3
  Procs = {p1, p2, p3}
  Nil = Nil
  Program <- BothEnds
  Options <- SmallOptions
  CreditUnit = 6
  MaxInt = 1000
  MaxPushes = 3
  MaxWakes = 1
INVARIANTS LinksSorted NoLostWakeup ForcePushFits
PROPERTIES ImplementsDoubleEnded IteratorsInOrder
CHECK_DEADLOCK FALSE
