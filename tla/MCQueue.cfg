SPECIFICATION Spec
CONSTANTS
  p1 = p1
  p2 = p2
  p3 = p3
  p4 = p4
  Procs = {p1, p2, p3, p4}
  Program <- MixedProgram
  Options <- SmallOptions
  Unlimited = FALSE
  CreditUnit = 2
  MaxInt = 1000
  MaxPushes = 3
  MaxWakes = 1
INVARIANTS TypeOK LimitsKept ListIntact DrainersCounted NoLostWakeup WaitPushNeverFull
PROPERTIES ImplementsFIFO IteratorsInOrder NoAddWhileDraining
CHECK_DEADLOCK FALSE
