SPECIFICATION FairSpec
CONSTANTS
  p1 = p1
  p2 = p2
  t1 = t1
  t2 = t2
  t3 = t3
  Procs = {p1, p2}
  Tokens = {t1, t2, t3}
  Owner <- Owners
  MaxWaits = 3
PROPERTIES CancelReturns
CHECK_DEADLOCK FALSE
