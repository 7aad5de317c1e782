SPECIFICATION Spec
CONSTANTS
  p1 = p1
  p2 = p2
  p3 = p3
  p4 = p4
  Procs = {p1, p2, p3}
  Program <- WaitersProgram
  Options <- OneSlot
  Unlimited = FALSE
  CreditUnit = 1
  MaxInt = 1000
  MaxPushes = 2
  MaxWakes = 1
PROPERTIES DrainReportsClosed
CHECK_DEADLOCK FALSE
