SPECIFICATION FairSpec
CONSTANTS
  Callers = {p1, p2}
  MaxCalls = 3
  MayFail = {"cleanup"}
  HasSignal = FALSE
INVARIANTS RunningClears
CHECK_DEADLOCK FALSE
