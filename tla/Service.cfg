SPECIFICATION FairSpec
CONSTANTS
  Callers = {p1, p2}
  MaxCalls = 3
  MayFail = {"run", "cleanup"}
  HasSignal = TRUE
INVARIANTS WaitSeesAll HandlerSeesAll
PROPERTIES RunOnce CancelStops CloseStops
CHECK_DEADLOCK FALSE
