SPECIFICATION FairSpec
CONSTANTS
  Callers = {1, 2}
  OnceCallers = {1, 2, 3}
  Ctors = {1, 2}
  Limit = 2
  Dur = 2
  Keys = {1}
  Services = {1, 2}
  Items = {1, 2}
  Workers = 2
  Interval = 2
  MaxNow = 6
  MaxCalls = 2
  MaxWrites = 2
  MaxFetches = 2
  MaxTime = 5
  MaxStarts = 3
INVARIANTS CallersAgree ServicesReport
PROPERTIES AnswersAreOfRuns CallsEnd
CHECK_DEADLOCK FALSE
