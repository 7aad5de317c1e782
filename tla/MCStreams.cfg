SPECIFICATION FairSpec
CONSTANTS
  MaxWorkers = 2
  MaxJobs = 2
  Outcomes = {"ok", "err", "panic", "eof", "skip"}
  Scripts <- SmallScripts
  Readers = {1, 2}
  Consumers = {1, 2}
  MaxItems = 2
  MaxSize = 1
INVARIANTS PoolsAccount ItemsDelivered
PROPERTIES ToolsEnd
CHECK_DEADLOCK FALSE
