\* Two executors, one of which posts to the other, callers and owners that keep
\* the contract, under fairness.
CONSTANTS
  e1 = e1
  e2 = e2
  Executors = {e1, e2}
  Clients = {c}
  Tasks = {1, 2}
  Sends <- MCSends
  Garbage = {"NONE"}
  Contract = TRUE
  None = None
SPECIFICATION FairSpec
INVARIANTS NoDangling NoLostWakeup StoppedIsClean
PROPERTIES ImplementsLifecycle StopReturns EveryTaskDisposed
\* All executors may be stopped for good.
CHECK_DEADLOCK FALSE
