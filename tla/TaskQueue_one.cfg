\* The controller's queue: one worker, two producers.
CONSTANTS
  Keys = {k1}
  NoKey = NoKey
  Producers = {p1, p2}
  Workers = {w1}
  Day = 2
  MaxClock = 3
  MaxRequests = 2
  MaxFailures = 1
SPECIFICATION Spec
INVARIANTS TypeOK NoLostRequest DirtyIsPending NoDoubleClose
PROPERTIES ShutdownAcked ImplementsRequests
CHECK_DEADLOCK FALSE
