\* An error between two changes that cancel out.
CONSTANTS
  SyncWorker = w
  Workers = {w}
  Parts = {"backends", "certs"}
  Values = {v1, v2}
  InitialValue = v1
  RingSize = 1
  Retries = 0
  MaxChanges = 2
  MaxRequests = 3
  MaxFailures = 1
SPECIFICATION Spec
CHECK_DEADLOCK FALSE
INVARIANT RunningConfigIsBackend
