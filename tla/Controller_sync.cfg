\* Two changes of the parts that are treated differently, two failing steps of syncs,
\* updateCh of one place.
CONSTANTS
  SyncWorker = w
  Workers = {w}
  Parts = {"passthrough", "ports", "backends", "certs", "files"}
  Values = {v1, v2}
  InitialValue = v1
  RingSize = 1
  Retries = 1
  MaxChanges = 2
  MaxRequests = 3
  MaxFailures = 2
SPECIFICATION Spec
CHECK_DEADLOCK FALSE
INVARIANTS TypeOK NoLostUpdate RunningConfigWithoutErrors
PROPERTIES RecordedWhenApplied Converges
