\* One worker process (workers only read what they share), lists in different seconds.
CONSTANTS
  n1 = n1
  n2 = n2
  a1 = a1
  a2 = a2
  e1 = e1
  e2 = e2
  empty = empty
  NginxWorkers = {w1}
  Names = {n1, n2}
  Plain = {a1, a2, empty}
  External = {e1, e2}
  WithoutEndpoints = {empty}
  Absent = Absent
  None = None
  Lists <- StableLists
  Apart = 1
  MaxClock = 4
  MaxFailures = 1
  MaxRestarts = 1
SPECIFICATION Spec
INVARIANTS TypeOK NoStaleWorker
PROPERTIES PickedUp
CHECK_DEADLOCK FALSE
