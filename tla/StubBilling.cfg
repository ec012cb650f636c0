SPECIFICATION Spec
CONSTANTS
  Users = {u1}
  Pids = {p1}
  NoPid = NoPid
  Period = 1
  Requests = {r1, r2, r3}
  Runs = {j1, j2}
  DebugPid = p1
  MaxTime = 3
CHECK_DEADLOCK FALSE
INVARIANTS TypeOK RowsBound PaidRowServes
PROPERTIES AccessKept CancelSticks
