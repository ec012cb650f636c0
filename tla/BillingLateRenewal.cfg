SPECIFICATION Spec
CONSTANTS
  Users = {u1}
  Pids = {p1, p2}
  NoPid = NoPid
  Handlers = {h1}
  Jobs = {j1}
  Period = 1
  Advance = 1
  Recurring = TRUE
  Rebills = {TRUE, FALSE}
  Offered = {"consumer_plus_290"}
  Statuses = {"CONFIRMED"}
  MaxSales = 1
  MaxTime = 2
INVARIANTS RenewalExtends
