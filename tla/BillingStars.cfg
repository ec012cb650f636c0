SPECIFICATION Spec
CONSTANTS
  Users = {u1}
  Pids = {p1, p2}
  NoPid = NoPid
  Handlers = {h1, h2}
  Jobs = {}
  Period = 1
  Advance = 1
  Recurring = TRUE
  Rebills = {TRUE, FALSE}
  Offered = {"stars_topup_99"}
  Statuses = {"CONFIRMED"}
  MaxSales = 2
  MaxTime = 0
SYMMETRY Symmetry
INVARIANTS BalanceSnapshot
CHECK_DEADLOCK FALSE
