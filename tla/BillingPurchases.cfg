SPECIFICATION Spec
CONSTANTS
  Users = {u1}
  Pids = {p1, p2, p3}
  NoPid = NoPid
  Handlers = {h1, h2}
  Jobs = {}
  Period = 1
  Advance = 1
  Recurring = TRUE
  Rebills = {TRUE}
  Offered = {"consumer_plus_290", "business_marketer_490", "stars_topup_99"}
  Statuses = {"AUTHORIZED", "CONFIRMED"}
  MaxSales = 3
  MaxTime = 0
SYMMETRY Symmetry
INVARIANTS ActiveRowsBound NoPaymentLost
PROPERTIES ImplementsLedger
CHECK_DEADLOCK FALSE
