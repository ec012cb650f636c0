SPECIFICATION Spec
CONSTANTS
  u1 = u1
  u2 = u2
  Users = {u1}
  Limits <- MCLimits
  Day = 1
  Month = 4
  Tasks = {t1, t2}
  PlanOf <- FreePlans
  Asked = {"greeting_image", "consumer_image"}
  OldUsage <- NoUsage
  MaxWork = 3
  MaxTime = 0
INVARIANTS QuotaHolds
CHECK_DEADLOCK FALSE
