SPECIFICATION Spec
CONSTANTS
  u1 = u1
  u2 = u2
  Users = {u1, u2}
  Limits <- MCLimits
  Day = 1
  Month = 4
  Tasks = {t1, t2}
  PlanOf <- FreePlans
  Asked = {"consumer_image"}
  OldUsage <- NoUsage
  MaxWork = 3
  MaxTime = 0
INVARIANTS RewardOnce
CHECK_DEADLOCK FALSE
