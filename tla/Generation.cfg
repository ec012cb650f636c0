SPECIFICATION Spec
CONSTANTS
  u1 = u1
  u2 = u2
  Users = {u1, u2}
  Limits <- MCLimits
  Day = 1
  Month = 2
  Tasks = {t1, t2}
  PlanOf <- MCPlans
  Asked <- Contexts
  OldUsage <- MCOldUsage
  MaxWork = 3
  MaxTime = 2
CHECK_DEADLOCK FALSE
SYMMETRY Symmetry
INVARIANTS TypeOK QuotaBound ChargedForOutput RewardsEarned RewardBound
