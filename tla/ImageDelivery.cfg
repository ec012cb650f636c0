SPECIFICATION FairDelivery
CONSTANTS
  u1 = u1
  u2 = u2
  Users = {u1, u2}
  Limits <- MCLimits
  Day = 1
  Month = 1
  PlanOf <- MCPlans
  PollTimeout = 3
  PollInterval = 1
  CallTime = 2
  MaxAttempts = 4
CHECK_DEADLOCK FALSE
INVARIANTS TypeOK FailureIsFree PictureCopies NeverSilent
PROPERTIES ImplementsGeneration EventuallyEnds
