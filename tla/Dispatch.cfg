SPECIFICATION FairDispatch
CONSTANTS
  u1 = u1
  Users = {u1}
  Limits <- MCLimits
  Day = 1
  Month = 1
  Handlers = {h1, h2}
  Transports = {"webhook", "polling"}
  Paid <- MCPaid
  Script <- MCScript
  MaxUpdates = 2
  MaxFaults = 1
CHECK_DEADLOCK FALSE
INVARIANTS TypeOK  ForeignButtonInert WorkOfThePlan ForgottenBound PolledFresh LostOnlyInDroppedBatch AnsweredTookEffect
PROPERTIES ImplementsUpdateEffects EventuallyHandled
