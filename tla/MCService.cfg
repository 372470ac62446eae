SPECIFICATION Spec
CONSTANTS
  Kinds <- MCKinds
  Prices = {"pro"}
  MaxStripeEvents = 2
  Calls = {"log", "bulk", "other"}
  KeyScopes <- MCKeyScopes
  Batch <- MCBatch
  MaxAttempts = 2
  MaxHits = 2
  Limit <- MCLimit
  MaxMonths = 1
CONSTRAINT Bounded
CHECK_DEADLOCK FALSE
INVARIANTS
  TypeOK
  CallsLogOnce
  FailureIsClean
  PlanFollowsStripe
PROPERTIES
  CallsEnd
