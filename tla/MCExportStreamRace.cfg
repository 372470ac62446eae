SPECIFICATION Spec
CONSTANTS
  MaxEvents = 3
  MaxTicks = 2
  MaxResets = 1
  MaxFaults = 0
  Requests <- MCRequests
  Kinds = {"rekor"}
  AnchorKey = TRUE
CONSTRAINT UntilTheEnd
CHECK_DEADLOCK FALSE
INVARIANT EveryRootRebuilds
