SPECIFICATION Spec
CONSTANTS
  Ids = {1, 2, 3}
  Times = {1, 2}
  Tenants = {"acme", "globex"}
  Limit = 1
CHECK_DEADLOCK FALSE
INVARIANT NothingSkipped
