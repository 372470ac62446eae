SPECIFICATION Spec
CONSTANTS
  Base = 2
  MaxDigits = 3
  MaxRecursion = 6
  Pools <- MCPools
  Whitelist = {1, 2}
  MinCalendars = 2
  MaxAttempts = 2
INVARIANTS
  TypeOK
  ProofCanonical
  ReceiptVerifies
PROPERTIES
  EventuallyFinal
