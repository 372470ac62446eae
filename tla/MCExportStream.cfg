SPECIFICATION Spec
CONSTANTS
  MaxEvents = 3
  MaxTicks = 2
  MaxResets = 1
  MaxFaults = 1
  Requests <- MCRequests
  Kinds = {"ots"}
  AnchorKey = TRUE
CONSTRAINT UntilTheEnd
CHECK_DEADLOCK FALSE
INVARIANTS
  TypeOK
  HonestExportVerifies
  ValidMeansPublished
  ShortFileRejected
  ServerAnswersHold
  VerdictsAgree
