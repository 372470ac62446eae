SPECIFICATION Spec
CONSTANTS
  self = self
  demo = demo
  rekor = rekor
  ots = ots
  t1 = t1
  t2 = t2
  Project = {self, demo}
  Tenant = {t1}
  Anchors <- MCAnchors
  Deferred = {ots}
  Interval <- NoInterval
  Demo = {demo}
  Self = self
  SelfTenant = t1
  RetryLimit = 1
  UpgradeLimit = 1
  MaxEvents = 3
  MaxFaults = 1
INVARIANTS
  TypeOK
  BatchesPartition
  RootsVerify
  ReceiptsBacked
  SweepComplete
  LinkedIsIndexed
PROPERTIES
  LinkedForGood
