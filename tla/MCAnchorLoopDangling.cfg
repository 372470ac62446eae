SPECIFICATION FairSpec
CONSTANTS
  self = self
  demo = demo
  rekor = rekor
  ots = ots
  t1 = t1
  t2 = t2
  Project = {self, demo}
  Tenant = {t1}
  Anchors <- OneAnchor
  Deferred = {ots}
  Interval <- MCInterval
  Demo = {}
  Self = self
  SelfTenant = t1
  RetryLimit = 1
  UpgradeLimit = 1
  MaxEvents = 1
  MaxFaults = 1
PROPERTY
  DanglingRecovered
