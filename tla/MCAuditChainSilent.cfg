SPECIFICATION SpecWithoutCrash
CONSTANTS
  t1 = t1
  t2 = t2
  b1 = b1
  b2 = b2
  bad = bad
  k1 = k1
  c1 = c1
  NoKey = NoKey
  NoSig = NoSig
  NoBody = NoBody
  EmptyKey = EmptyKey
  Tenant = {t1, t2}
  Body = {b1, b2, bad}
  Malformed = {bad}
  Key = {k1, EmptyKey}
  ClientKey = {c1}
  Administered = {t1}
  Request <- MCRequest
  MaxBatch = 1
  MaxEvents = 3
INVARIANT
  NoSilentShred
