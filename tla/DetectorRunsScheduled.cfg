SPECIFICATION Spec
CONSTANTS
  b1 = b1 b2 = b2 d1 = d1 d2 = d2
  waf = waf exploitation = exploitation
  Independent = {exploitation}
  Derived = {waf}
  AllTypes <- Registry
  Batches = {b1, b2}
  VendorLists <- OneVendor
  Selections <- AskedOne
  Concurrency = 1
  TTL = 1
  MaxTime = 1
  MaxRestarts = 0
CHECK_DEADLOCK FALSE
INVARIANTS ScheduledFresh
