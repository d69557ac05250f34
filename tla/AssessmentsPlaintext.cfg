SPECIFICATION Spec
CONSTANTS
  j1 = j1 j2 = j2 s1 = s1 s2 = s2 d1 = d1 d2 = d2
  v1 = v1 v2 = v2 g1 = g1
  Jobs = {j1}
  Sessions = {s1}
  Domains = {d1}
  VendorIds = {v1}
  VendorLists <- OneVendor
  Requests = {}
  StableKey = TRUE
  Retention = 2
  Second = 2
  MaxTime = 0
  MaxFaults = 1
CHECK_DEADLOCK FALSE
INVARIANTS NoPlaintextLeft
