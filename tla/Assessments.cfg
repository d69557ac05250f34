SPECIFICATION FairSpec
CONSTANTS
  j1 = j1 j2 = j2 s1 = s1 s2 = s2 d1 = d1 d2 = d2
  v1 = v1 v2 = v2 g1 = g1
  Jobs = {j1, j2}
  Sessions = {s1, s2}
  Domains = {d1}
  VendorIds = {v1, v2}
  VendorLists <- OneVendor
  Requests = {g1}
  StableKey = FALSE
  Retention = 2
  Second = 1
  MaxTime = 3
  MaxFaults = 1
CHECK_DEADLOCK FALSE
INVARIANTS TypeOK CompleteHasReport OnlyOwnersRead RowsUnderOwnVendor AuditMatches
PROPERTIES FilesExpire AssessmentsEnd
