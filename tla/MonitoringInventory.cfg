SPECIFICATION FairSpec
CONSTANTS
  v1 = v1 v2 = v2 d1 = d1 d2 = d2 s1 = s1 s2 = s2
  vuln = vuln dns = dns j1 = j1 j2 = j2
  VendorIds = {v1, v2}
  Domains = {d1, d2}
  Sessions = {}
  Detectors = {vuln}
  Scored <- ScoredTypes
  TypeLists <- VulnOnly
  InputLists <- OneMissing
  Scores = {40}
  Thresholds = {0}
  Jobs = {j1}
  Day = 1
  Week = 2
  MaxTime = 1
  MaxEdits = 3
  MaxFaults = 1
  RunConcurrency = 1
CHECK_DEADLOCK FALSE
INVARIANTS UniqueDomains CompleteJobsRecorded ConfigNeedsVendor RowsAreOfVendor
PROPERTIES DueIsServed JobsEnd
