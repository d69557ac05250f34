SPECIFICATION Spec
CONSTANTS
  v1 = v1 v2 = v2 d1 = d1 d2 = d2 s1 = s1 s2 = s2
  vuln = vuln dns = dns j1 = j1 j2 = j2
  VendorIds = {v1}
  Domains = {d1}
  Sessions = {}
  Detectors = {vuln}
  Scored <- ScoredTypes
  TypeLists <- VulnOnly
  InputLists <- OneVendor
  Scores = {40, 60}
  Thresholds = {20}
  Jobs = {j1}
  Day = 1
  Week = 2
  MaxTime = 2
  MaxEdits = 3
  MaxFaults = 0
  RunConcurrency = 1
CHECK_DEADLOCK FALSE
INVARIANTS EveryDropAlerted
