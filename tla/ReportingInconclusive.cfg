SPECIFICATION RepSpec
CONSTANTS
  r1 = r1 r2 = r2 r3 = r3
  Runs = {r1}
  KevTTL = 1
  MaxVersions = 2
  MaxTime = 0
  Candidates <- Found
  CandidateCap = 3
  ShownItems = 1
  Kinds = {"job", "scheduler"}
  Plans <- AskedPhishing
  KevEntries <- Entries
  KevCap = 2
  Assessed <- Assessments
  HistoryLimit = 3
  Nobody = Nobody
  MaxFaults = 1
CHECK_DEADLOCK FALSE
INVARIANT InconclusiveNotClear
