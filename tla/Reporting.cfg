SPECIFICATION RepSpec
CONSTANTS
  r1 = r1 r2 = r2 r3 = r3
  Runs = {r1, r2, r3}
  KevTTL = 1
  MaxVersions = 2
  MaxTime = 1
  Candidates <- Found
  CandidateCap = 3
  ShownItems = 1
  Kinds = {"job", "scheduler"}
  Plans <- Asked
  KevEntries <- Entries
  KevCap = 2
  Assessed <- Assessments
  HistoryLimit = 2
  Nobody = Nobody
  MaxFaults = 1
SYMMETRY AnyRun
CHECK_DEADLOCK FALSE
INVARIANTS CatalogueFresh LastReportLatest ReportsAgree LeadsShown
