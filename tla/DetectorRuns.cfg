SPECIFICATION FairSpec
CONSTANTS
  b1 = b1 b2 = b2 d1 = d1 d2 = d2
  waf = waf exploitation = exploitation
  Independent = {exploitation}
  Derived = {waf}
  AllTypes <- Registry
  Batches = {b1, b2}
  VendorLists <- Lists
  Selections <- Asked
  Concurrency = 1
  TTL = 0
  MaxTime = 1
  MaxRestarts = 1
CHECK_DEADLOCK FALSE
INVARIANTS TypeOK AnswersComplete AnswersRecent
PROPERTIES BatchesEnd
