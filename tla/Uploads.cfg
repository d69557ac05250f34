SPECIFICATION UploadSpec
CONSTANTS
  IPs = {"ip1", "ip2"}
  Window = 1
  MaxRequests = 2
  MaxTime = 2
  MaxServed = 3
  MaxArrivals = 3
  Bodies <- AllBodies
  NameWords <- Names
  UrlWords <- Urls
  NameLike <- ResembleNames
  UrlLike <- ResembleUrls
  Cleaned <- CleanTexts
  Malformed <- NoUrls
  Slug <- Slugs
  CandidateTlds <- Tlds
  MaxVendors = 2
  MaxHeaderRow = 2
CHECK_DEADLOCK FALSE
INVARIANTS RateTypeOK WindowBounded RefusedHadTheirShare UploadTypeOK AdmittedWithinLimit ListedVendorsScanned
PROPERTIES RefinesWindow RequestsAnswered
