SPECIFICATION Spec
CONSTANTS
  d1 = d1
  d2 = d2
  Datasets = {d1, d2}
  Sellers = {s1}
  Merchandises = {m1}
  AnyDataset = AnyDataset
  NoSeller = NoSeller
  Definitions <- ShippedDefinitions
  DefaultPurposes <- Purp
  AskedPurposes = {"research", "safety"}
  VlmSettings = {TRUE}
  Licences = {{d1}}
  Bought = {d1}
  Users <- TwoUsers
  RequestTTL = 0
  PolicyTTL = 0
  ViewerTTL = 0
  ServiceTTL = 0
  SellerTTL = 0
  MaxTime = 1
  MaxRequests = 1
  MaxTokens <- TokenBounds
  MaxClaims = 1
  MaxRows = 1
  MaxUses = 2
  MaxPending = 2
  MaxAuditFailures = 1
  Messages <- TwoMessages
  MessagePurposes = {"research"}
  VcIds = {v1}
  ConsentForms <- OneForm
  Licensed = {"home/event/person_detected"}
  Injectors = {"vlm", "redactor"}
  MaxMessages = 2
  MaxVersions = 2
  MaxClock = 1
  MaxCrashes = 1
  MaxFaults = 1
  Frames <- FourFiles
  NoFrame <- BlankFrame
  Videos <- OneVideo
  Redacted <- Redactions
  Short <- ShortProducts
  Backend = "vision"
  AllowUnknownAtHigh = FALSE
  ViewerViews <- ViewSets
  MaxPicks = 2
  MaxAnalyses = 2
  MaxPageFaults = 1
  PoolSize = 2
  MaxBrowsers = 2
  Configured = {"redactor"}
  OuterKinds = {"publish", "render_url", "media_upload", "ipfs_get"}
  Lines <- FiveLines
  MinConfidence = 5
  FlushInterval = 2
  Second = 2
  SlowWrite = 1
  MaxBatches = 2
  SamplesShown = 2
  MaxLines = 4
  MaxHuskyClock = 6
  Scenes <- TenScenes
  Gaps = {1, 3}
  MaxDist = 80
  PersonNear = 100
  StaleAfter = 1
  Linger = 3
  PersonAway = 2
  FlushEvery = 1
  PersonEvery = 3
  MaxFrames = 4
CHECK_DEADLOCK FALSE
INVARIANTS DeniedReadNothing
