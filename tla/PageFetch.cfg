SPECIFICATION Spec
CONSTANTS
  Cfg <- ServerConfig
  Fetches = {f1, f2}
  Calls = {f1, f2}
  Hosts = {h1}
  Paths = {"p"}
  Files = {{}, {"p"}}
  Submissions <- Jobs
  Backoffs = 1
  NoFetch = NoFetch
  NoRules = NoRules
  Second = 2
  MaxParallel = 1
  NavTimeoutSec = 2
  TimeoutSeconds = 1
  Documents <- Docs
  FinalURLs = {"none", "moved"}
  PromotionThresh = 40
  Bodies <- ThinAndFull
  AllowHeadless = {TRUE, FALSE}
CHECK_DEADLOCK FALSE
INVARIANTS
  TypeOK
  RobotsHonoured
  CacheHoldsServedFiles
  BrowserHonoursClient
  HeadlessBounded
PROPERTIES
  VisitEnds
