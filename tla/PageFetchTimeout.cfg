\* No nav_timeout_seconds: the navigation time-out is the default of 45 seconds.
SPECIFICATION Spec
CONSTANTS
  Cfg <- ServerConfig
  Fetches = {f1}
  Calls = {f1}
  Hosts = {h1}
  Paths = {"p"}
  Files = {{}, {"p"}}
  Submissions <- AllowingJob
  Backoffs = 1
  NoFetch = NoFetch
  NoRules = NoRules
  Second = 2
  MaxParallel = 1
  NavTimeoutSec = 0
  TimeoutSeconds = 1
  Documents <- Docs
  FinalURLs = {"none", "moved"}
  PromotionThresh = 40
  Bodies <- ThinAndFull
  AllowHeadless = {TRUE}
CHECK_DEADLOCK FALSE
INVARIANTS
  HeadlessWithinRequestTimeout
