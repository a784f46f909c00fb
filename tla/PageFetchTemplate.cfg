\* A job from the template of config.yaml, which says no to the browser.
SPECIFICATION Spec
CONSTANTS
  Cfg <- ServerConfig
  Fetches = {f1}
  Calls = {f1}
  Hosts = {h1}
  Paths = {"p"}
  Files = {{}, {"p"}}
  Submissions <- TemplateJob
  Backoffs = 1
  NoFetch = NoFetch
  NoRules = NoRules
  Second = 2
  MaxParallel = 1
  NavTimeoutSec = 2
  TimeoutSeconds = 1
  Documents <- Docs
  FinalURLs = {"none", "moved"}
  PromotionThresh = 40
  Bodies <- ThinAndFull
  AllowHeadless = {TRUE}
CHECK_DEADLOCK FALSE
INVARIANTS
  BrowserHonoursTemplate
