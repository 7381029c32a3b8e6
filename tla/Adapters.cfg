\* Each adapter with two requests in flight (three streams of a session).
SPECIFICATION Spec
CONSTANTS
  InitialAlpha = 2
  InitialBeta = 2
  SuccessWeight = 1
  FailureWeight = 4
  PartialAlphaWeight = 1
  PartialBetaWeight = 1
  DegradedFailureMultiplier = 2
  Theta = 3
  DegradedThreshold = 5
  Unit = 10
  Handlers = {"h1", "h2"}
  Traffic <- MCTraffic
  Listings <- MCListings
  upstreamGone = upstreamGone
  nameless = nameless
  Opaque <- upstreamGone
  Nameless <- nameless
  PolicyOf <- MCPolicyOf
  MaxPosts = 2
  GhCalls = {"c1", "c2", "c3"}
  GhTraffic <- MCGhTraffic
  GhSessions = {"s1", "r1"}
  NoRepo = noRepo
  SourceRepo = "public"
  Executions = {1, 2}
  CodeRequests <- MCCodeRequests
  SandboxConfigs <- MCSandboxConfigs
  Proxies = {"p1", "p2"}
  Streams <- MCStreams
  Threads = {"root", "sub", "other"}
  RootThread = "root"
  rootBudget = 4
  Distrusted = {"sub"}
INVARIANTS
  ForwardedExactlyAsAnswered EveryMessageAccounted
  NoWriteAfterTaint EvidenceBeforeAnswer
  EachItsOwnContainer BudgetHolds
PROPERTIES
  GatewayAnswers
CHECK_DEADLOCK FALSE
