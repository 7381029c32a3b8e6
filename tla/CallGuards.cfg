\* Two requests with a pattern cache of two entries and buckets of two tokens; one
\* evaluation against every policy set of the catalogue, two updates in between.
SPECIFICATION Spec
CONSTANTS
  p1 = p1
  p2 = p2
  p3 = p3
  bad = bad
  Requests = {r1, r2}
  Patterns = {p1, p2, p3, bad}
  BadPatterns = {bad}
  Keys = {k1, k2}
  NoKey = NoKey
  Matchers <- WideMatchers
  Limits <- MCLimits
  MaxCacheSize = 2
  MaxServed = 4
  MaxClock = 4
  Evaluations = {e1}
  InitialSets <- MCInitialSets
  PolicySets <- MCPolicySets
  Options <- MCOptions
  Contexts <- MCContexts
  MaxUpdates = 2
SYMMETRY Symmetry
INVARIANTS
  RateBounded StrictestPolicyWins NoSilentSkip DenyAttributed
PROPERTIES
  MalformedFailsClosed
CHECK_DEADLOCK FALSE
