\* Overlapping evaluations and an operator on one agent.
SPECIFICATION Spec
CONSTANTS
  InitialAlpha <- MCInitialAlpha
  InitialBeta <- MCInitialBeta
  SuccessWeight <- MCSuccessWeight
  FailureWeight <- MCFailureWeight
  PartialAlphaWeight <- MCPartialWeight
  PartialBetaWeight <- MCPartialWeight
  DegradedFailureMultiplier <- MCDegradedFailureMultiplier
  Theta <- MCTheta
  DegradedThreshold <- MCDegradedThreshold
  Unit <- MCUnit
  e1 = e1
  e2 = e2
  a1 = a1
  mcp = mcp
  webhook = webhook
  NoAgent = NoAgent
  Agents = {a1}
  Evals = {e1, e2}
  Transports = {mcp}
  Configs <- RaceDryConfigs
  RuleMatches <- RaceRules
  InterceptorResults <- RaceInterceptors
  PolicyResults <- RacePolicies
  EscalationResults <- RaceEscalations
  LookupFaults = {TRUE, FALSE}
  UpdateFaults = {TRUE, FALSE}
  MaxRequests = 3
  MaxOperatorActions = 1
INVARIANTS
  IsolatedNeverAllowed
PROPERTIES
  BreakerRefinement
CHECK_DEADLOCK FALSE
