\* One evaluation at a time, every kind of answer from every stage.
SPECIFICATION Spec
CONSTANTS
  InitialAlpha <- MCInitialAlpha
  InitialBeta <- MCInitialBeta
  SuccessWeight <- MCSuccessWeight
  FailureWeight <- MCFailureWeight
  PartialAlphaWeight <- MCPartialWeight
  PartialBetaWeight <- MCPartialWeight
  DegradedFailureMultiplier <- MCDegradedFailureMultiplier
  Theta <- MCTheta
  DegradedThreshold <- MCDegradedThreshold
  Unit <- MCUnit
  e1 = e1
  e2 = e2
  a1 = a1
  mcp = mcp
  webhook = webhook
  NoAgent = NoAgent
  Agents = {a1}
  Evals = {e1}
  Transports = {mcp, webhook}
  Configs <- WideConfigs
  RuleMatches <- WideRules
  InterceptorResults <- WideInterceptors
  PolicyResults <- WidePolicies
  EscalationResults <- WideEscalations
  LookupFaults = {TRUE, FALSE}
  UpdateFaults = {TRUE, FALSE}
  MaxRequests = 1
  MaxOperatorActions = 1
INVARIANTS
  TypeOK
  FailClosed
  MostRestrictiveWins
  AuditHonest
  PanicAccounted
PROPERTIES
  OnlyOutcomesMoveTrust
CHECK_DEADLOCK FALSE
