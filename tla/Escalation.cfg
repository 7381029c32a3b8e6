\* Two concurrent calls for one request id, a subscription that delivers in turn, a Close.
SPECIFICATION EscalationFairSpec
CONSTANTS
  Callers = {c1, c2}
  Callbacks = {k1}
  Closers = {z1}
  Ids = {r1}
  MaxCalls = 2
  MaxAnswers = 2
INVARIANTS
  WaiterIntact FirstResolutionWins
PROPERTIES
  NeverMissed BridgeQuiesces
CHECK_DEADLOCK FALSE
