\* Two evaluations, two operators, store faults, an external write and an expiry; fail closed.
SPECIFICATION RedisSpec
CONSTANTS
  Evals = {w1, w2}
  Operators = {o1, o2}
  FailClosed = TRUE
  Faults = {TRUE, FALSE}
  MaxEvals = 2
  MaxOps = 2
  MaxExternal = 1
  MaxExpiries = 1
SYMMETRY Symmetry
INVARIANTS
  BlockHoldsUnlessRaced
CHECK_DEADLOCK FALSE
