SPECIFICATION AccSpec
CONSTANTS
  AccRequests = {r1, r2}
  AccNetworks = {n1}
  AccAnswers = {1}
INVARIANTS AccGrantHasReason
PROPERTIES AccDecidesOnce
CHECK_DEADLOCK FALSE
