SPECIFICATION Spec
CONSTANTS
  b1 = b1
  b2 = b2
  Symbols <- TwoBooks
  MaxAttempts = 2
  MaxBuffer = 2
  Verdicts = {"OK", "CROSSED"}
  Horizon <- Horizons
  MaxConnections = 2
  MaxLost = 1
  Hidden = Hidden
  None = None
INVARIANT ShownFromThisConnection
CHECK_DEADLOCK FALSE
