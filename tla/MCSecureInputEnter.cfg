CONSTANTS
  Char = {"a"}
  None = None
  MaxEntry = 2
  MaxPresses = 3
  MaxCalls = 2
  MaxKills = 0
SPECIFICATION Spec
INVARIANTS EnterWasHit
CHECK_DEADLOCK FALSE
