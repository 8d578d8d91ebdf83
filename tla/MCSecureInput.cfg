SPECIFICATION FairSpec
CONSTANTS
  Char = {"a"}
  None = None
  MaxEntry = 2
  MaxPresses = 2
  MaxCalls = 4
  MaxKills = 2
INVARIANTS
  TypeOK
  RouteConsistent
  NoLostWakeup
  InputsInOrder
PROPERTIES
  TrustedKeysStayInSmm
  SelectReturns
CHECK_DEADLOCK FALSE
