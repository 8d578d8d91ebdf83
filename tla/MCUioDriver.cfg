CONSTANTS
  Page = {p1, p2}
  None = None
  MaxLoads = 3
SPECIFICATION Spec
INVARIANTS TypeOK SafeOnceLoaded
PROPERTY FirstSmiFindsPage
CHECK_DEADLOCK FALSE
