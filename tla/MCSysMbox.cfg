CONSTANTS
  Msg = {m1, m2}
  NULL = NULL
  AskedSize = {0, 2, 3}
  DefaultSize = 4
SPECIFICATION Spec
INVARIANT TypeOK
PROPERTY RefinesQueue
