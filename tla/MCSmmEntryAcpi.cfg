SPECIFICATION Spec
CONSTANTS
  Caller = {c1, c2}
  MaxDepth = 5
INVARIANT DeviceSmiServed
