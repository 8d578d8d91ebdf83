SPECIFICATION Spec
CONSTANTS
  KBD_IRQ = i1
  Irq = {i1, i10}
  Vector = {49, 58}
  Flag = {"edge", "level"}
  MaxAccess = 2
INVARIANT Transparent
