SPECIFICATION FairSpec
CONSTANTS
  UsbIrq = i10
  Irq = {i10, i11}
  Vector = {v1, v2, v3}
  Key = {k1, k2, k3}
  ReportKeys = 2
  MaxKeys = 2
INVARIANTS TypeOK FirstKeysTaken FirstKeyHidden CompletionPending
PROPERTY InterruptsHandedOn
