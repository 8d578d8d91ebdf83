CONSTANTS
  EnclaveFrame = {e1, e2, e3}
  OsFrame = {o1}
  None = None
  Nic = Nic
  Cleared = Cleared
  RxRingSize = 3
  MaxEntry = 2
  MaxTx = 1
SPECIFICATION FairSpec
INVARIANTS TypeOK OnePlace OsWillLook
PROPERTIES
  NoFrameVanishes
  DropOnlyWhenFull
  OsFramesArrive
  NotificationServed
