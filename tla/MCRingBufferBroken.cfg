CONSTANTS
  MaxEntry = 2
  Message = {m1, m2}
  Junk = Junk
  MaxFaults = 1
SPECIFICATION FairSpec
PROPERTY SessionRestarted
