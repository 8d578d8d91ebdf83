CONSTANTS
  MaxEntry = 2
  Message = {m1, m2, m3}
  Junk = Junk
  MaxFaults = 1
SPECIFICATION Spec
SYMMETRY MessageSymmetry
INVARIANTS TypeOK DeliveredOnce LossBounded
PROPERTIES OwnershipRespected InRefinesChannel OutRefinesChannel
