SPECIFICATION Spec
CONSTANTS
  N = 4
  Elements = {e1, e2}
  NoElement = NoElement
  MaxPushes = 6
INVARIANTS
  IInv
  NoDataRace
  Fifo
  RefusalsJustified
PROPERTIES
  ImplementsBoundedFifo
