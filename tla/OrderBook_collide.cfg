SPECIFICATION Spec
CONSTANTS
  k1 = k1
  k2 = k2
  k3 = k3
  Keys = {k1, k2, k3}
  Prices = {1, 2}
  Quantities = {1}
  QtyModulus = 2
  Null = Null
  Orders <- Order
  NoOrder <- ZeroOrder
  Capacity = 3
  Hash <- CollidingHash
VIEW StoredOnly
SYMMETRY IdSymmetry
CONSTRAINT BidsOnly
INVARIANT
  NoEmptyLevel

