SPECIFICATION Spec
CONSTANTS
  k1 = k1
  k2 = k2
  k3 = k3
  Keys = {k1, k2, k3}
  Prices = {1, 2, 3}
  Quantities = {0, 1, 2}
  QtyModulus = 4
  Null = Null
  Orders <- Order
  NoOrder <- ZeroOrder
  Capacity = 4
  Hash <- DistinctHash
VIEW StoredOnly
INVARIANTS
  LevelsSorted
  ListsMatchOrders
  TopOfBook
  QtySumsToWidth
PROPERTIES
  ImplementsLimitOrderBook
