SPECIFICATION Spec
CONSTANTS
  k1 = k1
  k2 = k2
  k3 = k3
  Keys = {k1, k2, k3}
  Prices = {1}
  Quantities = {1}
  QtyModulus = 8
  Null = Null
  Orders <- Order
  NoOrder <- ZeroOrder
  Capacity = 4
  Hash <- CollidingHash
INVARIANT
  QtySumsOrders

