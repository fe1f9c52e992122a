SPECIFICATION HandlerSpec
CONSTANTS
  k1 = k1
  k2 = k2
  k3 = k3
  Keys = {k1, k2, k3}
  Announced = {k1, k2}
  Prices = {1, 2}
  Quantities = {1, 2}
  QtyModulus = 8
  Null = Null
  Orders <- Order
  NoOrder <- ZeroOrder
  Capacity = 2
  Hash <- DistinctHash
  MaxMessages = 6
PROPERTY
  EventsTell
