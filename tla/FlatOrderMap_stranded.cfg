SPECIFICATION Spec
CONSTANTS
  k1 = k1
  k2 = k2
  k3 = k3
  k4 = k4
  o1 = o1
  o2 = o2
  Keys = {k1, k2, k3, k4}
  Orders = {o1, o2}
  NoOrder = NoOrder
  Null = Null
  Capacity = 4
  Hash <- CollidingHash
INVARIANT
  EntriesReachable
