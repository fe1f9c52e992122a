SPECIFICATION PipelineSpec
CONSTANTS
  Keys = {1, 2, 3}
  Refs = {1, 2, 3}
  Announced = {1, 2, 3}
  Prices = {1}
  Quantities = {1, 2}
  QtyModulus = 8
  Null = Null
  Orders <- Order
  NoOrder <- ZeroOrder
  Capacity = 2
  Hash <- DistinctHash
  Terms <- OrderTerms
  MaxMessages = 12
  Packets <- NoNoise
  Noise <- NoNoise
  Lossless = TRUE
  FilterPort = 12300
  BurstSize = 2
  ArraySize = 256
  PoolSize = 4
  MaxCallbacks = 1
  MaxReceived = 2
  LiveCap = 1
  Batch = 2
  MaxFrames = 2
  Bits = 4
  NanosPerSecond = 3
  Cycles = {0}
  Hz = 2
INVARIANT FeedNeverOverflows
