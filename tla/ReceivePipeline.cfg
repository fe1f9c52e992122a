SPECIFICATION PipelineSpec
CONSTANTS
  Keys = {1, 2, 3}
  Refs = {1, 2}
  Announced = {1, 2}
  Prices = {1}
  Quantities = {1, 2}
  QtyModulus = 8
  Null = Null
  Orders <- Order
  NoOrder <- ZeroOrder
  Capacity = 2
  Hash <- DistinctHash
  Terms <- OrderTerms
  MaxMessages = 15
  Packets <- SomeNoise
  Noise <- SomeNoise
  Lossless = FALSE
  FilterPort = 12300
  BurstSize = 2
  ArraySize = 256
  PoolSize = 4
  MaxCallbacks = 2
  MaxReceived = 2
  LiveCap = 2
  Batch = 2
  MaxFrames = 2
  Bits = 4
  NanosPerSecond = 3
  Cycles = {0, 1, 5}
  Hz = 2
INVARIANTS
  PipelineTypeOK
  PollsOnlyReadyPort
  PoolOwned
  BuffersReturned
  CountersAgree
  HeadersReadRight
  EachBlockOnce
  BookReplaysLog
  MirrorMatchesBook
  LiveOrdersRest
  HistogramsDescribeSamples
  ExitReleases
PROPERTIES
  StopsOnSignal
