SPECIFICATION SubscribedSpec
CONSTANTS
  Zero <- MCZero
  Flows <- OneConn
  StreamLen = 4
  max_connections = 1
  max_buffer_per_dir = 2
  output_mode = "separate"
  fill_gaps = FALSE
  MaxCallbacks = 1
  MayRaise = FALSE
INVARIANTS MemoryBounded
