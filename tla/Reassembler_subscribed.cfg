SPECIFICATION SubscribedSpec
CONSTANTS
  Zero <- MCZero
  Flows <- ThreeConns
  StreamLen = 2
  max_connections = 2
  max_buffer_per_dir = 2
  output_mode = "separate"
  fill_gaps = FALSE
  MaxCallbacks = 1
  MayRaise = FALSE
INVARIANTS SubscriberGetsPrefix GivenOrHeld ClosedMeansDelivered
PROPERTIES EvictionOrder
