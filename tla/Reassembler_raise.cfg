SPECIFICATION Spec
CONSTANTS
  Zero <- MCZero
  Flows <- TwoConns
  StreamLen = 2
  max_connections = 2
  max_buffer_per_dir = 1
  output_mode = "separate"
  fill_gaps = FALSE
  MaxCallbacks = 2
  MayRaise = TRUE
INVARIANTS TypeOK NeverGivenAgain
