SPECIFICATION AppSpec
CONSTANTS
  Zero <- MCZero
  Flows <- MCFlows
  ServiceOf <- MCServices
  Speakers = {1, 9}
  StreamLen = 1
  max_connections = 2
  max_buffer_per_dir = 1
  output_mode = "separate"
  fill_gaps = FALSE
  MaxCallbacks = 0
  MayRaise = FALSE
  MaxReports = 2
  MaxAsked = 2
PROPERTIES PullGetsReassembled
CHECK_DEADLOCK FALSE
