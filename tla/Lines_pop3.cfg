SPECIFICATION Spec
CONSTANTS
  Parsers = {"pop3"}
  MaxSymbols = 12
INVARIANTS WholeReplies
CHECK_DEADLOCK FALSE
