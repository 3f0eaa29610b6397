SPECIFICATION Spec
CONSTANTS
  Parsers = {"ftp", "smtp", "pop3", "imap"}
  MaxSymbols = 12
INVARIANTS CutFree NothingLost NumberedFramed PopFramed LiteralsWhole
CHECK_DEADLOCK FALSE
