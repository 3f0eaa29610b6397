SPECIFICATION Spec
CONSTANTS
  Zero <- MCZero
  StreamLen = 4
  SeqSpace = 16
  ISNs = {0, 13}
  Versions = {1}
  MaxSegment = 3
  MaxPulled = 7
INVARIANTS TypeOK TotalBufferedExact HeldInPlace FlushLosesNothing
