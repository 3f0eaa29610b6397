SPECIFICATION OrderlySpec
CONSTANTS
  Zero <- MCZero
  StreamLen = 5
  SeqSpace = 16
  ISNs = {0, 9}
  Versions = {1, 2}
  MaxSegment = 3
  MaxPulled = 5
INVARIANTS InOrder NothingLost CompleteIffAllSeen FlushAligned
PROPERTIES ImplementsByteStream
