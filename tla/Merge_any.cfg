SPECIFICATION Spec
CONSTANTS
  Zero <- MCZero
  StreamLen = 4
  MaxSegment = 3
  MaxMerges = 2
INVARIANTS MergeKeepsAll MergeFillsGaps MergeTruncates
