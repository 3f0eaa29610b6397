SPECIFICATION Spec
CONSTANTS
  Walks <- MCStep
  Promise <- MCPromise
  Sizes <- MCSizes
INVARIANTS TypeOK OnlyDeclared BytesMatchLen KeepsPromise Aligned
PROPERTIES Terminates
CHECK_DEADLOCK FALSE
