SPECIFICATION Spec
CONSTANTS
  Columns <- ThreeColumns
  NZ = 1
  Top <- FlatTop
  Owner <- OneRank
  Saturated = 2
  EffSat = 1
  Heads <- MCHeads
  Retention <- MCRetention
  HeadOf <- MCHeadOf
  MaxTheta = 2
  Ponds <- DryOrWet
  TopKind <- ClosedTop
  MinDepth = 1
  Redistribute = TRUE
INVARIANT ClassifiedBefore
CHECK_DEADLOCK FALSE
