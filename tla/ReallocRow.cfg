SPECIFICATION Spec
CONSTANTS
  Columns <- TwoColumns
  NZ = 2
  Top <- SteppedTop
  Owner <- TwoRanks
  Saturated = 2
  EffSat = 1
  Heads <- MCHeads
  Retention <- MCRetention
  HeadOf <- MCHeadOf
  MaxTheta = 3
  Ponds <- DryOrWet
  TopKind <- HeadOrClosed
  MinDepth = 1
  Redistribute = FALSE
INVARIANTS NothingClamped ContactIsKept
CHECK_DEADLOCK FALSE
