SPECIFICATION Spec
CONSTANTS
  Columns <- OneColumn
  NZ = 3
  Top <- FlatTop
  Owner <- OneRank
  Saturated = 2
  EffSat = 1
  Heads <- MCHeads
  Retention <- MCRetention
  HeadOf <- MCHeadOf
  MaxTheta = 4
  Ponds <- DryOrWet
  TopKind <- CoupledTop
  MinDepth = 1
  Redistribute = TRUE
INVARIANTS TypeOK RoomIsFree OutletOnlyWhenFull Accounted
CHECK_DEADLOCK FALSE
