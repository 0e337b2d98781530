SPECIFICATION Spec
CONSTANTS
  MinDepth = 2
  Pore = 3
  EffSat = 2
  TopFlux = TRUE
  EvapBulk = FALSE
  Sync = FALSE
  MaxEta = 4
  MaxSubsteps = 2
  Laterals <- FewLaterals
  Discharges <- NoDischarge
  Rains <- FewRains
  Evaps <- FewEvaps
  TopValues <- MCTopValues
  Darcys <- FewDarcys
  Excesses <- FewExcesses
  Internals <- OneInternal
INVARIANTS
  TypeOK
  Closure
  GainLedger
  DiscardBound
  HeldBounded
