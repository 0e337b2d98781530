SPECIFICATION Spec
CONSTANTS
  MinDepth = 2
  Pore = 3
  EffSat = 2
  TopFlux = FALSE
  EvapBulk = TRUE
  Sync = FALSE
  MaxEta = 4
  MaxSubsteps = 3
  Laterals <- FewLaterals
  Discharges <- NoDischarge
  Rains <- FewRains
  Evaps <- FewEvaps
  TopValues <- MCTopValues
  Darcys <- MCDarcys
  Excesses <- FewExcesses
  Internals <- OneInternal
INVARIANTS
  NoDiscard
  NoFilm
  NoBounce
PROPERTIES
  ImmediateSpec
