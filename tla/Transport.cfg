SPECIFICATION Spec
CONSTANTS
  NX <- MCNX
  NZ <- MCNZ
  Setups <- MCSetups
  Flows <- MCFlows
  Substeps <- MCSubsteps
  MinDepth = 1
  MaxSteps = 2
INVARIANTS
  Ledger
  Uniform
  WindowExplainsWater
PROPERTY RestartNeutral
CHECK_DEADLOCK FALSE
