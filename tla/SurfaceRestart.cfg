SPECIFICATION Spec
CONSTANT
  Configs <- AlignedConfigs
INVARIANTS EveryOutput SameOutputs NeverFails EndIsSaved
CHECK_DEADLOCK FALSE
