SPECIFICATION Spec
CONSTANT
  Configs <- UnalignedIntervals
INVARIANT RestartHasOutputs
CHECK_DEADLOCK FALSE
