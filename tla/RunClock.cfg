SPECIFICATION FairSpec
CONSTANTS
  Second = 2
  Configs <- BothModes
INVARIANTS TypeOK LagBounded SameOutputs LabelsHonest NeverFails EndIsSaved
PROPERTY Terminates
CHECK_DEADLOCK FALSE
