CONSTANTS
    Absent = Absent
    Wrong = Wrong
    Automatic = Automatic
    Decimal = Decimal
    Missing = Missing
    Second = 2
    Chains <- MCChains
    DataFiles = {"data"}
    Packages = {}
    Attempts <- MCAttempts
SPECIFICATION Spec
INVARIANT RoundTrip
INVARIANT AcceptedIsComplete
INVARIANT RestoredWhole
INVARIANT RecordTruthful
INVARIANT SolverSound
CHECK_DEADLOCK FALSE
