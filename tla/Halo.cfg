SPECIFICATION FairSpec
CONSTANTS
  Requests <- MCRequests
  Fields <- MCFields
  Calls <- MCCalls
INVARIANTS TypeOK LayoutSound IdsAreRows HaloCurrent
PROPERTY Completes
CHECK_DEADLOCK FALSE
