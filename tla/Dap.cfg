CONSTANTS
  MaxRequests = 2
  Numbers = {0, 1, 2, 3}
  Width = 4
  Capacity = 1
SPECIFICATION FairSpec
INVARIANTS
  StillPending
  OwnResponse
PROPERTIES
  ClosedEndsCalls
CHECK_DEADLOCK FALSE
