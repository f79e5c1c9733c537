CONSTANTS
  Sessions = {"parent", "child", "hook"}
  MaxExecutions = 2
  MaxRequests = 2
  MaxForeign = 1
  MaxDepth = 2
SPECIFICATION FairSpec
INVARIANTS
  OwnInterrupt
  Reported
PROPERTIES
  Delivered
CHECK_DEADLOCK FALSE
