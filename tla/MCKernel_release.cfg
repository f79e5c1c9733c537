CONSTANTS
  Clients = {"a"}
  Shapes <- DeadlockShapes
  ControlShapes <- OnlyRelease
  MaxRequests = 2
  MaxControls = 2
  MaxShells = 2
  Capacity = 2
  ServicesWait = TRUE
  Faults = FALSE
SPECIFICATION FairSpec
PROPERTIES
  ControlsServed
CHECK_DEADLOCK FALSE
