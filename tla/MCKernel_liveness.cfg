CONSTANTS
  Clients = {"a"}
  Shapes <- LiveShapes
  ControlShapes <- LiveControls
  MaxRequests = 2
  MaxControls = 1
  MaxShells = 2
  Capacity = 1
  ServicesWait = FALSE
  Faults = TRUE
SPECIFICATION FairSpec
INVARIANTS
  Accounted
PROPERTIES
  ControlsServed
  
  
CHECK_DEADLOCK FALSE
