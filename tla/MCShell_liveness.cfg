CONSTANTS
  Shapes <- LiveShapes
  MaxRequests = 3
  MaxControls = 1
  IncomingCapacity = 1
  ServicesWait = FALSE
  Faults = FALSE
SPECIFICATION FairSpec
PROPERTIES
  EveryRequestAnswered
  StopEnds
  ControlsApplied
CHECK_DEADLOCK FALSE
