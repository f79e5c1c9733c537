CONSTANTS
  Shapes <- QueueShapes
  MaxRequests = 3
  MaxControls = 1
  IncomingCapacity = 2
  ServicesWait = TRUE
  Faults = TRUE
SPECIFICATION Spec
INVARIANTS
  Accounted
  DropsOnlyHolds
  InOrder
  InterruptReachesAll
  StopOnError
  InterruptSparesLaterWork
  StopServesTheQueue
CHECK_DEADLOCK FALSE
