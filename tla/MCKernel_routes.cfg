CONSTANTS
  Clients = {"a", "b"}
  Shapes <- RouteShapes
  ControlShapes <- RouteControls
  MaxRequests = 2
  MaxControls = 2
  MaxShells = 3
  Capacity = 1
  ServicesWait = FALSE
  Faults = FALSE
SPECIFICATION Spec
INVARIANTS
  NoOrphans
  RoutesLive
  KernelSurvives
  InterruptReachesSessions
CHECK_DEADLOCK FALSE
