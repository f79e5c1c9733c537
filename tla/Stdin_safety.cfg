CONSTANTS
  Clients = {"a", "b"}
  Askers = {"a"}
  Cells = {"x", "y"}
  MaxPrompts = 2
  MaxConnections = 2
  MaxReplies = 1
SPECIFICATION Spec
INVARIANTS
  NewestFound
  PendingInProgress
  OwnClient
PROPERTIES
  NamedFirst
CHECK_DEADLOCK FALSE
