CONSTANTS
  Clients = {"a", "b"}
  Askers = {"a"}
  Cells = {"x"}
  MaxPrompts = 2
  MaxConnections = 2
  MaxReplies = 1
SPECIFICATION FairSpec
PROPERTIES
  DisturbedInputEnds
  PeerNoticed
CHECK_DEADLOCK FALSE
