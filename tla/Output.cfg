CONSTANTS
  Cells = {"x"}
  Kinds = {"stdout", "stderr", "display", "input"}
  Silences = {FALSE, TRUE}
  MaxEvents = 3
  MaxLate = 1
  EventCapacity = 2
SPECIFICATION FairSpec
INVARIANTS
  PublishedInOrder
  OutputFirst

  
CHECK_DEADLOCK FALSE
