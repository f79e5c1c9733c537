CONSTANTS
  Message = {"m", "n"}
  Subscribers = {"p", "q", "r"}
  Publishers = {"a", "b"}
  Capacity = 1
  MaxPublished = 3
SPECIFICATION FairSpec
PROPERTIES
  OneOrder
  AllSeen
  PublishReturns
CHECK_DEADLOCK FALSE
