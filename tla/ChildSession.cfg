CONSTANTS
  Callers = {"shell", "cell", "task"}
  MaxJobs = 5
  MaxExits = 1
SPECIFICATION FairSpec
INVARIANTS
  AnswersTrue
PROPERTIES
  CallsReturn
  CreationAnswered
  NothingLeft
CHECK_DEADLOCK FALSE
