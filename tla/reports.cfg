\* A request of any kind with up to two files and a failure, two connections
\* over two ids whose timers end at the second iteration.
CONSTANTS
  MaxGroups = 2
  MaxFaults = 1
  Connections = {c1, c2}
  Ids = {"i1", "i2"}
  Limit = 1
  RequestId = "i1"
SPECIFICATION FairSpec
PROPERTIES KeepsPromise RequestAnswered StreamsEnd AnswerSent
CHECK_DEADLOCK FALSE
