\* The long test: two managers, queues of two messages, two numbers a side.
SPECIFICATION FairSpec
CONSTANTS
  Burst = 2
  Capacity = 2
  WorkInterval = 1
  MaxId = 2
INVARIANTS
  IInv
  ErrorsExplained
  QueuesMapped
PROPERTIES
  UserEcho
  KernelEcho
  AnswersArrive
  RunEnds
