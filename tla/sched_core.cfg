SPECIFICATION FairSpec
CONSTANTS
  p1 = p1  p2 = p2  n1 = n1  n2 = n2
  Null = Null
  Task = {p1, n1, n2}
  Preem = {p1}
  SysStart <- MCSysStart
  AutoStart <- MCAutoStart
  NetTask = {n1}
  Data = {n2}
  SelfPost = FALSE
INVARIANTS QueueShape
PROPERTIES PreemRuns NormalRuns ImplementsReadyQueue
