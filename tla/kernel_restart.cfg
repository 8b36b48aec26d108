SPECIFICATION KernelFairSpec
CONSTANTS
  srv = srv  app = app  tm1 = tm1  tm2 = tm2
  Null = Null
  Task = {srv, app}
  Preem = {}
  SysStart <- MCSysStart
  AutoStart <- MCAutoStart
  NetTask = {srv}
  Data = {app}
  SelfPost = FALSE
  Timer = {tm1}
  Period <- MCPeriod
  ClockMod = 8
  Horizon = 1
  Autostr = {}
  Restart = TRUE
  Owner <- MCOwner
  Board = "arduino"
PROPERTIES TimerExecReturns
