SPECIFICATION Spec
CONSTANTS
  t1 = t1  t2 = t2  t3 = t3
  Nil = Nil
  Timer = {t3}
  Period <- MCPeriod
  ClockMod = 4
  Horizon = 6
  Restart = FALSE
PROPERTIES NoEarlyFire
