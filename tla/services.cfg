SPECIFICATION MCSpec
CONSTANTS
  t1 = t1  t2 = t2  t3 = t3
  Timer = {t1, t2, t3}
  Nil = Nil
  Period <- MCPeriod
  ClockMod = 8
  Horizon = 4
  Restart = FALSE
  Autostr = {a1, a2, a3, a4}
  Null = Null
  Redeclare = FALSE
  RxStop = 19
  Header = 4
  Lengths = {1, 2, 4}
  MaxBad = 1
  Sending = TRUE
  TX_COLLISION_RETRY_COUNT = 3
  Host = {router, near, far}
  Router = router
  Mac = {m1, m2}
  Slots = 2
  None = None
INVARIANTS TimerListShape AutoListShape DriverFollowsChip CommandMeetsRegister EntryIsLatest
PROPERTIES NoEarlyFire RoomReturns FarIsAnswered
