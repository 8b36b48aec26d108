SPECIFICATION MCSpec
\* The clocks of the sleep and of the sonar stop at their bounds, and a packet
\* that was checked has come to its end.
CHECK_DEADLOCK FALSE
CONSTANTS
  srv = srv  cli = cli  engine = engine  app = app
  Task = {engine, app}
  Listener = {srv, cli}
  Port = {1, 2}
  TaskOf <- MCTaskOf
  PortOf <- MCPortOf
  Clients = {cli}
  Peer = {r1, r2}
  Nobody = Nobody  Null = Null
  Conns = 2
  NoPort = NoPort  AnyPort = AnyPort
  Late = FALSE
  Period = 3
  Horizon = 10
  Bits = 4
  FamilyBits = 2
  Address <- MCAddress
  d1 = d1  d2 = d2  d3 = d3
  Order <- MCOrder
  S20 = {d2}
  Parasitic = {d3}
  AutoSave = TRUE
  Temperatures <- MCTemperatures
  Limits <- MCLimits
  UserData <- MCUserData
  Lines <- MCLines
  EchoTimes = {2, 3}
  SensorDelay = 1
  MedianDelay = 4
  Iterations = {1, 3}
  End = 14
  Base = 4
  MaxPayload = 3
  Echo = 2
INVARIANTS ConnsAccountedFor AnswersReachTheAsker WokenFindsMessage
  SearchFindsEach ReadingIsTrue SumsAgree
PROPERTIES ImplementsConversation SenderIsFreed
  ClockGoesForward AwaitsConversion SettingsSurvive EchoIsTrue MedianIsMedian
