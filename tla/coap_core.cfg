SPECIFICATION FairSpec
CONSTANTS
  c1 = c1  c2 = c2
  Client = {c1, c2}
  Null = Null  None = None  Ack = Ack
  Tokens = 3  Life = 1
  Resource <- MCResource
  Uri <- MCUri
  Parent <- MCParent
  Gets = {"discover", "battery"}  Puts = {"limit"}
  Peer = {p, q}
  Nobody = Nobody
  Request <- MCRequest
  Worlds <- MCWorlds
INVARIANTS AnswerIsCurrent ServerHearsEveryone RightResource
PROPERTIES ImplementsExchange GetIsAnswered
CHECK_DEADLOCK FALSE
