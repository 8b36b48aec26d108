SPECIFICATION FairSpec
CONSTANTS
  srv = srv  cli = cli
  Listener = {srv, cli}
  Servers = {srv}
  PortOf <- MCPortOf
  Ephemeral = {1025}
  Peer = {p, q}
  Null = Null
  Conns = 2  MaxRtx = 1  MaxSynRtx = 1  ListenPorts = 1
  Worlds <- MCWorlds
INVARIANTS NoTwins ConnectedUnlessReset EstablishedIsServed InFlightIsInBuffer
PROPERTIES HandshakesEnd
CHECK_DEADLOCK FALSE
