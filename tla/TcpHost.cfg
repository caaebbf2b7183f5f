SPECIFICATION FairSpec
CONSTANTS
  Pids = {1, 2}
  Scenarios <- ScenariosDef
  Remotes = {"c1", "c2", "e", "s", "t", "d"}
  RemotePort <- RemotePortDef
  Servers = {"s", "t", "d"}
  Incoming <- IncomingDef
  Ephemeral = {91, 92}
  FreshStatus = {"LISTENING", "CLOSED"}
  MaxFd = 3
  BUFSIZE = 4
  MSS = 2
  PeerSizes = {1, 2}
  PeerBytes <- PeerBytesDef
INVARIANTS
  TypeOK
  AcceptDistinct
  NoAcceptMissed
  BacklogBound
  HandshakeAgreed
  CloseAgreed
  InSequence
  ReceivedInOrder
  NoOverrun
  ReaderHeld
  Contract
PROPERTIES
  ConnectReturns
  CloseReturns
  ReadReturns
\* A process may be blocked for ever.
CHECK_DEADLOCK FALSE
