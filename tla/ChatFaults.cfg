\* One client and the server, with a fault of the network and a restart of the server.
SPECIFICATION ChatSpec
CONSTANTS
  NULL = NULL
  NoPort = NoPort
  BadArgs = BadArgs
  Garbage = Garbage
  None = None
  Deaf = Deaf
  server = server
  hostA = hostA
  hostB = hostB
  pw = pw
  a1 = a1
  a2 = a2
  c1 = c1
  c2 = c2
  g1 = g1
  g2 = g2
  Username = {1}
  Ip = {hostA}
  Password = {pw}
  Port = {513, 258}
  Address = {a1}
  Registered <- MCOneUser
  Group = {g1}
  max_groups = 1
  Operation <- MCOperation
  Process = {c1}
  host <- MCOneHost
  Endpoint <- MCEndpoint
  Ephemeral <- MCOnePort
  htons <- MCHtons
  Typed <- MCTypedAlone
  Room = 1
  MaxFaults = 1
  MaxCrashes = 1
INVARIANTS
  ChatTypeOK
  AnswersFit
  ServerKept
  
PROPERTIES
  WaitsOnlyIfLost
