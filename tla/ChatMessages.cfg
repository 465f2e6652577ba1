\* Two clients and the server: requests and replies, messages by way of the server and directly.
SPECIFICATION ChatSpec
CONSTANTS
  NULL = NULL
  NoPort = NoPort
  BadArgs = BadArgs
  Garbage = Garbage
  None = None
  Deaf = Deaf
  server = server
  hostA = hostA
  hostB = hostB
  pw = pw
  a1 = a1
  a2 = a2
  c1 = c1
  c2 = c2
  g1 = g1
  g2 = g2
  Username = {1, 2}
  Ip = {hostA, hostB}
  Password = {pw}
  Port = {513, 258}
  Address = {a1, a2}
  Registered <- MCTwoUsers
  Group = {}
  max_groups = 0
  Operation <- MCOperation
  Process = {c1, c2}
  host <- MCTwoHosts
  Endpoint <- MCEndpoint
  Ephemeral <- MCSwapped
  htons <- MCHtons
  Typed <- MCTypedMessages
  Room = 1
  MaxFaults = 0
  MaxCrashes = 0
VIEW MCMessageView
INVARIANTS
  AnswersFit
  NoLeftovers
  ServerKept
  MessagesAimRight
