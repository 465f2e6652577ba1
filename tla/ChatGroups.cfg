\* Two clients and the server: multicast groups.
SPECIFICATION ChatSpec
CONSTANTS
  NULL = NULL
  NoPort = NoPort
  BadArgs = BadArgs
  Garbage = Garbage
  None = None
  Deaf = Deaf
  server = server
  hostA = hostA
  hostB = hostB
  pw = pw
  a1 = a1
  a2 = a2
  c1 = c1
  c2 = c2
  g1 = g1
  g2 = g2
  Username = {1, 2}
  Ip = {hostA, hostB}
  Password = {pw}
  Port = {513, 258}
  Address = {a1, a2}
  Registered <- MCTwoUsers
  Group = {g1, g2}
  max_groups = 2
  Operation <- MCOperation
  Process = {c1, c2}
  host <- MCTwoHosts
  Endpoint <- MCEndpoint
  Ephemeral <- MCOnePort
  htons <- MCHtons
  Typed <- MCTypedGroups
  Room = 1
  MaxFaults = 0
  MaxCrashes = 0
VIEW MCGroupView
INVARIANTS
  LabelMatches
  GroupMessagesStay
