\* The commands of the clients, on a fixed user table.
SPECIFICATION MCSpec
CONSTANTS
  NULL = NULL
  NoPort = NoPort
  BadArgs = BadArgs
  Garbage = Garbage
  hostA = hostA
  hostB = hostB
  pw = pw
  wrong = wrong
  a1 = a1
  a2 = a2
  a3 = a3
  g1 = g1
  g2 = g2
  g3 = g3
  Username = {1, 2, 3, 4}
  Ip = {hostA, hostB}
  Password = {pw, wrong}
  Port = {p1, p2}
  Address = {a1, a2, a3}
  Group = {g1, g2, g3}
  max_groups = 2
  Operation <- MCOperation
SYMMETRY MCSymmetry
INVARIANTS
  ClientTypeOK
  AddressedToUser
  AnswerShape
  GroupsSound
