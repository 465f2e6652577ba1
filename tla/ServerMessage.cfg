\* Both threads of the server on one user table, with crashes: where a message goes.
SPECIFICATION ServerSpec
CONSTANTS
  NULL = NULL
  NoPort = NoPort
  BadArgs = BadArgs
  Garbage = Garbage
  host = host
  pw = pw
  Username = {1, 2}
  Ip = {host}
  Password = {pw}
  Port = {p1, p2}
  Address = {a1, a2, a3}
  FreshPort = {NoPort}
  Registration <- MCRegistration
  Group = {}
  max_groups = 0
  Operation <- MCOperation
SYMMETRY MCSymmetry
VIEW MCViewMessage
INVARIANTS
  MessageGoesToUser
