\* Both threads of the server on one user table, with crashes: progress.
SPECIFICATION ServerSpec
CONSTANTS
  NULL = NULL
  NoPort = NoPort
  BadArgs = BadArgs
  Garbage = Garbage
  host = host
  pw = pw
  Username = {1, 2}
  Ip = {host}
  Password = {pw}
  Port = {p1}
  Address = {a1, a2}
  FreshPort = {NoPort}
  Registration <- MCRegistration
  Group = {}
  max_groups = 0
  Operation <- MCFewOperations
PROPERTIES
  LoadEnds
  CommandEnds
  RequestsEnd
