\* DEL's answer: "User %s deleted."
SPECIFICATION AdminSpec
CONSTANTS
  NULL = NULL
  NoPort = NoPort
  host = host
  pw = pw
  Username = {1, 2, 3}
  Ip = {host}
  Password = {pw}
  Port = {}
  Address = {a1, a2, a3}
  FreshPort = {NoPort}
  Registration <- MCRegistration
INVARIANTS
  DeletedMeansGone
