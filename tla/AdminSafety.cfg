\* The user table, its file, the admin thread and crashes: safety.
SPECIFICATION AdminSpec
CONSTANTS
  NULL = NULL
  NoPort = NoPort
  host = host
  pw = pw
  Username = {1, 2, 3, 4}
  Ip = {host}
  Password = {pw}
  Port = {}
  Address = {a1, a2, a3, a4, a5}
  FreshPort = {NoPort}
  Registration <- MCRegistration
SYMMETRY MCSymmetry
INVARIANTS
  AdminTypeOK
  LookupAgrees
  FileMatchesMemory
  OneRecordPerUser
  SortedFileLoadsAsList
PROPERTIES
  ImplementsUserDb
