SPECIFICATION Spec
CONSTANTS
  StartingPort = 65533
  MaxServers = 2
  PortLimit = 65535
  Client = {c1}
  Program = {g1}
INVARIANTS
  TypeOK
  NeverTerminates
  NoThreadOutlivesApp
  NoDanglingOptions
  OwnDocumentRoot
  RegularEndReleases
PROPERTIES
  ExitCompletes
  ImplementsPool
CHECK_DEADLOCK FALSE
