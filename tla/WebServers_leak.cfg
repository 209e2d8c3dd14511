SPECIFICATION SafeSpec
CONSTANTS
  StartingPort = 65533
  MaxServers = 3
  PortLimit = 65535
  Client = {c1}
  Program = {g1}
INVARIANT NothingLeaks
CHECK_DEADLOCK FALSE
