SPECIFICATION SafeSpec
CONSTANTS
  Listener = Listener
  NoConn = NoConn
  Conn = {Listener, a, b}
  NumFds = 5
  SetSize = 5
  MaxSend = 1
  FileSize = 1
  MaxInput = 1
  MaxEvents = 3
INVARIANT FreeReleasesAll
CHECK_DEADLOCK FALSE
