SPECIFICATION SafeSpec
CONSTANTS
  Listener = Listener
  NoConn = NoConn
  Conn = {Listener, a, b, c}
  NumFds = 6
  SetSize = 3
  MaxSend = 1
  FileSize = 2
  MaxInput = 1
  MaxEvents = 5
INVARIANTS CursorsAlive LinksMutual ListenerOutlives FdOwned ReadinessIsOwn ExchangeComplete
PROPERTY ClosesFlushed
SYMMETRY BlockSymmetry
CHECK_DEADLOCK FALSE
