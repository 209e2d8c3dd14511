SPECIFICATION Spec
CONSTANTS
  Conn = {c1}
  MaxRetries = 2
  Timeout = 3
  MaxWait = 4
INVARIANTS ResolvingHasRequest EventsInOrder
PROPERTIES LookupSettles ConnectTimeout
CHECK_DEADLOCK FALSE
