SPECIFICATION Spec
CONSTANTS
  Kinds = {"get", "file"}
  MaxMessages = 2
  MaxDispatched = 3
  MaxRequest = 3
PROPERTY WaitingAreServed
CHECK_DEADLOCK FALSE
