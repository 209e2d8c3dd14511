SPECIFICATION SafeSpec
CONSTANTS
  Kinds = {"chunked"}
  MaxMessages = 1
  MaxDispatched = 2
  MaxRequest = 3
INVARIANT ChunkedIsDispatched
CHECK_DEADLOCK FALSE
