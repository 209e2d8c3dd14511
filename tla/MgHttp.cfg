SPECIFICATION SafeSpec
CONSTANTS
  Kinds = {"get", "post", "open", "negative", "chunked", "bad", "long", "file", "cgi"}
  MaxMessages = 3
  MaxDispatched = 4
  MaxRequest = 3
INVARIANTS PromptDispatch OrderKept WholeByRecv
CHECK_DEADLOCK FALSE
