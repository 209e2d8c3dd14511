SPECIFICATION Spec
CONSTANTS
  Byte = {"a", "b"}
  Garbage = "garbage"
  MaxPiece = 2
  MaxOps = 4
  MaxRoom = 2
  IoSize = 2
  Bits = 3
  MaxEntries = 2
  Char = {"a", ".", "/"}
  MaxPath = 7
  Letters = {"a", "$", "/"}
  MaxPattern = 4
  MaxText = 4
  Quarter = 3
  Dot = 2
  Hops = 2
  Sent = {0, 1, 2, 9}
  Sizes = {1, 2, 5}
  MaxMsg = 6
  Ssi = {"i"}
  Plain = {"j"}
  Letter = {"a"}
  Unset = {"0", "i"}
  MaxParts = 4
  BufSize = 11
  MaxLevel = 2
INVARIANTS MatchesWhatIsMeant PathIsResolved LastMatchWins NamesAreSpelled PageIsExpanded BufferHoldsAll
CHECK_DEADLOCK FALSE
