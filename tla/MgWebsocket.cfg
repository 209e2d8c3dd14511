SPECIFICATION Spec
CONSTANTS
  Frames <- FewFrames
  MaxFrames = 3
  MaxAnswers = 2
  Word = 64
INVARIANTS DeliversWhatIsThere BufferLayout PingsAnswered ClosesForReason
PROPERTY ClosingCloses
CHECK_DEADLOCK FALSE
