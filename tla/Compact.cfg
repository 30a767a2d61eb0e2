SPECIFICATION Spec
CONSTANTS
  a = a
  b = b
  c = c
  d = d
  NoId = NoId
  CallID <- MCCallID
  IdChars = 2
  NameChars = 1
  StubChars = 6
  NoteChars = 2
  ArgsStubChars = 5
  Sources <- MCSources
  Options <- MCOptions
  MaxRounds = 2
INVARIANTS OnlyReDerivable  UnfitIsExhausted 
CHECK_DEADLOCK FALSE
