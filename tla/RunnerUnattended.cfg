SPECIFICATION FairSpec
CONSTANTS
  CallID = {c1, c2}
  Arguments = {a}
  NoCall = NoCall
  Budget = 2
  System = TRUE
  Grant = {0}
  Checkpointing = FALSE
  ReuseRunner = FALSE
  Orderly = TRUE
  MaxChunks = 3
  MaxGranted = 0
  MaxInputs = 1
INVARIANTS AnsweredTogether
PROPERTIES InputIsServed
