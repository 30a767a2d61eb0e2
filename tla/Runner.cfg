SPECIFICATION Spec
CONSTANTS
  CallID = {c1}
  Arguments = {a}
  NoCall = NoCall
  Budget = 1
  System = FALSE
  Grant = {0, 1}
  Checkpointing = TRUE
  ReuseRunner = FALSE
  Orderly = TRUE
  MaxChunks = 3
  MaxGranted = 2
  MaxInputs = 2
INVARIANTS TypeOK ReadyForInput ToolsWithinBudget ErroredTurnFailsTheRun
PROPERTIES CheckpointsFormATree
