SPECIFICATION MCSpec
CONSTANTS
  CallID = {c1}
  Arguments = {a}
  NoCall = NoCall
  Budget = 1
  System = TRUE
  Grant = {0, 1}
  MaxMessages = 6
  MaxPending = 3
INVARIANTS ResultsAreOwed BudgetHeld
PROPERTIES HistoryGrows
