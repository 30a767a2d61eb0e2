SPECIFICATION Spec
CONSTANTS
  FileName = {"cwd", "work", "out", "a", "b", ".git", ".."}
  diffContext = 1
  maxDiffLines = 4
  Rel <- MCRel
  Spot <- MCSpot
  Goal <- MCGoal
  Content <- MCContent
  Ranges <- MCRanges
  maxRead = 1
  maxEntries = 2
  maxMatches = 2
  maxSearchHits = 2
  MaxLinks = 3
  MaxEdits = 2
CHECK_DEADLOCK FALSE
INVARIANTS Confined WrittenAsShown  DiffTellsTheChange
