SPECIFICATION Spec
CONSTANTS
  Shell = {s1}
  Pid = {p1}
  NoPid = NoPid
  MaxRuns = 1
INVARIANT RunIsListed
