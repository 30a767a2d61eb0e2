SPECIFICATION FairSpec
CONSTANTS
  Shell = {s1, s2}
  Pid = {p1}
  NoPid = NoPid
  MaxRuns = 2
INVARIANTS  EntriesAreLive
PROPERTIES CallReturns StaleIsReaped
