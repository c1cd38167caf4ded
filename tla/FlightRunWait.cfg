\* A run that may never end, next to another one on a page of two; statements
\* return and time passes.
SPECIFICATION FairSpec
CONSTANTS
  MaxRuns = 2
  MaxStarts = 2
  MaxUnlisted = 2
  PageSize = 2
  MaxPages = 1
  NullConfig = FALSE
  Functions = {"get", "list"}
INVARIANTS
  RecordsOwnRun
PROPERTIES
  WaitEnds
