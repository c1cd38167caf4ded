\* Five runs in pages of two, of which the walk reads two: an arrival between the
\* pages shifts the second one, and a run may be beyond it.
SPECIFICATION Spec
CONSTANTS
  MaxRuns = 5
  MaxStarts = 2
  MaxUnlisted = 2
  PageSize = 2
  MaxPages = 2
  NullConfig = FALSE
  Functions = {"list", "flight"}
INVARIANTS
  WalkFindsListed
PROPERTIES
  SecondRunJustified
  TaintIsNews
  CleanEndings
