\* A config whose map has a null value.
SPECIFICATION Spec
CONSTANTS
  MaxRuns = 2
  MaxStarts = 2
  MaxUnlisted = 2
  PageSize = 1
  MaxPages = 1
  NullConfig = TRUE
  Functions = {"get", "flight"}
PROPERTIES
  TaintIsNews
