\* Pages of one user, so that every change shifts a boundary, and page tokens
\* that may go in circles.
SPECIFICATION FairSpec
CONSTANTS
  Ids <- MCIds
  Named <- MCNamed
  Services <- MCServices
  None = None
  PageSize = 1
  MaxCalls = 2
  StrayTokens = {1}
INVARIANTS
  HumansSpared
  CalmWalkIsExact
PROPERTIES
  ForgetsOnlyGone
  NoTakeover
  WalkEnds
\* With every ID used up and no request under way nothing need happen.
CHECK_DEADLOCK FALSE
