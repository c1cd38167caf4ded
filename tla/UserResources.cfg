\* Pages of one token and two names; one failed request, one edit or import
\* and two things that happen outside.
SPECIFICATION FairSpec
CONSTANTS
  None = None
  TokenNames = {a, b}
  FirstName = a
  MaxTokens = 2
  PageSize = 1
  Pulse = pulse
  BigSizes = {standard, jumbo}
  Default = default
  Chosen = chosen
  Unknown = Unknown
  MaxFaults = 1
  MaxEdits = 1
  MaxOutside = 2
INVARIANTS
  TokensAccounted
PROPERTIES
  AppliedAsAsked
  UnsetKeepsLive
  Converges
\* With nothing configured and nothing in the state nothing need happen.
CHECK_DEADLOCK FALSE
