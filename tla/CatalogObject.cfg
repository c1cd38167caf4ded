\* One failure, two edits or imports and two things outside Terraform.
SPECIFICATION FairSpec
CONSTANTS
  Kinds = {"schema", "table", "view", "secret", "share", "share_grant", "secure_view", "role", "role_grant", "database", "iceberg"}
  Words = {"w"}
  None = None
  First = First
  Alias = Alias
  Second = Second
  MaxFaults = 1
  MaxEdits = 2
  MaxOutside = 2
PROPERTIES
  ImplementsManaged
  DropsJustified
  NamesAgree
  AppliedOrTold
  Converges
\* With nothing configured and nothing in the state nothing need happen.
CHECK_DEADLOCK FALSE
