\* The resource's snapshot and one more, of the resource or of somebody else.
SPECIFICATION Spec
CONSTANTS
  MaxSnaps = 2
  Names = {a, b}
  Foreign = other
  NoName = none
  Natives = {own, native}
  Own = own
  None = nodb
INVARIANTS
  NoSilentOrphan
PROPERTIES
  UnlistedIsAnnounced
  KeepsListed
