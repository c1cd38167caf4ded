\* A database may go away while a destroy runs.
SPECIFICATION Spec
CONSTANTS
  MaxSnaps = 1
  Names = {a}
  Foreign = other
  NoName = none
  Natives = {own, native}
  Own = own
  None = nodb
INVARIANTS
  OrphansAreTold
