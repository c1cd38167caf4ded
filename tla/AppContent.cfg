\* One object and what replaces it, one passing failure and one outside event.
SPECIFICATION FairSpec
CONSTANTS
  MaxIds = 3
  Kinds = {"dive", "guide", "flight"}
  None = none
  Unborn = unborn
  Gone = gone
  Descs = {d}
  Texts = {t, u}
  Notes = {n}
  First = t
  Plain = plain
  Wide = wide
  MaxFaults = 1
  MaxEdits = 1
  MaxOutside = 1
INVARIANTS
  RepeatsExcused
PROPERTIES
  ImplementsManaged
  AppliedOrTold
  ReadNeverReplaced
  NoSilentMigration
  Converges
CHECK_DEADLOCK FALSE
