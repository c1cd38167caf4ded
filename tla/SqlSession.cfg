\* Three goroutines, a droppable boot database, one transport fault, and a
\* second client that drops databases.
SPECIFICATION Spec
CONSTANTS
  Ops = {o1, o2, o3}
  Databases = {d1, d2}
  Memory = memory
  BootDb = d1
  None = None
  AttachMode = FALSE
  MaxFaults = 1
  ExternalDrops = TRUE
SYMMETRY OpSymmetry
INVARIANTS
  OneAdmitted
  UseConfined
  BootInOrder
PROPERTIES
  ScopeRestores
  ImplementsSerial
