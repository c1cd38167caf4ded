\* A queued call sees its deadline though the admitted statement may hang; when
\* none hangs, every call is served.
SPECIFICATION HungSpec
CONSTANTS
  Ops = {o1, o2}
  Databases = {d1}
  Memory = memory
  BootDb = d1
  None = None
  AttachMode = TRUE
  MaxFaults = 1
  ExternalDrops = FALSE
PROPERTIES
  Served
  QueuedObservesDeadline
