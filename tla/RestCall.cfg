\* The client's four attempts, every method, every loss and every delay.
SPECIFICATION FairSpec
CONSTANT MaxAttempts = 4
INVARIANTS
  PostAtMostOnce
  UsesEveryAttempt
PROPERTIES
  Returns
  ImplementsContract
\* Once do() has returned and the last copy is gone, nothing is left to do.
CHECK_DEADLOCK FALSE
