SPECIFICATION Spec
CONSTANTS
  w1 = w1 w2 = w2 a1 = a1 a2 = a2
  Workers <- MCWorkers
  Attempts <- MCOneAttempt
  Script <- MCOneChunkScript
  MaxCopies = 1
  MaxFaults = 2
  LeaseMayLapse = TRUE
CHECK_DEADLOCK FALSE
INVARIANT AcknowledgedAfterTerminal
