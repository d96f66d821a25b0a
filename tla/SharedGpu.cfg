SPECIFICATION Spec
CONSTANTS
  w1 = w1 w2 = w2 a1 = a1 a2 = a2
  Workers <- MCWorkers
  Attempts <- MCTwoAttempts
  Script <- MCNoChunkScripts
  MaxCopies = 1
  MaxFaults = 1
  LeaseMayLapse = FALSE
CHECK_DEADLOCK FALSE
INVARIANT OneGenerationAtATime
