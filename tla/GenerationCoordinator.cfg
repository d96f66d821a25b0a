SPECIFICATION Spec
CONSTANTS
  e1 = e1
  Executions <- OneExecution
  Vocabulary <- AllEvents
  MaxEvents = 3
  MaxFaults = 1
INVARIANTS TypeOK OutputIsPrefix NothingLost ToldIsTrue MarkedIsSent
PROPERTIES LivesOnce
CHECK_DEADLOCK FALSE
