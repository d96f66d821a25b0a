SPECIFICATION Spec
CONSTANTS
  e1 = e1
  Executions <- OneExecution
  Vocabulary <- AllEvents
  MaxEvents = 3
  MaxFaults = 1
PROPERTIES BacklogBeforeExpiry
CHECK_DEADLOCK FALSE
