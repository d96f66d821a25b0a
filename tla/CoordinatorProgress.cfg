SPECIFICATION FairSpec
CONSTANTS
  e1 = e1
  Executions <- OneExecution
  Vocabulary <- ShortAnswer
  MaxEvents = 2
  MaxFaults = 1
PROPERTIES EveryExecutionEnds CompletedIsTold CancellationIsSent StreamDrains
CHECK_DEADLOCK FALSE
