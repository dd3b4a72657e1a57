SPECIFICATION FairSpec
CONSTANTS
  MaxRuns = 2
  MaxFaults = 2
  None = None
INVARIANTS TypeOK SuccessMeansComplete CodeIsOfThisRun AnswersUnlessDockerFails TaskUnderLimits
PROPERTIES TimedRunsEnd
CHECK_DEADLOCK FALSE
