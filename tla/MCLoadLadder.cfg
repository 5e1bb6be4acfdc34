SPECIFICATION FairSpec
CONSTANTS
  Plans <- TwoLadders
  WaitSeconds = 2
  MinSamples = 20
  MaxErrorRate = 1
  MaxP95 = 1000
  FastMs = 900
  SlowMs = 1010
  Jtls <- Results
  Metrics <- TheMetrics
  Limit <- Limits
  Rows <- ResourceRows
  MaxFaults = 2
INVARIANTS
  MonitorEndsWithStage
PROPERTIES
  LoadRisesOnPass
  BuildEnds
CHECK_DEADLOCK FALSE
