SPECIFICATION Spec
CONSTANTS
  ParallelQuestions = 1
  RetireBlockedAfter = 2
  MaxQuestions = 2
  MaxCycles = 8
  StallCycles = 2
  MaxReadOutageCycles = 2
  MaxFinalEvaluations = 1
  FinalGate = TRUE
  WavesEnabled = FALSE
  DepthFindings = 1
  Limits = {"budget"}
  MaxSeeds = 2
  MaxNew = 1
  MaxStops = 2
  MaxReopens = 0
INVARIANTS
  FinishedHasReport
  ConclusiveIsEarned
  AnswersAreWritten
  OrphansFitOneBatch
  GatesBoundedByStops
  ConvergesByItself
