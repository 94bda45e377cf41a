SPECIFICATION FairSpec
CONSTANTS
  ParallelQuestions = 2
  RetireBlockedAfter = 2
  MaxQuestions = 2
  MaxCycles = 3
  StallCycles = 1
  MaxReadOutageCycles = 2
  MaxFinalEvaluations = 1
  FinalGate = TRUE
  WavesEnabled = TRUE
  DepthFindings = 1
  Limits = {}
  MaxSeeds = 1
  MaxNew = 1
  MaxStops = 1
  MaxReopens = 1
INVARIANTS
  DeepenedOnce
  CapHolds
PROPERTIES
  ResolvedStays
  EventuallyFinished
  ImplementsLifecycle
