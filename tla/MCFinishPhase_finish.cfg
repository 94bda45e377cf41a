SPECIFICATION FairSpec
CONSTANTS
  NumFindings = 3
  Shapes <- MCShapes
  Pages <- MCPages
  VerifyEnabled = TRUE
  MinConfidence = 1
  MinSources = 0
  RiskFirst = TRUE
  MaxFindings = 2
  MaxReads = 1
  Attempts = 2
  HasFallback = TRUE
  MaxStops = 1
INVARIANTS
  MarksAreEarned
  RiskiestFirst
  ReportIsCurrent
  DraftsBounded
PROPERTIES
  MarksAreFinal
  ImplementsLifecycle
  ReportedUnlessPoisoned
