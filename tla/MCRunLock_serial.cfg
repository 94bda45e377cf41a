SPECIFICATION FairSpec
CONSTANTS
  Procs = {p1, p2, p3}
  NoProc = NoProc
  LastCycle = 2
  MaxBreaks = 3
  MaxForced = 1
  OneAtATime = TRUE
INVARIANTS
  MutualExclusion
  HolderWorks
PROPERTIES
  EventuallyFinished
