SPECIFICATION FairSpec
CONSTANTS
  Questions <- MCQuestions
  Pages <- MCPages
  BadLinks <- MCBadLinks
  Domain <- MCDomain
  Blocked <- MCBlocked
  Authority <- MCAuthority
  LowValue <- MCLowValue
  Overlap <- MCOverlap
  DomainCap <- MCDomainCap
  PerQuery = 2
  MaxReads = 3
  Title <- MCTitle
  Searches <- MCSearches
  Relevances <- MCRelevances
  MaxBlocks = 2
  MaxCycles = 2
  MaxKills = 1
INVARIANTS
  FindingsAreRead
  SelectionIsBroad
  StreakCountsCycles
PROPERTIES
  IdsAreAgreed
  BatchEnds
