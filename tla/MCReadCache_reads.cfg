SPECIFICATION FairSpec
CONSTANTS
  Calls = {c1, c2, c3}
  Urls = {u, v}
  Texts = {x, y}
  NoCall = NoCall
  NoUrl = NoUrl
  NoText = NoText
  MaxLoops = 1
INVARIANTS
  TableIsLive
  DigestedOnce
  DigestsAreBreadth
PROPERTIES
  CompletedStays
  EveryCallReturns
