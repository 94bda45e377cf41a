SPECIFICATION Spec
CONSTANTS
  Calls = {shot}
  Shots = {shot}
  Reads = {}
  Attempts = 2
  HasFallback = TRUE
  MaxKills = 0
INVARIANTS
  FallbackIsEarned
  SessionsBounded
