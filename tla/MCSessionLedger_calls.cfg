SPECIFICATION Spec
CONSTANTS
  Calls = {role, read}
  Shots = {}
  Reads = {read}
  Attempts = 1
  HasFallback = TRUE
  MaxKills = 1
INVARIANTS
  OwnEntry
  EverySessionLedgered
PROPERTIES
  ImplementsBook
