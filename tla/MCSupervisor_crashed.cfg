SPECIFICATION FairSpec
CONSTANTS
  Switches <- MCSwitches
  Valued <- MCValued
  Values <- MCValues
  Base <- MCBase
  Bundles <- MCBundles
  Explicit <- MCExplicit
  Keys <- MCKeys
  Handlers = {"h2"}
  KeyOf <- MCKeyOf
  CheapKey = "deepseek"
  Needs <- MCNeeds
  Commands <- MCCommands
  Caps = {"9"}
  Walls = {"6"}
  File = "file"
  MaxAttempts = 2
PROPERTY
  AnyExitIsResumed
