CONSTANTS
  TrialBoots = 3
  SeqMod = 8
  Builds = {"works", "crashes"}
  Console = {}
  MaxCuts = 2
  MaxFaults = 0
SPECIFICATION Spec
INVARIANTS GoesBackToAWorkingSlot
