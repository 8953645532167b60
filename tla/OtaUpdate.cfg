CONSTANTS
  TrialBoots = 3
  SeqMod = 8
  Builds = {"works", "crashes"}
  Console = {"FLASH_BENCH", "OTA_SELFTEST", "OTA_STAGE"}
  MaxCuts = 2
  MaxFaults = 2
SPECIFICATION FairSpec
INVARIANTS LoaderHasProvenImage TrialBudget NeverNeedsCable
PROPERTIES RecordNeverGoesBack KeepsPromise TrialEnds
