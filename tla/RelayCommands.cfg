CONSTANTS
  Ids = {i1, i2}
  NoId = none
  Asked = {"wake", "plug_scan", "status", "probe", "ota_offer", "plug_set", "plug_status"}
SPECIFICATION FairSpec
INVARIANTS AnswersFit NobodyIsForgotten QueuedPlugFindsItFree OrphansAreMute
PROPERTIES EveryCommandEnds
