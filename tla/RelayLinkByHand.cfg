CONSTANTS
  MaxBackoff = 5
  Faults = 0
  Devices = {"byHand"}
  PcbMayFail = {FALSE}
SPECIFICATION FairSpec
PROPERTIES ByHandConnects
CHECK_DEADLOCK FALSE
