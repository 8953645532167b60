CONSTANTS
  MaxBackoff = 5
  Faults = 4
  Devices = {"fresh", "enrolled", "enrolledElsewhere", "byHand"}
  PcbMayFail = {TRUE, FALSE}
SPECIFICATION FairSpec
INVARIANTS SessionHasSocket AttemptsArePaid StoppedOnlyIfRevoked
PROPERTIES ComesBack
CHECK_DEADLOCK FALSE
