SPECIFICATION DeviceSpec
CONSTANTS
  MaxSlots = 2
  MaxConns = 3
  Visits <- MCVisits
  Networks <- MCNetworks
  MinBackoff = 2
  MaxBackoff = 3
  JoinTimeout = 1
  DhcpTimeout = 1
  AddrGrace = 2
  SntpTimeout = 2
  MaxPump = 1
  SetupFaults = 1
  MaxFaults = 2
INVARIANTS AnswersFit NetworkWasProven NothingStalls
PROPERTIES AttemptsSettle SlotsComeFree GraceIsWhole ErrorsPass SetUpIsJoined
CHECK_DEADLOCK FALSE
