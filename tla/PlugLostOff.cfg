CONSTANTS
  Addresses = {a1, a2}
  Gone = gone
  RetryMax = 2
  MaxFaults = 2
  MaxMoves = 1
SPECIFICATION Spec
PROPERTIES NoCutIsForgotten
