CONSTANTS
  Wrap = 16
  ArmMs = 3
  TriggerMs = 6
  Turns = {1, 2}
  Ages = 8
SPECIFICATION Spec
INVARIANTS OnlyTheStuckRestart TheStuckDoRestart ReportIsOfTheLastBoot
