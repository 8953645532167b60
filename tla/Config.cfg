CONSTANTS
  Networks = {"home", "work"}
  Keys = {"key"}
  Relays = {"built-in", "own"}
  BuiltIn = "built-in"
  Addresses = {"owner"}
  Typed = {"owner"}
  Tokens = {"t1", "t2"}
  None = "none"
  Found <- MCFound
  SeqMod = 4
  MaxInputs = 4
  MaxFaults = 2
  MaxCuts = 1
SPECIFICATION Spec
INVARIANTS RunsWhatItWouldBoot
PROPERTIES SaveIsAtomic ResetKeepsOnlyIdentity
CHECK_DEADLOCK FALSE
