CONSTANTS
  Networks = {"home", "work"}
  Keys = {"key"}
  Relays = {"built-in", "own"}
  BuiltIn = "built-in"
  Addresses = {"owner"}
  Typed = {}
  Tokens = {"t1", "t2"}
  None = "none"
  Found <- MCFound
  SeqMod = 4
  MaxInputs = 4
  MaxFaults = 0
  MaxCuts = 0
SPECIFICATION Spec
PROPERTIES ErasedAddressStaysErased
CHECK_DEADLOCK FALSE
