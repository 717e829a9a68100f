CONSTANTS
  NULL = NULL
  Capitals <- Letters
  Plugins <- SmallPlugins
  Registers <- SmallRegisters
  Refuses = {"third"}
  Fragile = {"second"}
  Messages <- SmallMessages

SPECIFICATION Spec
CHECK_DEADLOCK FALSE
INVARIANTS
  NoDanglingContext
  UnloadedNewestFirst
  HandedToOwner
  IInv
