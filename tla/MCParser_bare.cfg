CONSTANTS
  NULL = NULL
  Capitals <- Alphabet
  Plugins <- PlaydPlugins
  Registers <- PlaydRegisters
  Refuses = {}
  Fragile = {"Playback"}
  Messages <- PlaydMessages

SPECIFICATION Spec
CHECK_DEADLOCK FALSE
INVARIANTS
  BareCommandHandled
