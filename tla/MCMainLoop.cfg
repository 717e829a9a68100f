CONSTANTS
  NULL = NULL
  c1 = c1
  c2 = c2
  Clients = {c1, c2}
  Commands = {"JUNK", "PING", "QUIT", "PLAY", "TAGS"}
SPECIFICATION MCSpec
CHECK_DEADLOCK FALSE
INVARIANTS
  IInv
  LockStep
  DeafOnlyBriefly
PROPERTIES
  RequestsSpec
  QuitExits
  Served
  ReplyArrives
