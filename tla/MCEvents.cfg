CONSTANTS
  NULL = NULL
  one = one
  two = two
  ear = ear
  asker = asker
  Daemons <- MCDaemons
  Clients <- MCClients
  Ports <- MCPorts
  Asks <- MCAsks
  MaxPosts <- MCPosts
  Signalled = {two}
  HWM = 1
SPECIFICATION MCSpec
CHECK_DEADLOCK FALSE
INVARIANTS
  IInv
PROPERTIES
  FeedSpec
  DeafExplained
  NewsPublished
  EventsArrive
  WaitExplained
