CONSTANTS
  NULL = NULL
  Clients = {c1, c2}
  Commands = {"PLAY", "TAGS"}
  c1 = c1  c2 = c2
  Wishes <- MCWishes
  song = song
  p1 = p1  p2 = p2
  Uris <- MCUris
  Addrs <- MCAddrs
  Streams <- MCStreams
  Hash <- MCHash
  IdModulus = 2
  Params = {3}
  MaxPlays = 2
  MaxClock = 0

SPECIFICATION MCSpec
CHECK_DEADLOCK FALSE
INVARIANTS
  DaemonInv
PROPERTIES
  JukeboxSpec
