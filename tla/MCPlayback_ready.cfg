CONSTANTS
  NULL = NULL
  song = song  film = film
  p1 = p1  p2 = p2
  Uris <- MCUris
  Addrs <- MCAddrs
  Streams <- MCStreams
  Hash <- Colliding
  IdModulus = 2
  Params <- ShortParams
  MaxPlays = 2
  MaxClock = 0

SPECIFICATION Spec
CHECK_DEADLOCK FALSE
INVARIANTS
  StoppedBeforeUnlink
