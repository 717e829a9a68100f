CONSTANTS
  NULL = NULL
  song = song  film = film
  p1 = p1  p2 = p2
  Uris <- MCUris
  Addrs <- MCAddrs
  Streams <- MCStreams
  Hash <- Distinct
  IdModulus = 8
  Params <- MCParams
  MaxPlays = 2
  MaxClock = 1

SPECIFICATION FairSpec
CHECK_DEADLOCK FALSE
INVARIANTS
  IdSharedOnlyByReuse
PROPERTIES
  HandlerEnds
