CONSTANTS
  NULL = NULL
  Pads = {p1, p2, p3}
  Values <- MCValues
  TagLists <- MCTagLists
  MaxPosts = 4

SPECIFICATION Spec
CHECK_DEADLOCK FALSE
INVARIANTS
  LastListWins
  AnsweredAtEnd
  AbortNeedsRace
PROPERTIES
  Answered
