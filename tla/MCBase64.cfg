CONSTANTS
  Sources <- MCSources
  Streams <- MCStreams
  BufferSize = 5

SPECIFICATION Spec
CHECK_DEADLOCK FALSE
INVARIANTS
  BuffersHold
  EncodedBits
  Unbroken
  DecodedBits
  ReadsBack
PROPERTIES
  EndsIfFed
