\* Six payloads over four sequence numbers and a window of two.
CONSTANTS
  MaxSequence = 4
  WindowSize = 2
  MaxPayloads = 6
  RoundTrip = 1
SPECIFICATION FairSpec
INVARIANT NoneLost
PROPERTIES DeliversDown Arrives
CHECK_DEADLOCK FALSE
