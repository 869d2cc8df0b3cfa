\* Seven numbers of six: the last one is that of the first payload once more. A window
\* of two moves across the wrap.
CONSTANTS
  MaxSequence = 6
  WindowSize = 2
  Settled = 4
  MaxPayloads = 7
  Ours = {5, 7, 8, 11}
  Senders = 2
  RoundTrip = 2
  MaxPending = 2
  MaxPackets = 1
  MaxAcks = 1
SPECIFICATION FairSpec
INVARIANTS AcksTruthful NoneForgotten
PROPERTIES DeliversUp Settles
CHECK_DEADLOCK FALSE
