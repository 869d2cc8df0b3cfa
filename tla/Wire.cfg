\* Every message with usual values and one field at a limit; every quality; up to five packets.
CONSTANTS
  Base = 64
  ChatMax = 9
  NameMax = 5
  MaxCut = 30
  BundleMax = 3
  RawMax = 30
  Batches <- BundleJobs
  Sizes = {1, 4}
  MaxPackets = 5
  MinMessages = {1, 3}
  MinBytes = {0, 20}
  Targets = {0, 20, 30, 99}
SPECIFICATION Spec
INVARIANTS RoundTrips PoseKept BundlesWhole
\* Every job ends.
CHECK_DEADLOCK FALSE
