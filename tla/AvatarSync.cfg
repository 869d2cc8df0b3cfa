\* Two players that come, move and go, in four steps, or three with two slices.
CONSTANTS
  Peer = {1, 2}
  None = None
  SeqSpace = 4
  Mover = {1}
  MaxSlices = {1, 2}
  MaxEvents = 5
SPECIFICATION FairSpec
INVARIANTS AvatarTypeOK NoneMuted
PROPERTIES NoStepBack LatestReaches
CHECK_DEADLOCK FALSE
