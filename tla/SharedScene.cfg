\* Two players, two names, one of each other item, two tasks.
CONSTANTS
  p1 = p1
  p2 = p2
  k1 = k1
  k2 = k2
  Peer = {p1, p2}
  Task = {k1, k2}
  None = None
  Name = {n1, n2}
  Resource = {r1}
  Object = {o1}
  Sphere = {s1}
  LoadKind <- MCKinds
  IdSpace = 2
  MaxRequests = 3
  MaxJoins = 2
SPECIFICATION Spec
SYMMETRY Symmetry
INVARIANTS SceneTypeOK NamesDistinct ClientsAgree NoOrphans NoneWaitsForNobody EmptyWhenAlone
CHECK_DEADLOCK FALSE
