\* Two users, two nodes, one of each mortal, up to two inputs each.
SPECIFICATION FairSpec
CONSTANTS
  n1 = n1
  n2 = n2
  Node = {n1, n2}
  u1 = u1
  u2 = u2
  User = {u1, u2}
  Mortal = {n1, u1}
  NoUser = NoUser
  NoWork = NoWork
  Workloads <- MCWorkloads
  MaxSent = 2
  Capacity = 1
  Modulus = 128
INVARIANTS TypeOK SizesSurvive NothingOutstanding
PROPERTIES ImplementsService TestEnds LoopsEndTogether ServerStops
\* The server ends with its first session.
CHECK_DEADLOCK FALSE
