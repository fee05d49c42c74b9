SPECIFICATION Spec
CONSTANTS
  u1 = u1
  u2 = u2
  s1 = s1
  s2 = s2
  r1 = r1
  r2 = r2
  r3 = r3
  r4 = r4
  None = None
  Users = {u1}
  Servers = {s1}
  Requests = {r1, r2}
  MaxAsks <- AnyAsks
  MaxRid = 1
  MaxRooms = 3
  MaxRestarts = 0
  MaxBreaks = 0
SYMMETRY Interchangeable
INVARIANTS DestroyedStaysGone
