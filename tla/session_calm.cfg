SPECIFICATION Spec
CONSTANTS
  a1 = a1
  a2 = a2
  a3 = a3
  Uids = {1}
  Halls = {h1, h2}
  Attempts = {a1, a2, a3}
  UidOf <- OneUser
  None = None
  MaxBreaks = 0
  MaxHallRestarts = 0
  MaxLoginRestarts = 0
INVARIANTS SessionKnown NoReentry
PROPERTIES KeepsPromise OwnLogoutOnly
