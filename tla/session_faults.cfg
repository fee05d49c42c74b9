SPECIFICATION FairSpec
CONSTANTS
  a1 = a1
  a2 = a2
  a3 = a3
  Uids = {1}
  Halls = {h1}
  Attempts = {a1, a2}
  UidOf <- TwoTries
  None = None
  MaxBreaks = 1
  MaxHallRestarts = 1
  MaxLoginRestarts = 1
INVARIANTS TypeOK LoginMutex HallTablesAgree NoDeadAgent
PROPERTIES LoginAnswered SessionsRelearned
