SPECIFICATION FairSpec
CONSTANTS
  a1 = a1
  a2 = a2
  a3 = a3
  Uids = {1}
  Halls = {h1}
  Attempts = {a1}
  UidOf <- OneTry
  None = None
  MaxBreaks = 0
  MaxHallRestarts = 1
  MaxLoginRestarts = 0
PROPERTY HallRestartRecovered
