CONSTANTS
  a1 = a1
  a2 = a2
  mover = mover
  client = client
  lister = lister
  Thread <- MCThread
  Work <- MCWork
  Start = 1
SPECIFICATION FairSpec
INVARIANTS TypeOK NothingLost
PROPERTIES ReadsCommitted AllEnd
