\* Two setter threads against two statfs workers, in a Debug build, under weak fairness.
SPECIFICATION FairSpec
CONSTANTS
  MegaByte = 4
  BlockSize = 3
  IntMax = 31
  Callers = {c1, c2}
  Workers = {w1, w2}
  NoOne = NoOne
  RealStats <- MCRealStats
  Errnos = {5}
  Requests <- MCRequests
  AssertsOn = TRUE
  GetsReal = TRUE
INVARIANTS IInv CacheCoherent FreeFits NoStaleBuffer
PROPERTIES Implements Answered
CHECK_DEADLOCK FALSE
