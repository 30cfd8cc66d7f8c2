SPECIFICATION FairSpec
CONSTANTS
  Items = {i1, i2}
  Processors = {p1, p2}
  BatchSize = 2
  Requests = {"pause", "resume", "cancel"}
  DBFails = FALSE
  Stalls = FALSE
  FastRestart = FALSE
  MaxCrashes = 1
  MaxJobs = 3
  NoOwner = NoOwner
  NoJob = NoJob
  i1 = i1
  i2 = i2
  p1 = p1
  p2 = p2
INVARIANTS FinishedRunSettled PausedRunSettled
PROPERTIES RunSettles
CHECK_DEADLOCK FALSE
