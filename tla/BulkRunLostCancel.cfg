SPECIFICATION FairSpec
CONSTANTS
  Items = {i1}
  Processors = {p1, p2}
  BatchSize = 1
  Requests = {"pause", "cancel"}
  DBFails = FALSE
  Stalls = FALSE
  FastRestart = FALSE
  MaxCrashes = 0
  MaxJobs = 1
  NoOwner = NoOwner
  NoJob = NoJob
  i1 = i1
  p1 = p1
  p2 = p2
PROPERTIES CancelSettles
CHECK_DEADLOCK FALSE
