SPECIFICATION FairSpec
CONSTANTS
  Items = {i1}
  Processors = {p1, p2}
  BatchSize = 1
  Requests = {}
  DBFails = FALSE
  Stalls = FALSE
  FastRestart = TRUE
  MaxCrashes = 1
  MaxJobs = 2
  NoOwner = NoOwner
  NoJob = NoJob
  i1 = i1
  p1 = p1
  p2 = p2
PROPERTIES InterruptedRunResumes
CHECK_DEADLOCK FALSE
