SPECIFICATION Spec
CONSTANTS
  Items = {i1, i2}
  Processors = {p1, p2}
  BatchSize = 1
  Requests = {"pause", "resume", "cancel"}
  DBFails = TRUE
  Stalls = TRUE
  FastRestart = TRUE
  MaxCrashes = 1
  MaxJobs = 2
  NoOwner = NoOwner
  NoJob = NoJob
  i1 = i1
  i2 = i2
  p1 = p1
  p2 = p2
SYMMETRY ItemSymmetry
INVARIANTS TypeOK LiveJobsAttached BackupsReported
PROPERTIES TerminalIsFinal
CHECK_DEADLOCK FALSE
