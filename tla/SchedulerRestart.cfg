SPECIFICATION Spec
CONSTANTS
  d1 = d1  d2 = d2  site1 = site1  site2 = site2  w1 = w1  w2 = w2
  Devices = {d1}
  VirtualDevices = {}
  Classes = {"performance"}
  Scopes = {site1}
  DeviceConfigs <- ToggledDevice
  EssentialWorkers = 1
  ClassBudget <- BudgetOne
  ScopeLimit <- LimitOne
  TaskBuffer = 2
  RedueBuffer = 1
  Workers = {w1, w2}
  ClockSkew = {FALSE}
  MaxRuns = 2
  MaxChanges = 1
  NoTask = NoTask
SYMMETRY WorkerSymmetry
INVARIANTS
  OneTaskPerKey
  CountersExact
CHECK_DEADLOCK FALSE
