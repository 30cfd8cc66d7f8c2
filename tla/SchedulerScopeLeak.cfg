SPECIFICATION Spec
CONSTANTS
  d1 = d1  d2 = d2  site1 = site1  site2 = site2  w1 = w1  w2 = w2
  Devices = {d1}
  VirtualDevices = {}
  Classes = {"performance"}
  Scopes = {site1, site2}
  DeviceConfigs <- MovingDevice
  EssentialWorkers = 1
  ClassBudget <- BudgetOne
  ScopeLimit <- LimitOne
  TaskBuffer = 2
  RedueBuffer = 1
  Workers = {w1}
  ClockSkew = {FALSE}
  MaxRuns = 1
  MaxChanges = 1
  NoTask = NoTask
CHECK_DEADLOCK FALSE
INVARIANT
  CountersReleased
