CONSTANTS
  d1 = d1
  d2 = d2
  Devices = {d1}
  MailboxCap = 3
  WireCap = 1
  ControlCap = 1
  JournalCap = 1
  MaxChanges = 3
  MaxTopology = 1
  MaxBootstraps = 0
  MaxLosses = 1
SPECIFICATION FairSpec
PROPERTIES Converges 
CHECK_DEADLOCK FALSE
