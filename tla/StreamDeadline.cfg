CONSTANTS
  d1 = d1
  d2 = d2
  Devices = {d1}
  MailboxCap = 3
  WireCap = 1
  ControlCap = 1
  JournalCap = 1
  MaxChanges = 2
  MaxTopology = 0
  MaxBootstraps = 1
  MaxLosses = 0
SPECIFICATION FairSpec
PROPERTIES RecoveryEnds
CHECK_DEADLOCK FALSE
