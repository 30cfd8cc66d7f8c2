CONSTANTS
  d1 = d1
  d2 = d2
  Devices = {d1, d2}
  MailboxCap = 3
  WireCap = 1
  ControlCap = 1
  JournalCap = 1
  MaxChanges = 2
  MaxTopology = 1
  MaxBootstraps = 1
  MaxLosses = 1
SPECIFICATION Spec
SYMMETRY DeviceSymmetry
INVARIANTS TypeOK ShownIsPublished NoSilentGap  AcknowledgedWasShown
CHECK_DEADLOCK FALSE
