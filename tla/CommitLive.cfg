\* The user need not click anything more, and ids are bounded: the system may stop.
CONSTANTS
  ssh = ssh
  psk = psk
  v = v
  none = none
  Paths <- MCPaths
  Values = {v}
  NoValue = none
  MaskedPaths <- MCMasked
  MaxEntries = 1
  UserOps <- MCOps
  ImportOp <- MCImport
  Windows = {w1, w2}
  NoWindow = NoWindow
  MaxRequests = 2
  Disturbances = {"late_keep", "lost_reply"}
SPECIFICATION FairSpec
PROPERTIES
  BusyEnds
  KeepIsWithdrawn
CHECK_DEADLOCK FALSE
