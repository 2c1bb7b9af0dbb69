\* The user need not click anything more, and ids are bounded: the system may stop.
CONSTANTS
  ssh = ssh
  psk = psk
  v = v
  none = none
  Paths <- MCPaths
  Values = {v}
  NoValue = none
  MaskedPaths <- MCMasked
  MaxEntries = 2
  UserOps <- MCOpsMasked
  ImportOp <- MCImport
  Windows = {w1, w2}
  NoWindow = NoWindow
  MaxRequests = 1
  Disturbances = {"power", "import", "mark_saved", "late_keep", "lost_reply", "sign_out", "reload"}
SYMMETRY MCSymmetry
SPECIFICATION Spec
INVARIANTS
  NoEditLost
  NeverPendingAndCommitted
  RecordedWasApplied
  BookkeepingInv
CHECK_DEADLOCK FALSE
