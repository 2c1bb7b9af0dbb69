\* Time and logins are bounded, and nobody need click: the system may stop.
CONSTANTS
  Users = {alice, bob}
  NoUser = NoUser
  Tabs = {t1}
  Slots = {1, 2}
  SessionTTL = 2
  MaxAbsoluteSessionTTL = 3
  MaxTime = 5
  MaxLogins = 2
  Disturbances = {"reload", "lost_reply"}
SPECIFICATION FairSpec
INVARIANTS
  TypeOK
  TokensAreBounded
  ForeignChangesOnlyAfterReload
PROPERTIES
  AcceptedInTime
  StaleReplyNeverSignsOut
  StatusSettles
CHECK_DEADLOCK FALSE
