SPECIFICATION FairSpec
CONSTANTS
  c1 = c1
  c2 = c2
  Procs <- TwoProcs
  NSlots = 2
  Tries = 1
  Grace = 0
  UserOf <- OneUser
  IpOf <- TwoIps
  Admins <- OneAdmin
  Flagged <- TwoProcs
  LimitByUser = 0
  LimitByIP = 0
  Limit = 1
  Activity = {"IDLE"}
  NoName = NoName
  Mixed = Mixed
INVARIANTS
  TypeOK
  SharingExplained
  SessionsListed
  LimitsHold
PROPERTIES
  OrphansReclaimed
