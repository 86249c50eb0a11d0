SPECIFICATION Spec
CONSTANTS
  c1 = c1
  c2 = c2
  Procs <- TwoProcs
  NSlots = 2
  Tries = 1
  Grace = 1
  UserOf <- OneUser
  IpOf <- TwoIps
  Admins <- NoProc
  Flagged <- NoProc
  LimitByUser = 0
  LimitByIP = 0
  Limit = 0
  Activity = {"IDLE", "GET"}
  NoName = NoName
  Mixed = Mixed
INVARIANTS
  StaleMeansDead
