SPECIFICATION FairSpec
CONSTANTS
  Second = 2
  MaxPacket = 2
  Upload = 2
  Download = 2
  UpShares = {0, 1}
  DnShares = {0}
  MaxIdle = 1
  MaxLife = 0
  CanAdmin = TRUE
  Room = 1
  MaxReply = 2
  Window = 2
CHECK_DEADLOCK FALSE
INVARIANTS
  TypeOK
  QuotaHeld
PROPERTIES
  TicksApart
  IdleMeansIdle
  StopEnds
  HangupEnds
  IdleEnds
  QuotaLifts
