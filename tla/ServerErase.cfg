SPECIFICATION Spec
CHECK_DEADLOCK FALSE
CONSTANTS
  u = u
  a = a
  b = b
  Procs <- AllProcs
  Admins <- AllAdmins
  Admins2 = {}
  Nodes <- AllNodes
  Segs <- AllSegs
  NKeys = 1
  NSlots = 2
  MaxOrders = 2
PROPERTIES
  JoinSpares
