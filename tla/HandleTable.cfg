SPECIFICATION Spec
CONSTANTS
  a = a
  b = b
  NSessions = 2
  NHandles = 2
  Nums = {1, 2, 3}
  NumsOf <- FewNums
  Paths <- OnePath
  Positions = {0, 1}
  PositionsOf <- FewPositions
  UserOf <- OneUser
  AccessOf <- FewAccesses
  Busy = {1}
  MaxOpen = 1
  MaxRead = 0
  MaxWrite = 0
  None = None
CHECK_DEADLOCK FALSE
INVARIANTS
  TypeOK
  NothingLeaked
  ShownIsLast
  UnseenIsOpening
PROPERTIES
  HandlesDesignate
