SPECIFICATION FairSpec
CONSTANTS
  Requests <- MCRequests
  Header = 2
  Longest = 3
  Half = 5
  MaxPacket = 4
  Grow = 2
  Replies = {1}
  Rights = "simple"
  MaxRequests = 3
  MaxStray = 2
CHECK_DEADLOCK FALSE
INVARIANTS
  TypeOK
  Fits
  NothingWholeWaits
  AnswersInOrder
PROPERTIES
  ServedInOrder
  AllAnswered
