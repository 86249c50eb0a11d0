SPECIFICATION FairSpec
CONSTANTS
  NSessions = 2
  GlobalDownload = 5
  Profiles <- Users
INVARIANTS
  SharesFit
PROPERTIES
  ShareReturns
