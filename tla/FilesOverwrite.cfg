SPECIFICATION Spec
CONSTANTS
  a = a
  b = b
  o1 = o1
  o2 = o2
  rd = rd
  ex = ex
  Root = Root
  None = None
  Names <- TwoNames
  Objects <- TwoObjects
  Bits <- TwoBits
  Paths <- ThreePaths
  Denied <- HiddenPath
  HideNoAccess = FALSE
  FileMin = {}
  FileMax <- Readable
  DirMin <- Readable
  DirMax <- TwoBits
  RightsAsked <- EnterAsked
  Accesses <- ReadOrWrite
  Dispositions = {"CREATE_TRUNCATE", "OPEN_EXISTING", "TRUNCATE_EXISTING"}
  OldFlags <- TruncOnly
  SetStats <- OneOrAll
  Profiles <- NoOverwrite
CHECK_DEADLOCK FALSE
PROPERTIES
  OverwriteDenied
