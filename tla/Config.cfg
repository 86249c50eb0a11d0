SPECIFICATION Spec
CONSTANTS
  Targets <- Files
  CompiledAs <- Compiled
  Whos <- OnlyBob
  Addresses <- SomeAddresses
  Tags <- SomeTags
  Words <- SomeWords
  Params <- Names
  KindOf <- Types
  Digits <- Numbers
  Resolve <- Hosts
  ProfilesIn <- Lists
  MaxInclusions = 2
  MaxTags = 2
  MaxWeight = 6
  None = None
CHECK_DEADLOCK FALSE
INVARIANTS
  TypeOK
  ValueIsLastApplicable
  FilterAsWritten
  RangesMatch
