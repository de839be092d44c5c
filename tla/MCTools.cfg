SPECIFICATION ToolsSpec
CONSTANTS
  NULL = NULL
  Octet = 4
  LongLength = 48
  Wide = FALSE
  MaxOid = 12
  MeanId = 63
  WorstId <- LargeId
  Counted <- SomeNodes
  Sources <- SomeSources
  PibSources <- SomePibs
  SmingSources <- SomeSming
  Rank <- Ranks
  Worlds <- SomeWorlds
  Nice <- SomePrefixes
  Position <- Positions
  Commands <- SomeCommands
  Optv <- Opts
  Begins <- Beginnings
  Numbers <- Digits
  Drivers <- Registered
  FoundModules <- Found
INVARIANTS
  CommandHeard
  DumpSound
  SizesBracket
  DifferencesTold
CHECK_DEADLOCK FALSE
