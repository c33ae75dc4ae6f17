CONSTANTS
  Names <- MCNames
  GzNames <- MCGzNames
  OutName <- MCOutName
  Commands <- MCCommands
  Worlds <- MCWorlds
  MaxKills = 2
  MayFail = TRUE
  Paths <- MCPaths
  Above <- MCAbove
  Sources <- MCSources
  Targets <- MCTargets
  Arguments <- MCArguments
  Nowhere = "nowhere"
  Dirs = {"here", "root"}
  Here = "here"
  Zero = 0
  Junk = 2
  Byte <- Bits
  BlockSize = 2
  NewData <- MCNewData
  MaxChanges = 1
  Faulty = TRUE
SPECIFICATION ArchivesSpec
INVARIANTS ExtractsIntoDir
CHECK_DEADLOCK FALSE
