CONSTANTS
  Names <- MCNames
  GzNames <- MCGzNames
  OutName <- MCOutName
  Commands <- MCCommands
  Worlds <- MCWorlds
  MaxKills = 2
  MayFail = TRUE
SPECIFICATION Spec
INVARIANTS VerifiedBeforeRemoval
CHECK_DEADLOCK FALSE
