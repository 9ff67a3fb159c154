SPECIFICATION FairSpec
CONSTANTS
  open = open
  read = read
  other = other
  Call = {open, read, other}
  Options <- Choices
  NoArgs <- Empty
  NoTerminal = noTerminal
  NoSpawn = noSpawn
  MaxColumns = 2
  MaxData = 2
  MaxWait = 1
  Executable = {"bash"}
  Environment = {"HOME"}
  Directory = {"root"}
  Limit = 2
  Chunk = {1, 2}
  MaxStream = 4
  MaxLife = 1
INVARIANTS
  NothingMissedSilently
  WriteAnswersAreTrue
  SpawnedOnce
PROPERTIES
  CallsReturn
CHECK_DEADLOCK FALSE
