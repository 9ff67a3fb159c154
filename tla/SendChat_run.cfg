SPECIFICATION FairSpec
CONSTANTS
  first = first
  retry = retry
  other = other
  session = session
  key = key
  Call = {first, retry, other}
  Args <- Calls
  Malformed <- Mistakes
  NoKey = noKey
  NoSession = noSession
  NoCopy = noCopy
  NotLaunched = notLaunched
  Absent = absent
  Agent = agent
  Partial = partial
  MaxFiles = 2
  MaxFileBytes = 2
  MaxTotalBytes = 4
  MaxCalls = 2
  MaxRestarts = 1
INVARIANTS
  LaunchedWithItsFiles
  FilesAreWhole
  AnswersAreTrue
PROPERTIES
  KeepsWhatIsThere
  RetryStartsNothing
  EndIsTold
CHECK_DEADLOCK FALSE
