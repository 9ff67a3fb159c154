\* Two terminals compete for a limit of one, with crashes, restarts and shutdowns.
SPECIFICATION FairSpec
CONSTANTS
  Terminal = {t1, t2}
  Job = {job}
  Shell = shell
  Key = {k}
  NoKey = noKey
  NoTerminal = noTerminal
  Reader = {r}
  NotReading = notReading
  MaxTerminals = 1
  MaxOutput = 1
INVARIANTS
  ClosedMeansGone
  ShellsWithinLimit
  NoLostWakeup
  ReadyMeansClean
PROPERTIES
  StopEnds
  IdleIsClosed
