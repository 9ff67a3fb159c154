\* A close that comes before the launcher has joined the cgroup.
SPECIFICATION Spec
CONSTANTS
  Terminal = {t1, t2}
  Job = {job}
  Shell = shell
  Key = {k}
  NoKey = noKey
  NoTerminal = noTerminal
  Reader = {r}
  NotReading = notReading
  MaxTerminals = 1
  MaxOutput = 1
INVARIANT EndedCloseHasKilled
