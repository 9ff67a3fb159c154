SPECIFICATION FairSpec
CONSTANTS
  first = first
  second = second
  Call = {first, second}
  Stranger = {stranger}
  Id = {"m1", "m2", "m3"}
  Requests <- Choices
  Principal = {"alice", "root"}
  Policy <- Principals
  Nobody = "nobody"
  NoScope = "none"
  NoClient = noClient
  NoArgs = noArgs
  Seeds <- Stored
  MaxConnections = 1
  MaxStops = 1
INVARIANTS
  MutationAnswersAreTrue
  OnlyGrantedScopes
  EveryChangeOnRecord
PROPERTIES
  ServedAgain
CHECK_DEADLOCK FALSE
