\* Two requests over two servers.
SPECIFICATION FairSpec
CONSTANTS
    Request = {r1, r2}
    Worker = {w1, w2}
    Authority = {agent}
    NoWorker = NoWorker
    NoAuthority = NoAuthority
    NoCall = NoCall
    MaxWire = 1
PROPERTIES
    ClosedServersExit
    ImplementsAgentRun
CHECK_DEADLOCK FALSE
