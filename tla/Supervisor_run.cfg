\* A tool that ignores SIGTERM, a background job of the group that also let go of the pipe, a
\* daemon in a session of its own.
SPECIFICATION FairSpec
CONSTANTS
    Process = {lead, tool, job, daemon}
    Leader = lead
    Stubborn = {tool, job}
    Quiet = {job, daemon}
    Escaped = {daemon}
    MaxLines = 3
INVARIANTS
    StopIsEnforced
    CompletedSawEverything
    ResultMatchesCause
PROPERTY ImplementsAgentRun
CHECK_DEADLOCK FALSE
