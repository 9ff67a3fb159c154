\* A background job of the agent that ignores SIGTERM and has redirected its output.
SPECIFICATION SpecCancelledLast
CONSTANTS
    Process = {lead, job}
    Leader = lead
    Stubborn = {job}
    Quiet = {job}
    Escaped = {}
    MaxLines = 1
INVARIANT CancelEmptiesGroup
CHECK_DEADLOCK FALSE
