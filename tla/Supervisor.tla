---- MODULE Supervisor ----
(***************************************************************************)
(* One call of supervise() in gateway/src/runtime/supervisor.js: a child   *)
(* process and its descendants, the pipe its output comes through, the two *)
(* timers, and the promise that agent.js classifies into an AgentResult.   *)
(*                                                                         *)
(* A step is one callback of the event loop (data, timer, close, error,    *)
(* cancel) or one step of the operating system under it.                   *)
(***************************************************************************)
EXTENDS Naturals

CONSTANTS Process,   \* the child and every process that descends from it
          Leader,    \* the child, which leads its process group
          Stubborn,  \* processes that ignore SIGTERM
          Quiet,     \* processes that do not hold the child's stdout or stderr
          Escaped,   \* processes that left the group for a session of their own
          MaxLines   \* bound on the lines the processes write

ASSUME SupervisorAssumption ==
    /\ Leader \in Process \ (Quiet \cup Escaped)
    /\ Stubborn \cup Quiet \cup Escaped \subseteq Process
    /\ MaxLines \in Nat

VARIABLES process,      \* the life of each process
          written,      \* lines the processes have written
          read,         \* lines the data handler has taken from the pipe
          delivered,    \* lines onLine has consumed without a throw
          launched,     \* spawn() has been called
          settled, cancelled, timedOut, onLineError,
          timer,        \* "off" or "armed", as killTimer
          killTimer,
          state         \* state of the AgentResult, once resolved

flagVars == <<launched, settled, cancelled, timedOut, onLineError>>
timerVars == <<timer, killTimer>>
outputVars == <<written, read, delivered>>
vars == <<process, outputVars, flagVars, timerVars, state>>

----
(* "terminating": got a SIGTERM or a hang-up and will exit in its own time.  "killed": got a  *)
(* SIGKILL, does nothing more.                                                                *)
ProcessState == {"unborn", "alive", "terminating", "killed", "dead"}
ResultState == {"cancelled", "timeout", "spawn_error", "internal_error", "failed", "completed"}
TimerState == {"off", "armed"}

TypeOK ==
    /\ process \in [Process -> ProcessState]
    /\ written \in 0..MaxLines
    /\ read \in 0..written
    /\ delivered \in 0..read
    /\ launched \in BOOLEAN
    /\ settled \in BOOLEAN
    /\ cancelled \in BOOLEAN
    /\ timedOut \in BOOLEAN
    /\ onLineError \in BOOLEAN
    /\ timer \in TimerState
    /\ killTimer \in TimerState
    /\ state \in ResultState \cup {"pending"}

Init ==
    /\ process = [p \in Process |-> "unborn"]
    /\ written = 0
    /\ read = 0
    /\ delivered = 0
    /\ launched = FALSE
    /\ settled = FALSE
    /\ cancelled = FALSE
    /\ timedOut = FALSE
    /\ onLineError = FALSE
    /\ timer = "off"
    /\ killTimer = "off"
    /\ state = "pending"

Living == {p \in Process : process[p] \in {"alive", "terminating", "killed"}}
Working == {p \in Process : process[p] \in {"alive", "terminating"}}
Group == Process \ Escaped

----
(* killProcessGroup: the signal reaches whoever is in the group at that moment. *)

SigtermSent(procs) ==
    [p \in Process |->
        IF p \in Group \ Stubborn /\ procs[p] = "alive" THEN "terminating" ELSE procs[p]]
SigkillSent(procs) ==
    [p \in Process |->
        IF p \in Group /\ procs[p] \in {"alive", "terminating"} THEN "killed" ELSE procs[p]]

\* classifyOutcome in agent.js: the first cause that applies, then what the process said.
ClassifyOutcomeTimeoutFirst(isCancelled, isTimedOut, hasOnLineError, clean) ==
    IF isTimedOut THEN "timeout"
    ELSE IF isCancelled THEN "cancelled"
    ELSE IF hasOnLineError THEN "internal_error"
    ELSE IF clean THEN "completed" ELSE "failed"
ClassifyOutcome(isCancelled, isTimedOut, hasOnLineError, clean) ==
    IF isCancelled THEN "cancelled"
    ELSE IF isTimedOut THEN "timeout"
    ELSE IF hasOnLineError THEN "internal_error"
    ELSE IF clean THEN "completed" ELSE "failed"

----
(* The operating system *)

\* A process forks a descendant, which inherits its session and its descriptors: it is not in
\* the group, or has no pipe, if its parent is not or has not.
Fork(p) ==
    /\ process[p] = "unborn"
    /\ p # Leader
    /\ \E parent \in Working :
        /\ parent \in Escaped => p \in Escaped
        /\ parent \in Quiet => p \in Quiet
    /\ process' = [process EXCEPT ![p] = "alive"]
    /\ UNCHANGED <<outputVars, flagVars, timerVars, state>>

\* The death of the leader hangs up the terminal it gave to the processes that left its group
\* (opencode-run.sh runs the agent under `script`).
AfterExit(p) ==
    [q \in Process |->
        IF q = p THEN "dead"
        ELSE IF p = Leader /\ q \in Escaped \ Stubborn /\ process[q] = "alive" THEN "terminating"
        ELSE process[q]]

ExitByItself(p) ==
    /\ process[p] = "alive"
    /\ process' = AfterExit(p)
    /\ UNCHANGED <<outputVars, flagVars, timerVars, state>>

Die(p) ==
    /\ process[p] \in {"terminating", "killed"}
    /\ process' = AfterExit(p)
    /\ UNCHANGED <<outputVars, flagVars, timerVars, state>>

WriteLine(p) ==
    /\ p \in Working \ Quiet
    /\ written < MaxLines
    /\ written' = written + 1
    /\ UNCHANGED <<process, read, delivered, flagVars, timerVars, state>>

----
(* supervise() and its callbacks *)

\* spawn() starts the child, or finds nothing to run and will emit 'error'.
Launch ==
    /\ ~launched
    /\ launched' = TRUE
    /\ timer' = "armed"
    /\ process' \in {process, [process EXCEPT ![Leader] = "alive"]}
    /\ UNCHANGED <<outputVars, settled, cancelled, timedOut, onLineError, killTimer, state>>

\* 'error' comes on the next tick, before any timer or request handler can run.
SpawnError ==
    /\ launched /\ ~settled
    /\ process[Leader] = "unborn"
    /\ settled' = TRUE
    /\ timer' = "off"
    /\ killTimer' = "off"
    /\ state' = "spawn_error"
    /\ UNCHANGED <<process, outputVars, launched, cancelled, timedOut, onLineError>>

Supervising == launched /\ ~settled /\ process[Leader] # "unborn"

\* callOnLine on n lines, of which number `bad` throws (0: none does).  The throw kills the
\* group, and the lines after it are dropped.
CallOnLine(n, bad) ==
    /\ bad \in (IF onLineError THEN {0} ELSE 0..n)
    /\ delivered' = delivered + (IF onLineError THEN 0 ELSE IF bad = 0 THEN n ELSE bad - 1)
    /\ onLineError' = (onLineError \/ bad > 0)
    /\ process' = (IF bad = 0 THEN process ELSE SigkillSent(process))

Unread == written - read

\* One chunk of stdout: all complete lines but, possibly, a last one left in `buffer`.
Data ==
    /\ Supervising
    /\ \E n \in 1..Unread, bad \in 0..Unread :
        /\ CallOnLine(n, bad)
        /\ read' = read + n
    /\ UNCHANGED <<written, launched, settled, cancelled, timedOut, timerVars, state>>

TimeoutSigterm ==
    /\ Supervising
    /\ timer = "armed"
    /\ timer' = "off"
    /\ timedOut' = TRUE
    /\ killTimer' = "off"
    /\ process' = SigtermSent(process)
    /\ UNCHANGED <<outputVars, launched, settled, cancelled, onLineError, state>>

Timeout ==
    /\ Supervising
    /\ timer = "armed"
    /\ timer' = "off"
    /\ timedOut' = TRUE
    /\ killTimer' = "off"
    /\ process' = SigkillSent(process)
    /\ UNCHANGED <<outputVars, launched, settled, cancelled, onLineError, state>>

Cancel ==
    /\ Supervising
    /\ ~cancelled
    /\ cancelled' = TRUE
    /\ timer' = "off"
    /\ killTimer' = "armed"
    /\ process' = SigtermSent(process)
    /\ UNCHANGED <<outputVars, launched, settled, timedOut, onLineError, state>>

\* TERM_GRACE_MS after cancel().
KillTimer ==
    /\ killTimer = "armed"
    /\ killTimer' = "off"
    /\ process' = SigkillSent(process)
    /\ UNCHANGED <<outputVars, flagVars, timer, state>>

\* 'exit' only tells that the child is gone; 'close' also that its pipes are at their end.
Exited == process[Leader] = "dead"
ClosedOnExit == Exited
Closed ==
    /\ Exited
    /\ Living \subseteq Quiet

\* 'close': the last line may have no newline and is flushed from `buffer`.
Close ==
    /\ Supervising
    /\ Closed
    /\ Unread \in {0, 1}
    /\ \E bad \in 0..Unread, clean \in BOOLEAN :
        /\ CallOnLine(Unread, bad)
        /\ state' = ClassifyOutcome(cancelled, timedOut, onLineError', clean)
    /\ read' = written
    /\ settled' = TRUE
    /\ timer' = "off"
    /\ killTimer' = "off"
    /\ UNCHANGED <<written, launched, cancelled, timedOut>>

Next ==
    \/ Launch \/ SpawnError
    \/ Data \/ Timeout \/ Cancel \/ KillTimer \/ Close
    \/ \E p \in Process : Fork(p) \/ ExitByItself(p) \/ Die(p) \/ WriteLine(p)

Spec == Init /\ [][Next]_vars

\* Timers and events of the loop are served, and a process that was told to go goes.  A process
\* that was not may run for ever, and nobody has to cancel.
FairSpec ==
    /\ Spec
    /\ WF_vars(SpawnError) /\ WF_vars(Data) /\ WF_vars(Close)
    /\ WF_vars(Timeout) /\ WF_vars(KillTimer)
    /\ \A p \in Process : WF_vars(Die(p))

----
(* Properties *)

\* Once a run is to be stopped, by a cancel, its timeout or a failed parser, every process of
\* the group has been killed or the kill timer is still to fire, whatever the processes fork or
\* ignore and in whatever order the three causes meet (timeout and cancel, supervisor.js:104,132).
StopIsEnforced ==
    (cancelled \/ timedOut \/ onLineError) /\ ~settled
        => Working \cap Group = {} \/ killTimer = "armed"

\* A run reported as completed has had every line any of its processes wrote to the pipe
\* processed, the ones a descendant wrote after the child's exit included (close, not exit).
CompletedSawEverything == state = "completed" => delivered = written

\* The result of a run that was ever told to stop says so, and only then: a completed or
\* cancelled state cannot hide a timeout or a parser failure (classifyOutcome).
ResultMatchesCause ==
    /\ settled /\ cancelled => state = "cancelled"
    /\ state = "cancelled" => cancelled
    /\ state = "completed" => ~timedOut /\ ~onLineError

\* "Cancellation sends SIGTERM to the process group, then escalates to SIGKILL after
\* TERM_GRACE_MS if the group has not exited" (supervisor.js:10).
CancelEmptiesGroup == settled /\ cancelled => Working \cap Group = {}

\* The run the gateway sees, as AgentRun describes it.
Agent ==
    IF ~launched THEN "idle"
    ELSE IF settled THEN "settled"
    ELSE IF cancelled THEN "stopping" ELSE "running"

Outcome ==
    IF state = "pending" THEN "no_outcome"
    ELSE IF state = "completed" THEN "done"
    ELSE IF state = "cancelled" THEN "cancelled" ELSE "error"

Supervised == INSTANCE AgentRun WITH
    Run <- {Leader},
    agent <- [r \in {Leader} |-> Agent],
    outcome <- [r \in {Leader} |-> Outcome]

\* supervise() is an agent run, and one that ends: a hung child is killed by its timeout.
ImplementsAgentRun == Supervised!FairSpec

====
