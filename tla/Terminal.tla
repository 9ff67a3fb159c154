---- MODULE Terminal ----
(* The terminal service: the life of a terminal over its PTY child and its cgroup
   (terminal/src/service.js), the kill, wait and removal of a cgroup and the cleanup
   of those a previous instance left (terminal/src/cgroup.js), the launcher that
   joins the cgroup before it becomes the shell (terminal/launcher), and the start
   and shutdown of the service (terminal/src/server.js).

   JavaScript runs to completion, so every handler is one step. The processes of a
   terminal, the launcher among them, run beside the service and between any two of
   its system calls. A terminal identifier is random and never used again.  *)
EXTENDS Naturals, FiniteSets

CONSTANTS Terminal,       \* identifiers of terminals
          Job,            \* what a shell may leave running besides itself
          Shell,          \* the PTY child
          Key, NoKey,     \* idempotency keys of spawns
          NoTerminal,
          Reader,         \* output calls that may be parked at a time
          NotReading,
          MaxTerminals,   \* policy.maxTerminals
          MaxOutput       \* bound: bytes a terminal writes

Process == Job \cup {Shell}

ASSUME ConstantsAssumption ==
  /\ Shell \notin Job
  /\ NoKey \notin Key
  /\ NoTerminal \notin Terminal
  /\ NotReading \notin [terminal : Terminal, cursor : Nat]
  /\ IsFiniteSet(Terminal)
  /\ MaxTerminals \in Nat \ {0}
  /\ MaxOutput \in Nat

VARIABLES
  service,      \* the process of the service: is `ready` pending, resolved or rejected
  stopped,      \* SIGTERM was received
  state,        \* t.state; "none": id not drawn yet, "lost": no longer in the map
  idle,         \* lastActivityAt is further back than the TTL
  output,       \* t.ring.end
  idempotency,  \* the terminal a key was spawned as
  reader,       \* the parked output calls (t.waiters)
  kill,         \* how far killAndRemove has come with the terminal's cgroup
  cgroup,       \* the terminal's directory in the delegated subtree
  process       \* its processes

vars == <<service, stopped, state, idle, output, idempotency, reader, kill, cgroup, process>>
osVars == <<cgroup, process>>
memory == <<state, idle, output, idempotency, reader>>

InMap == {t \in Terminal : state[t] \in {"running", "exited", "closing", "closed"}}
Up == service \in {"starting", "ready", "unavailable"}
InProgress == {"sent", "waiting", "empty"}

\* From the read that saw the cgroup empty to its removal only microtasks run.
MicrotasksDone == \A t \in Terminal : kill[t] # "empty"
Serving == service = "ready" /\ MicrotasksDone

Member(t, p) == process[t][p] \in {"live", "dying"}
Populated(t) == \E p \in Process : Member(t, p)

Init ==
  /\ service = "starting"
  /\ stopped = FALSE
  /\ state = [t \in Terminal |-> "none"]
  /\ idle = [t \in Terminal |-> FALSE]
  /\ output = [t \in Terminal |-> 0]
  /\ idempotency = [k \in Key |-> NoTerminal]
  /\ reader = [r \in Reader |-> NotReading]
  /\ kill = [t \in Terminal |-> "none"]
  /\ cgroup = [t \in Terminal |-> "none"]
  /\ process = [t \in Terminal |-> [p \in Process |-> "none"]]

----------------------------------------------------------------------------
(* The processes of the terminals.  *)

\* The launcher writes its pid to cgroup.procs and executes the shell; without the
\* directory it exits with 125.
Join(t) ==
  /\ process[t][Shell] = "launching"
  /\ process' = [process EXCEPT ![t][Shell] = IF cgroup[t] = "present" THEN "live" ELSE "gone"]
  /\ UNCHANGED <<service, stopped, memory, kill, cgroup>>

Fork(t, p, job) ==
  /\ process[t][p] = "live"
  /\ process[t][job] = "none"
  /\ process' = [process EXCEPT ![t][job] = "live"]
  /\ UNCHANGED <<service, stopped, memory, kill, cgroup>>

\* A process ends by itself, by a terminal-signal, or because cgroup.kill reached it.
Exit(t, p) ==
  /\ process[t][p] \in {"launching", "live", "dying"}
  /\ process' = [process EXCEPT ![t][p] = "gone"]
  /\ UNCHANGED <<service, stopped, memory, kill, cgroup>>

----------------------------------------------------------------------------
(* Output and long polls.  *)

HasData(t, cursor, states, outputs) == cursor < outputs[t]
SomethingToRead(t, cursor, states, outputs) == cursor < outputs[t] \/ states[t] # "running"

\* notify(t): every parked call of the terminals ts is woken, reads the ring again and is
\* answered; an answer with data or a changed state renews lastActivityAt.
Notified(ts, states, outputs) ==
  LET woken == {r \in Reader : reader[r] # NotReading /\ reader[r].terminal \in ts}
      renewed == {t \in ts : \E r \in woken : /\ reader[r].terminal = t
                                              /\ SomethingToRead(t, reader[r].cursor, states, outputs)}
  IN /\ reader' = [r \in Reader |-> IF r \in woken THEN NotReading ELSE reader[r]]
     /\ idle' = [t \in Terminal |-> IF t \in renewed THEN FALSE ELSE idle[t]]

Data(t) ==
  /\ Up /\ MicrotasksDone
  /\ t \in InMap
  /\ output[t] < MaxOutput
  /\ output' = [output EXCEPT ![t] = @ + 1]
  /\ Notified({t}, state, output')
  /\ UNCHANGED <<service, stopped, state, idempotency, kill, osVars>>

AfterExit(s) == IF s = "running" THEN "exited" ELSE s

\* onExit. A closing or closed terminal keeps its state.
ExitSeen(t) ==
  /\ Up /\ MicrotasksDone
  /\ state[t] = "running"
  /\ process[t][Shell] = "gone"
  /\ state' = [state EXCEPT ![t] = AfterExit(@)]
  /\ Notified({t}, state', output)
  /\ UNCHANGED <<service, stopped, output, idempotency, kill, osVars>>

\* terminal-output: answered at once with what there is to read, or parked for wait_ms.
Output(r, t, cursor) ==
  /\ Serving
  /\ reader[r] = NotReading
  /\ t \in InMap
  /\ IF SomethingToRead(t, cursor, state, output)
     THEN idle' = [idle EXCEPT ![t] = FALSE] /\ UNCHANGED reader
     ELSE reader' = [reader EXCEPT ![r] = [terminal |-> t, cursor |-> cursor]] /\ UNCHANGED idle
  /\ UNCHANGED <<service, stopped, state, output, idempotency, kill, osVars>>

\* The wait_ms timer, or the disconnect of the client.
OutputTimeout(r) ==
  /\ Up /\ MicrotasksDone
  /\ reader[r] # NotReading
  /\ reader' = [reader EXCEPT ![r] = NotReading]
  /\ IF SomethingToRead(reader[r].terminal, reader[r].cursor, state, output)
     THEN idle' = [idle EXCEPT ![reader[r].terminal] = FALSE]
     ELSE UNCHANGED idle
  /\ UNCHANGED <<service, stopped, state, output, idempotency, kill, osVars>>

----------------------------------------------------------------------------
(* Spawn, use and the TTL.  *)

CountedRunning == {t \in Terminal : state[t] = "running"}
Counted == {t \in Terminal : state[t] \in {"running", "closing"}}

\* An entry of the key answers the spawn, or refuses it as a conflict, and changes nothing.
MaySpawn(t, k) ==
  /\ Serving /\ ~stopped
  /\ state[t] = "none"
  /\ k # NoKey => idempotency[k] = NoTerminal
  /\ Cardinality(Counted) < MaxTerminals

Spawn(t, k) ==
  /\ MaySpawn(t, k)
  /\ state' = [state EXCEPT ![t] = "running"]
  /\ cgroup' = [cgroup EXCEPT ![t] = "present"]
  /\ process' = [process EXCEPT ![t][Shell] = "launching"]
  /\ idempotency' = [key \in Key |-> IF key = k THEN t ELSE idempotency[key]]
  /\ UNCHANGED <<service, stopped, idle, output, reader, kill>>

\* The cgroup cannot be made, or pty.spawn throws and the cgroup is removed in the background.
SpawnFails(t, k) ==
  /\ MaySpawn(t, k)
  /\ state' = [state EXCEPT ![t] = "lost"]
  /\ \/ UNCHANGED <<cgroup, kill>>
     \/ /\ cgroup' = [cgroup EXCEPT ![t] = "present"]
        /\ kill' = [kill EXCEPT ![t] = "sent"]
  /\ UNCHANGED <<service, stopped, idle, output, idempotency, reader, process>>

\* terminal-write and terminal-signal need a running terminal, terminal-resize one not closed.
Use(t, states) ==
  /\ Serving
  /\ t \in InMap
  /\ state[t] \in states
  /\ idle' = [idle EXCEPT ![t] = FALSE]
  /\ UNCHANGED <<service, stopped, state, output, idempotency, reader, kill, osVars>>

Write(t) == Use(t, {"running"})
Signal(t) == Use(t, {"running"})
Resize(t) == Use(t, {"running", "exited", "closing"})

\* The TTL passes without a renewal.
GrowIdle(t) ==
  /\ t \in InMap
  /\ ~idle[t]
  /\ idle' = [idle EXCEPT ![t] = TRUE]
  /\ UNCHANGED <<service, stopped, state, output, idempotency, reader, kill, osVars>>

----------------------------------------------------------------------------
(* Close: cgroup.kill reaches the processes that are in the cgroup now.  *)

Killed(ts) ==
  process' = [t \in Terminal |->
                IF t \in ts
                THEN [p \in Process |-> IF process[t][p] = "live" THEN "dying" ELSE process[t][p]]
                ELSE process[t]]

Killing(ts) == kill' = [t \in Terminal |-> IF t \in ts THEN "sent" ELSE kill[t]]

\* close(t): with a closePromise the terminal is left to it, also when it was rejected.
MayClose(t) == t \in InMap /\ state[t] # "closed" /\ kill[t] = "none"

CloseAll(ts) ==
  /\ state' = [t \in Terminal |-> IF t \in ts THEN "closing" ELSE state[t]]
  /\ Killing(ts)
  /\ Killed(ts)
  /\ Notified(ts, state', output)
  /\ UNCHANGED <<output, idempotency, cgroup>>

Close(t) ==
  /\ Serving
  /\ MayClose(t)
  /\ CloseAll({t})
  /\ UNCHANGED <<service, stopped>>

ExpiredRunning(t) == MayClose(t) /\ idle[t] /\ state[t] = "running"
Expired(t) == MayClose(t) /\ idle[t]

Reap ==
  /\ Serving /\ ~stopped
  /\ \E t \in Terminal : Expired(t)
  /\ CloseAll({t \in Terminal : Expired(t)})
  /\ UNCHANGED <<service, stopped>>

\* waitEmpty: a read of cgroup.events, and the end of the time it has.
Poll(t) ==
  /\ Up
  /\ kill[t] \in {"sent", "waiting"}
  /\ kill' = [kill EXCEPT ![t] = IF Populated(t) THEN "waiting" ELSE "empty"]
  /\ UNCHANGED <<service, stopped, memory, osVars>>

GiveUpClosed(t) ==
  /\ Up
  /\ kill[t] = "waiting"
  /\ kill' = [kill EXCEPT ![t] = "failed"]
  /\ state' = [state EXCEPT ![t] = IF @ = "closing" THEN "closed" ELSE @]
  /\ UNCHANGED <<service, stopped, idle, output, idempotency, reader, osVars>>

GiveUp(t) ==
  /\ Up
  /\ kill[t] = "waiting"
  /\ kill' = [kill EXCEPT ![t] = "failed"]
  /\ UNCHANGED <<service, stopped, memory, osVars>>

\* rmdir fails on a cgroup that is populated again; otherwise finish() closes the terminal.
Remove(t) ==
  /\ Up
  /\ kill[t] = "empty"
  /\ IF Populated(t)
     THEN kill' = [kill EXCEPT ![t] = "failed"] /\ UNCHANGED <<cgroup, state, reader, idle>>
     ELSE /\ kill' = [kill EXCEPT ![t] = "done"]
          /\ cgroup' = [cgroup EXCEPT ![t] = "removed"]
          /\ state' = [state EXCEPT ![t] = IF @ = "closing" THEN "closed" ELSE @]
          /\ Notified({t}, state', output)
  /\ UNCHANGED <<service, stopped, output, idempotency, process>>

----------------------------------------------------------------------------
(* Start, shutdown and crash of the service.  *)

Stale == {t \in Terminal : cgroup[t] = "present"}
Cleaning == service = "starting" /\ \A t \in Terminal : kill[t] \notin InProgress

CleanupStale(t) ==
  /\ Cleaning
  /\ t \in Stale /\ kill[t] = "none"
  /\ \A u \in Terminal : kill[u] # "failed"
  /\ Killing({t})
  /\ Killed({t})
  /\ UNCHANGED <<service, stopped, memory, cgroup>>

ReadyAtOnce ==
  /\ Cleaning
  /\ service' = "ready"
  /\ UNCHANGED <<stopped, memory, kill, osVars>>

Ready ==
  /\ Cleaning /\ Stale = {}
  /\ service' = "ready"
  /\ UNCHANGED <<stopped, memory, kill, osVars>>

\* A stale cgroup that could not be removed, or a launcher that is not there.
Unavailable ==
  /\ Cleaning
  /\ Stale = {} \/ \E t \in Terminal : kill[t] = "failed"
  /\ service' = "unavailable"
  /\ UNCHANGED <<stopped, memory, kill, osVars>>

Stop ==
  /\ Up /\ MicrotasksDone
  /\ ~stopped
  /\ stopped' = TRUE
  /\ CloseAll({t \in Terminal : MayClose(t)})
  /\ UNCHANGED service

\* All that the service keeps in memory goes with its process; cgroups and processes stay.
ProcessEnds ==
  /\ service' = "down"
  /\ stopped' = FALSE
  /\ state' = [t \in Terminal |-> IF t \in InMap THEN "lost" ELSE state[t]]
  /\ idle' = [t \in Terminal |-> FALSE]
  /\ output' = [t \in Terminal |-> 0]
  /\ idempotency' = [k \in Key |-> NoTerminal]
  /\ reader' = [r \in Reader |-> NotReading]
  /\ kill' = [t \in Terminal |-> "none"]
  /\ UNCHANGED <<osVars>>

StopDoneWhenClosed ==
  /\ stopped /\ service \in {"ready", "unavailable"} /\ MicrotasksDone
  /\ \A t \in InMap : state[t] = "closed"
  /\ ProcessEnds

\* stop() has closed every terminal, or one of them refused to close (Promise.all).
StopDone ==
  /\ stopped /\ service \in {"ready", "unavailable"} /\ MicrotasksDone
  /\ \/ \A t \in InMap : state[t] = "closed"
     \/ \E t \in InMap : kill[t] = "failed"
  /\ ProcessEnds

Crash == Up /\ ProcessEnds

Start ==
  /\ service = "down"
  /\ service' = "starting"
  /\ UNCHANGED <<stopped, memory, kill, osVars>>

----------------------------------------------------------------------------
Next ==
  \/ \E t \in Terminal :
       \/ Join(t) \/ \E p \in Process : Exit(t, p) \/ \E job \in Job : Fork(t, p, job)
       \/ Data(t) \/ ExitSeen(t) \/ Write(t) \/ Signal(t) \/ Resize(t) \/ GrowIdle(t)
       \/ Close(t) \/ Poll(t) \/ GiveUp(t) \/ Remove(t) \/ CleanupStale(t)
       \/ \E k \in Key \cup {NoKey} : Spawn(t, k) \/ SpawnFails(t, k)
       \/ \E r \in Reader, cursor \in 0..MaxOutput : Output(r, t, cursor)
  \/ \E r \in Reader : OutputTimeout(r)
  \/ Reap \/ Ready \/ Unavailable \/ Stop \/ StopDone \/ Crash \/ Start

Spec == Init /\ [][Next]_vars

\* The timers of the service fire, and a process that was killed dies.
FairSpec ==
  /\ Spec
  /\ \A t \in Terminal :
       /\ WF_vars(Poll(t)) /\ WF_vars(GiveUp(t)) /\ WF_vars(Remove(t)) /\ WF_vars(CleanupStale(t))
       /\ WF_vars(ExitSeen(t))
       /\ \A p \in Process : WF_vars(process[t][p] = "dying" /\ Exit(t, p))
  /\ WF_vars(Reap) /\ WF_vars(Ready) /\ WF_vars(Unavailable) /\ WF_vars(StopDone)

----------------------------------------------------------------------------
(* Properties.  *)

\* Every variable keeps its type; a terminal with a cgroup has had its id drawn.
TypeOK ==
  /\ service \in {"starting", "ready", "unavailable", "down"}
  /\ stopped \in BOOLEAN
  /\ state \in [Terminal -> {"none", "running", "exited", "closing", "closed", "lost"}]
  /\ idle \in [Terminal -> BOOLEAN]
  /\ output \in [Terminal -> 0..MaxOutput]
  /\ idempotency \in [Key -> Terminal \cup {NoTerminal}]
  /\ reader \in [Reader -> [terminal : Terminal, cursor : 0..MaxOutput] \cup {NotReading}]
  /\ kill \in [Terminal -> InProgress \cup {"none", "done", "failed"}]
  /\ cgroup \in [Terminal -> {"none", "present", "removed"}]
  /\ process \in [Terminal -> [Process -> {"none", "launching", "live", "dying", "gone"}]]

\* A terminal that is closed has no process left, and none can come: its cgroup is gone,
\* so that a launcher which is still on its way exits. Close, launcher and shell interleave
\* at every system call (service.js:78-87, cgroup.js:84-104, cgroup-launcher.c:46-61).
ClosedMeansGone ==
  \A t \in Terminal : state[t] = "closed" => cgroup[t] = "removed" /\ ~Populated(t)

\* No more shells run than policy.maxTerminals, those of closes that failed and those that
\* a crash left behind included (service.js:35, cgroup.js:106-113).
ShellsWithinLimit ==
  Cardinality({t \in Terminal : Member(t, Shell)}) <= MaxTerminals

\* A parked long poll has nothing to read and its terminal still runs: no output, exit or
\* close between the read and the parking, or while others are answered, is missed
\* (service.js:24, 44-45, 52-72, 82, 84).
NoLostWakeup ==
  \A r \in Reader :
    reader[r] # NotReading =>
      /\ state[reader[r].terminal] = "running"
      /\ output[reader[r].terminal] <= reader[r].cursor

\* While the service serves, every process in a terminal's cgroup belongs to a terminal it
\* knows: of an instance that crashed nothing is left (cgroup.js:65-69, 106-113, server.js:62).
ReadyMeansClean ==
  service = "ready" => \A t \in Terminal : Populated(t) => t \in InMap

\* SIGTERM ends the service, whatever closes hang or have failed (service.js:15, server.js:71).
StopEnds == stopped ~> service = "down"

\* A terminal nobody uses is closed once its TTL has passed (service.js:90). What becomes
\* of the close is not said.
IdleIsClosed ==
  \A t \in Terminal :
    (idle[t] /\ state[t] \in {"running", "exited"})
      ~> (~idle[t] \/ stopped \/ state[t] \notin {"running", "exited"})

\* "Close kills the terminal's exact delegated cgroup" (docs/terminal-pty-design.md:110):
\* when a close has ended, no process of the terminal is left that was not killed.
EndedCloseHasKilled ==
  \A t \in InMap : kill[t] \in {"done", "failed"} =>
    \A p \in Process : process[t][p] # "live"

====
