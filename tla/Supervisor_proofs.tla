---- MODULE Supervisor_proofs ----
(***************************************************************************)
(* Theorems about Supervisor, for every set of processes, whichever of     *)
(* them ignore SIGTERM, let go of the pipe or leave the group.             *)
(***************************************************************************)
EXTENDS Supervisor, TLAPS

\* After the promise is resolved nothing of the call is left to run: the timers are off, and
\* what is still living cannot write to the pipe.
Quiescent ==
    settled => /\ timer = "off" /\ killTimer = "off"
               /\ Working \subseteq Quiet
               /\ read = written

\* The state is the classification of the flags, frozen by the step that settles.
StateIsClassified ==
    /\ settled <=> state # "pending"
    /\ ~launched => ~settled /\ ~cancelled /\ ~timedOut /\ ~onLineError
    /\ process[Leader] = "unborn" => ~cancelled /\ ~timedOut /\ ~onLineError

\* Lines are lost only to a parser failure.
NoLineLost == onLineError \/ delivered = read

\* Before the child is started there is no process at all, and no output.
NothingBeforeLaunch ==
    process[Leader] = "unborn" => Living = {} /\ written = 0

IInv ==
    /\ TypeOK
    /\ Quiescent
    /\ StateIsClassified
    /\ NoLineLost
    /\ NothingBeforeLaunch
    /\ StopIsEnforced
    /\ ResultMatchesCause
    /\ CompletedSawEverything

----
\* The initial state satisfies the invariant.
LEMMA InitEstablishes == Init => IInv
<1> SUFFICES ASSUME Init PROVE IInv
  OBVIOUS
<1> USE SupervisorAssumption DEF Init
<1>1. TypeOK
  <2>1. /\ process \in [Process -> ProcessState]
        /\ written \in 0..MaxLines /\ read \in 0..written /\ delivered \in 0..read
    BY DEF ProcessState
  <2>2. launched \in BOOLEAN /\ settled \in BOOLEAN /\ cancelled \in BOOLEAN
    BY Zenon
  <2>3. timedOut \in BOOLEAN /\ onLineError \in BOOLEAN
    BY Zenon
  <2>4. timer \in TimerState /\ killTimer \in TimerState /\ state \in ResultState \cup {"pending"}
    BY DEF TimerState
  <2>5. QED
    BY <2>1, <2>2, <2>3, <2>4 DEF TypeOK
<1>2. Quiescent /\ StateIsClassified /\ NoLineLost /\ StopIsEnforced
  BY DEF Quiescent, StateIsClassified, NoLineLost, StopIsEnforced
<1>3. NothingBeforeLaunch
  BY DEF NothingBeforeLaunch, Living
<1>4. ResultMatchesCause /\ CompletedSawEverything
  BY DEF ResultMatchesCause, CompletedSawEverything
<1>5. QED
  BY <1>1, <1>2, <1>3, <1>4 DEF IInv

\* SIGKILL to the group leaves no member of it working and starts nothing.
LEMMA SigkillEmptiesGroup ==
    ASSUME process \in [Process -> ProcessState], process' = SigkillSent(process)
    PROVE  /\ process' \in [Process -> ProcessState]
           /\ Working' \cap Group = {}
           /\ Working' \subseteq Working
           /\ Living' = Living
           /\ process'[Leader] = "unborn" <=> process[Leader] = "unborn"
  BY SupervisorAssumption DEF SigkillSent, ProcessState, Working, Living, Group

\* SIGTERM to the group neither starts nor ends a process at once.
LEMMA SigtermKeepsProcesses ==
    ASSUME process \in [Process -> ProcessState], process' = SigtermSent(process)
    PROVE  /\ process' \in [Process -> ProcessState]
           /\ Working' = Working
           /\ Living' = Living
           /\ process'[Leader] = "unborn" <=> process[Leader] = "unborn"
  BY SupervisorAssumption DEF SigtermSent, ProcessState, Working, Living, Group

\* A process that exits takes nobody's place.
LEMMA ExitKeepsProcesses ==
    ASSUME process \in [Process -> ProcessState], NEW p \in Process,
           process[p] \in {"alive", "terminating", "killed"}, process' = AfterExit(p)
    PROVE  /\ process' \in [Process -> ProcessState]
           /\ Working' \subseteq Working
           /\ Living' \subseteq Living
           /\ process'[Leader] = "unborn" <=> process[Leader] = "unborn"
  BY SupervisorAssumption DEF AfterExit, ProcessState, Working, Living

\* The lines given to onLine are all consumed, unless one of them throws: then the group is
\* killed.
LEMMA CallOnLineCounts ==
    ASSUME TypeOK, NoLineLost, NEW n \in 0..Unread, NEW bad, CallOnLine(n, bad)
    PROVE  /\ delivered' \in 0..(read + n)
           /\ onLineError' \in BOOLEAN
           /\ onLineError' \/ delivered' = read + n
           /\ onLineError => onLineError'
           /\ \/ process' = process /\ onLineError' = onLineError
              \/ process' = SigkillSent(process) /\ onLineError'
<1>1. /\ n \in Nat /\ read \in Nat /\ delivered \in Nat /\ delivered <= read
      /\ bad \in 0..n
  BY SupervisorAssumption DEF TypeOK, Unread, CallOnLine
<1>2. onLineError \in BOOLEAN
  BY DEF TypeOK
<1>3. CASE onLineError
  <2>1. bad = 0 /\ delivered' = delivered + 0 /\ process' = process
    BY <1>3 DEF CallOnLine
  <2>2. onLineError' = TRUE
    BY <1>3 DEF CallOnLine
  <2>3. delivered' \in 0..(read + n)
    BY <1>1, <2>1
  <2>4. QED
    BY <1>2, <1>3, <2>1, <2>2, <2>3
<1>4. CASE ~onLineError /\ bad = 0
  <2>1. delivered = read
    BY <1>4 DEF NoLineLost
  <2>2. delivered' = delivered + n /\ process' = process
    BY <1>4 DEF CallOnLine
  <2>3. onLineError' = FALSE
    <3>1. ~(bad > 0) /\ onLineError = FALSE
      BY <1>2, <1>4
    <3>2. onLineError' = (onLineError \/ bad > 0)
      BY DEF CallOnLine
    <3>3. QED
      BY <3>1, <3>2, Zenon
  <2>4. delivered' \in 0..(read + n) /\ delivered' = read + n
    BY <1>1, <2>1, <2>2
  <2>5. QED
    BY <1>2, <1>4, <2>2, <2>3, <2>4
<1>5. CASE ~onLineError /\ bad # 0
  <2>1. delivered' = delivered + (bad - 1) /\ process' = SigkillSent(process)
    BY <1>5 DEF CallOnLine
  <2>2. onLineError' = TRUE
    <3>1. bad > 0
      BY <1>1, <1>5
    <3>2. onLineError' = (onLineError \/ bad > 0)
      BY DEF CallOnLine
    <3>3. QED
      BY <3>1, <3>2, Zenon
  <2>3. delivered' \in 0..(read + n)
    BY <1>1, <1>5, <2>1
  <2>4. QED
    BY <1>5, <2>1, <2>2, <2>3
<1>6. QED
  BY <1>3, <1>4, <1>5

----
\* The operating system's steps keep the invariant: a process that is born joins the group, or
\* the holders of the pipe, only through a parent that belongs to them.
LEMMA ForkKeeps ==
    ASSUME IInv, NEW p \in Process, Fork(p)
    PROVE  IInv'
<1> USE SupervisorAssumption DEF IInv, Fork, outputVars, flagVars, timerVars
<1>1. PICK parent \in Working : /\ parent \in Escaped => p \in Escaped
                                /\ parent \in Quiet => p \in Quiet
                                /\ parent \in Process
  BY DEF Working
<1>2. /\ process' \in [Process -> ProcessState]
      /\ Working' = Working \cup {p}
      /\ process'[Leader] = process[Leader]
      /\ process[Leader] # "unborn"
  BY <1>1 DEF TypeOK, ProcessState, Working, NothingBeforeLaunch, Living
<1>3. TypeOK'
  BY <1>2 DEF TypeOK
<1>4. Quiescent'
  BY <1>1, <1>2 DEF Quiescent
<1>5. StateIsClassified' /\ NoLineLost' /\ NothingBeforeLaunch'
  BY <1>2 DEF StateIsClassified, NoLineLost, NothingBeforeLaunch
<1>6. StopIsEnforced'
  BY <1>1, <1>2 DEF StopIsEnforced, Group
<1>7. ResultMatchesCause' /\ CompletedSawEverything'
  BY DEF ResultMatchesCause, CompletedSawEverything
<1>8. QED
  BY <1>3, <1>4, <1>5, <1>6, <1>7

LEMMA ExitKeeps ==
    ASSUME IInv, NEW p \in Process, ExitByItself(p) \/ Die(p)
    PROVE  IInv'
<1> USE SupervisorAssumption DEF IInv, outputVars, flagVars, timerVars
<1>1. /\ process[p] \in {"alive", "terminating", "killed"}
      /\ process' = AfterExit(p)
      /\ UNCHANGED <<outputVars, flagVars, timerVars, state>>
  BY DEF ExitByItself, Die
<1>2. /\ process' \in [Process -> ProcessState]
      /\ Working' \subseteq Working
      /\ Living' \subseteq Living
      /\ process'[Leader] = "unborn" <=> process[Leader] = "unborn"
  BY <1>1, ExitKeepsProcesses DEF TypeOK
<1>3. TypeOK'
  BY <1>1, <1>2 DEF TypeOK
<1>4. Quiescent' /\ StopIsEnforced'
  BY <1>1, <1>2 DEF Quiescent, StopIsEnforced
<1>5. StateIsClassified' /\ NoLineLost' /\ NothingBeforeLaunch'
  BY <1>1, <1>2 DEF StateIsClassified, NoLineLost, NothingBeforeLaunch
<1>6. ResultMatchesCause' /\ CompletedSawEverything'
  BY <1>1 DEF ResultMatchesCause, CompletedSawEverything
<1>7. QED
  BY <1>3, <1>4, <1>5, <1>6

LEMMA WriteKeeps ==
    ASSUME IInv, NEW p \in Process, WriteLine(p)
    PROVE  IInv'
<1> USE SupervisorAssumption DEF IInv, WriteLine, flagVars, timerVars
<1>1. ~settled /\ process[Leader] # "unborn"
  BY DEF Quiescent, NothingBeforeLaunch, Working, Living
<1>2. TypeOK'
  BY DEF TypeOK
<1>3. Quiescent' /\ StopIsEnforced' /\ NothingBeforeLaunch'
  BY <1>1 DEF Quiescent, StopIsEnforced, NothingBeforeLaunch, Working
<1>4. StateIsClassified' /\ NoLineLost'
  BY DEF StateIsClassified, NoLineLost
<1>5. ResultMatchesCause' /\ CompletedSawEverything'
  BY <1>1 DEF ResultMatchesCause, CompletedSawEverything, StateIsClassified
<1>6. QED
  BY <1>2, <1>3, <1>4, <1>5

----
\* The callbacks of supervise() keep the invariant.
LEMMA LaunchKeeps == ASSUME IInv, Launch PROVE IInv'
<1> USE SupervisorAssumption DEF IInv, Launch, outputVars
<1>1. ~settled /\ ~cancelled /\ ~timedOut /\ ~onLineError
  BY DEF StateIsClassified
<1>2. TypeOK'
  BY DEF TypeOK, ProcessState, TimerState
<1>3. Quiescent' /\ StopIsEnforced' /\ StateIsClassified' /\ NoLineLost'
  BY <1>1 DEF Quiescent, StopIsEnforced, StateIsClassified, NoLineLost
<1>4. NothingBeforeLaunch'
  BY DEF NothingBeforeLaunch, Living, TypeOK
<1>5. ResultMatchesCause' /\ CompletedSawEverything'
  BY <1>1 DEF ResultMatchesCause, CompletedSawEverything, StateIsClassified
<1>6. QED
  BY <1>2, <1>3, <1>4, <1>5

LEMMA SpawnErrorKeeps == ASSUME IInv, SpawnError PROVE IInv'
<1> USE SupervisorAssumption DEF IInv, SpawnError, outputVars
<1>1. /\ ~cancelled /\ ~timedOut /\ ~onLineError
      /\ Living = {} /\ written = 0
  BY DEF StateIsClassified, NothingBeforeLaunch
<1>2. TypeOK'
  BY DEF TypeOK, TimerState, ResultState
<1>3. Quiescent' /\ StopIsEnforced'
  BY <1>1 DEF Quiescent, StopIsEnforced, Working, Living, TypeOK
<1>4. StateIsClassified' /\ NoLineLost' /\ NothingBeforeLaunch'
  BY <1>1 DEF StateIsClassified, NoLineLost, NothingBeforeLaunch, Living
<1>5. ResultMatchesCause' /\ CompletedSawEverything'
  BY <1>1 DEF ResultMatchesCause, CompletedSawEverything
<1>6. QED
  BY <1>2, <1>3, <1>4, <1>5

LEMMA DataKeeps == ASSUME IInv, Data PROVE IInv'
<1> USE SupervisorAssumption DEF IInv, Data, Supervising, timerVars
<1>1. PICK n \in 1..Unread, bad \in 0..Unread : CallOnLine(n, bad) /\ read' = read + n
  OBVIOUS
<1>2. n \in 0..Unread /\ read' \in 0..written /\ read + n \in Nat
  BY <1>1 DEF TypeOK, Unread
<1>3. /\ delivered' \in 0..read'
      /\ onLineError' \in BOOLEAN
      /\ onLineError' \/ delivered' = read'
      /\ \/ process' = process /\ onLineError' = onLineError
         \/ process' = SigkillSent(process) /\ onLineError'
  BY <1>1, <1>2, CallOnLineCounts
<1>4. /\ process' \in [Process -> ProcessState]
      /\ Living' = Living
      /\ process'[Leader] = "unborn" <=> process[Leader] = "unborn"
      /\ \/ process' = process /\ onLineError' = onLineError
         \/ Working' \cap Group = {}
  BY <1>3, SigkillEmptiesGroup DEF TypeOK, Living
<1>5. TypeOK'
  BY <1>2, <1>3, <1>4 DEF TypeOK
<1>6. Quiescent' /\ NoLineLost'
  BY <1>3 DEF Quiescent, NoLineLost
<1>7. StopIsEnforced'
  BY <1>4 DEF StopIsEnforced, Working
<1>8. StateIsClassified' /\ NothingBeforeLaunch'
  BY <1>4 DEF StateIsClassified, NothingBeforeLaunch
<1>9. ResultMatchesCause' /\ CompletedSawEverything'
  BY DEF ResultMatchesCause, CompletedSawEverything, StateIsClassified
<1>10. QED
  BY <1>5, <1>6, <1>7, <1>8, <1>9

\* A timeout or the kill timer sends SIGKILL, a cancel SIGTERM with the kill timer behind it.
LEMMA SignalKeeps == ASSUME IInv, Timeout \/ KillTimer \/ Cancel PROVE IInv'
<1> USE SupervisorAssumption
    DEF IInv, Supervising, outputVars, flagVars, Timeout, KillTimer, Cancel
<1>1. /\ ~settled /\ ~settled'
      /\ state = "pending" /\ state' = "pending"
      /\ UNCHANGED <<written, read, delivered, onLineError>>
  BY DEF Quiescent, StateIsClassified
<1>2. /\ process' \in [Process -> ProcessState]
      /\ Living' = Living
      /\ process'[Leader] = "unborn" <=> process[Leader] = "unborn"
      /\ Working' \cap Group = {} \/ killTimer' = "armed"
  BY SigkillEmptiesGroup, SigtermKeepsProcesses DEF TypeOK
<1>3. TypeOK'
  BY <1>1, <1>2 DEF TypeOK, TimerState
<1>4. Quiescent' /\ StopIsEnforced' /\ NoLineLost'
  BY <1>1, <1>2 DEF Quiescent, StopIsEnforced, NoLineLost
<1>5. StateIsClassified' /\ NothingBeforeLaunch'
  BY <1>1, <1>2 DEF StateIsClassified, NothingBeforeLaunch
<1>6. ResultMatchesCause' /\ CompletedSawEverything'
  BY <1>1 DEF ResultMatchesCause, CompletedSawEverything
<1>7. QED
  BY <1>3, <1>4, <1>5, <1>6

LEMMA CloseKeeps == ASSUME IInv, Close PROVE IInv'
<1> USE SupervisorAssumption DEF IInv, Close, Supervising
<1>1. PICK bad \in 0..Unread, clean \in BOOLEAN :
        /\ CallOnLine(Unread, bad)
        /\ state' = ClassifyOutcome(cancelled, timedOut, onLineError', clean)
  OBVIOUS
<1>2. Unread \in 0..Unread /\ read + Unread = written
  BY DEF TypeOK, Unread
<1>3. /\ delivered' \in 0..written
      /\ onLineError' \in BOOLEAN
      /\ onLineError' \/ delivered' = written
      /\ \/ process' = process
         \/ process' = SigkillSent(process)
  BY <1>1, <1>2, CallOnLineCounts
<1>4. /\ process' \in [Process -> ProcessState]
      /\ Living' = Living
      /\ process'[Leader] # "unborn"
      /\ Working' \subseteq Quiet
  BY <1>3, SigkillEmptiesGroup DEF TypeOK, Living, Closed, Working
<1>5. /\ state' \in ResultState
      /\ cancelled => state' = "cancelled"
      /\ state' = "cancelled" => cancelled
      /\ state' = "completed" => ~timedOut /\ ~onLineError'
  BY <1>1 DEF ClassifyOutcome, ResultState
<1>6. TypeOK'
  BY <1>3, <1>4, <1>5 DEF TypeOK, TimerState
<1>7. Quiescent' /\ NoLineLost' /\ StopIsEnforced'
  BY <1>3, <1>4 DEF Quiescent, NoLineLost, StopIsEnforced
<1>8. StateIsClassified' /\ NothingBeforeLaunch'
  BY <1>4, <1>5 DEF StateIsClassified, NothingBeforeLaunch, ResultState
<1>9. ResultMatchesCause' /\ CompletedSawEverything'
  BY <1>3, <1>5 DEF ResultMatchesCause, CompletedSawEverything
<1>10. QED
  BY <1>6, <1>7, <1>8, <1>9

\* Every step keeps the invariant.
LEMMA StepKeeps == IInv /\ [Next]_vars => IInv'
<1> SUFFICES ASSUME IInv, [Next]_vars PROVE IInv'
  OBVIOUS
<1>1. CASE UNCHANGED vars
  BY <1>1 DEF vars, outputVars, flagVars, timerVars, IInv, TypeOK, Quiescent, StateIsClassified,
     NoLineLost, NothingBeforeLaunch, StopIsEnforced, ResultMatchesCause,
     CompletedSawEverything, Living, Working
<1>2. CASE Next
  BY <1>2, ForkKeeps, ExitKeeps, WriteKeeps, LaunchKeeps, SpawnErrorKeeps, DataKeeps,
     SignalKeeps, CloseKeeps DEF Next
<1>3. QED
  BY <1>1, <1>2

----
\* The inductive invariant holds in every reachable state.
THEOREM Invariant == Spec => []IInv
<1>1. QED
  BY InitEstablishes, StepKeeps, PTL DEF Spec

\* Every variable has its type (the state of one supervise() call).
THEOREM TypeCorrect == Spec => []TypeOK
<1>1. IInv => TypeOK
  BY DEF IInv
<1>2. QED
  BY <1>1, Invariant, PTL

\* No run that is to be stopped is left with a working group and no kill on its way.
THEOREM StopEnforced == Spec => []StopIsEnforced
<1>1. IInv => StopIsEnforced
  BY DEF IInv
<1>2. QED
  BY <1>1, Invariant, PTL

\* A completed run has had its whole output processed.
THEOREM NothingUnread == Spec => []CompletedSawEverything
<1>1. IInv => CompletedSawEverything
  BY DEF IInv
<1>2. QED
  BY <1>1, Invariant, PTL

\* The result tells of the cancel, the timeout or the parser failure.
THEOREM CauseReported == Spec => []ResultMatchesCause
<1>1. IInv => ResultMatchesCause
  BY DEF IInv
<1>2. QED
  BY <1>1, Invariant, PTL

----
(* supervise() is an agent run. *)

\* The run starts as an idle agent.
LEMMA InitRefines == Init => Supervised!Init
  BY DEF Init, Supervised!Init, Agent, Outcome

\* What a step does to the run and its result, as the gateway sees them.
Moves ==
    \/ Agent' = Agent /\ Outcome' = Outcome
    \/ Agent = "idle" /\ Agent' = "running" /\ Outcome' = Outcome
    \/ Agent = "running" /\ Agent' = "stopping" /\ Outcome' = Outcome
    \/ /\ Agent = "running" /\ Agent' = "settled"
       /\ Outcome' \in {"done", "error"}
    \/ /\ Agent = "stopping" /\ Agent' = "settled"
       /\ Outcome' \in {"cancelled", "error"}

LEMMA StepMoves ==
    ASSUME IInv, IInv', [Next]_vars
    PROVE  Moves
<1> USE DEF Moves, Agent, Outcome
<1>1. CASE Launch
  <2>1. state = "pending" /\ state' = "pending" /\ ~settled /\ ~settled' /\ ~cancelled'
    BY <1>1 DEF Launch, IInv, StateIsClassified
  <2>2. QED
    BY <1>1, <2>1 DEF Launch
<1>2. CASE SpawnError
  BY <1>2 DEF SpawnError, IInv, StateIsClassified
<1>3. CASE Close
  <2>1. /\ launched /\ launched' /\ ~settled /\ settled'
        /\ cancelled' = cancelled
        /\ state' \in ResultState
    BY <1>3 DEF Close, Supervising, IInv, TypeOK, StateIsClassified
  <2>2. cancelled => state' = "cancelled"
    BY <1>3, <2>1 DEF IInv, ResultMatchesCause
  <2>3. ~cancelled => state' # "cancelled"
    BY <1>3, <2>1 DEF IInv, ResultMatchesCause
  <2>4. QED
    BY <2>1, <2>2, <2>3 DEF ResultState
<1>4. CASE Cancel
  BY <1>4 DEF Cancel, Supervising
<1>5. CASE Data \/ Timeout \/ KillTimer \/ UNCHANGED vars
  BY <1>5 DEF Data, Timeout, KillTimer, vars, flagVars
<1>6. CASE \E p \in Process : Fork(p) \/ ExitByItself(p) \/ Die(p) \/ WriteLine(p)
  BY <1>6 DEF Fork, ExitByItself, Die, WriteLine, flagVars
<1>7. QED
  BY <1>1, <1>2, <1>3, <1>4, <1>5, <1>6 DEF Next

LEMMA StepRefines ==
    ASSUME IInv, IInv', [Next]_vars
    PROVE  Supervised!Next
<1>1. Moves
  BY StepMoves
<1>2. /\ Agent' \in Supervised!AgentState
      /\ Outcome' \in Supervised!Outcome \cup {"no_outcome"}
  BY DEF Agent, Outcome, Supervised!AgentState, Supervised!Outcome
<1>3. ASSUME NEW r \in {Leader}
      PROVE  Supervised!Launch(r) \/ Supervised!Stop(r) \/ Supervised!End(r) \/ Supervised!Rest(r)
  BY <1>1 DEF Moves, Supervised!Launch, Supervised!Stop, Supervised!End, Supervised!Rest
<1>4. QED
  BY <1>2, <1>3 DEF Supervised!Next

\* Every behaviour of supervise() is a behaviour of an agent run: it settles once, a cancelled
\* run never as a success, and only a cancelled run as cancelled.
THEOREM IsAgentRun == Spec => Supervised!Spec
<1>1. IInv /\ IInv' /\ [Next]_vars => [Supervised!Next]_(Supervised!agentVars)
  BY StepRefines
<1>2. QED
  BY <1>1, InitRefines, Invariant, PTL DEF Spec, Supervised!Spec

====
