---- MODULE Terminal_proofs ----
(***************************************************************************)
(* Theorems about Terminal, for any number of terminals, jobs, keys and    *)
(* readers, and any limit.                                                 *)
(***************************************************************************)
EXTENDS Terminal, FiniteSetTheorems, TLAPS

\* An identifier that was not drawn yet has no cgroup, no process and nothing to kill.
UndrawnIsEmpty ==
  \A t \in Terminal : state[t] = "none" =>
    kill[t] = "none" /\ cgroup[t] = "none" /\ \A p \in Process : process[t][p] = "none"

\* A process that is no launcher is in its cgroup, which can therefore not be removed.
MembersHaveACgroup ==
  \A t \in Terminal : Populated(t) => cgroup[t] = "present"

\* finish() runs after the removal.
ClosedIsRemoved ==
  \A t \in Terminal : state[t] = "closed" => cgroup[t] = "removed"

\* A terminal is exited only after its shell.
ExitedHasNoShell ==
  \A t \in Terminal : state[t] = "exited" => process[t][Shell] = "gone"

\* A cgroup that is there while the service serves is that of a terminal it knows, or of a
\* spawn that failed before it had a process.
CgroupsAreKnown ==
  service = "ready" =>
    \A t \in Terminal : cgroup[t] = "present" =>
      t \in InMap \/ \A p \in Process : process[t][p] = "none"

\* The terminals whose shell runs, or whose launcher can still become it.
Occupied ==
  {t \in Terminal : Member(t, Shell) \/ (process[t][Shell] = "launching" /\ cgroup[t] = "present")}

OccupiedWithinLimit == Cardinality(Occupied) <= MaxTerminals

Base ==
  /\ UndrawnIsEmpty
  /\ MembersHaveACgroup
  /\ ClosedIsRemoved
  /\ ExitedHasNoShell
  /\ CgroupsAreKnown

IInv ==
  /\ TypeOK
  /\ Base
  /\ NoLostWakeup
  /\ OccupiedWithinLimit

----
\* The initial state satisfies the invariant.
LEMMA InitEstablishes == Init => IInv
<1> SUFFICES ASSUME Init PROVE IInv
  OBVIOUS
<1> USE ConstantsAssumption DEF Init
<1>1. TypeOK
  <2>1. stopped \in BOOLEAN /\ idle \in [Terminal -> BOOLEAN]
    BY Zenon
  <2>2. output \in [Terminal -> 0..MaxOutput] /\ kill \in [Terminal -> InProgress \cup {"none",
     "done", "failed"}]
    BY DEF InProgress
  <2>3. process \in [Terminal -> [Process -> {"none", "launching", "live", "dying", "gone"}]]
    OBVIOUS
  <2>4. QED
    BY <2>1, <2>2, <2>3 DEF TypeOK
<1>2. Base
  BY DEF Base, UndrawnIsEmpty, MembersHaveACgroup, ClosedIsRemoved, ExitedHasNoShell,
         CgroupsAreKnown, Populated, Member
<1>3. NoLostWakeup
  BY DEF NoLostWakeup
<1>4. OccupiedWithinLimit
  <2>1. Occupied = {}
    BY DEF Occupied, Member, Process
  <2>2. QED
    BY <2>1, FS_EmptySet DEF OccupiedWithinLimit
<1>5. QED
  BY <1>1, <1>2, <1>3, <1>4 DEF IInv

\* Waking the parked calls of some terminals keeps the types of reader and idle.
LEMMA NotifiedTypes ==
  ASSUME NEW ts, NEW states, NEW outputs,
         TypeOK, Notified(ts, states, outputs)
  PROVE  /\ reader' \in [Reader -> [terminal : Terminal, cursor : 0..MaxOutput] \cup {NotReading}]
         /\ idle' \in [Terminal -> BOOLEAN]
  BY DEF TypeOK, Notified

\* The processes of terminals that are killed keep their type.
LEMMA KilledTypes ==
  ASSUME NEW ts, TypeOK, Killed(ts)
  PROVE  process' \in [Terminal -> [Process -> {"none", "launching", "live", "dying", "gone"}]]
  BY DEF TypeOK, Killed

\* A step that closes terminals keeps the types.
LEMMA CloseAllTypes ==
  ASSUME NEW ts \in SUBSET Terminal, TypeOK, CloseAll(ts),
         UNCHANGED service, stopped' \in BOOLEAN
  PROVE  TypeOK'
<1>1. process' \in [Terminal -> [Process -> {"none", "launching", "live", "dying", "gone"}]]
  BY KilledTypes DEF CloseAll
<1>2. /\ reader' \in [Reader -> [terminal : Terminal, cursor : 0..MaxOutput] \cup {NotReading}]
      /\ idle' \in [Terminal -> BOOLEAN]
  BY NotifiedTypes DEF CloseAll
<1>3. QED
  BY <1>1, <1>2 DEF TypeOK, CloseAll, Killing, InProgress
\* Every step keeps the types.
LEMMA TypeStep == TypeOK /\ [Next]_vars => TypeOK'
<1> SUFFICES ASSUME TypeOK, [Next]_vars PROVE TypeOK'
  OBVIOUS
<1> USE ConstantsAssumption
<1>1. ASSUME NEW t \in Terminal, Join(t) PROVE TypeOK'
  BY <1>1 DEF TypeOK, osVars, memory, InProgress, Join
<1>2. ASSUME NEW t \in Terminal, NEW p \in Process, Exit(t, p) PROVE TypeOK'
  BY <1>2 DEF TypeOK, osVars, memory, InProgress, Exit
<1>3. ASSUME NEW t \in Terminal, NEW p \in Process, NEW job \in Job, Fork(t, p, job) PROVE TypeOK'
  BY <1>3 DEF TypeOK, osVars, memory, InProgress, Fork, Process
<1>4. ASSUME NEW t \in Terminal, Data(t) PROVE TypeOK'
  BY <1>4, NotifiedTypes DEF TypeOK, osVars, memory, InProgress, Data
<1>5. ASSUME NEW t \in Terminal, ExitSeen(t) PROVE TypeOK'
  BY <1>5, NotifiedTypes DEF TypeOK, osVars, memory, InProgress, ExitSeen, AfterExit
<1>6. ASSUME NEW t \in Terminal, NEW k \in Key \cup {NoKey}, Spawn(t, k) PROVE TypeOK'
  BY <1>6 DEF TypeOK, osVars, memory, InProgress, Spawn, MaySpawn, Process
<1>7. ASSUME NEW t \in Terminal, NEW k \in Key \cup {NoKey}, SpawnFails(t, k) PROVE TypeOK'
  BY <1>7 DEF TypeOK, osVars, memory, InProgress, SpawnFails, MaySpawn
<1>8. ASSUME NEW t \in Terminal, NEW r \in Reader, NEW cursor \in 0..MaxOutput, Output(r, t,
             cursor)
      PROVE  TypeOK'
  <2>1. [terminal |-> t, cursor |-> cursor] \in [terminal : Terminal, cursor : 0..MaxOutput]
    OBVIOUS
  <2>2. /\ reader' \in [Reader -> [terminal : Terminal, cursor : 0..MaxOutput] \cup {NotReading}]
        /\ idle' \in [Terminal -> BOOLEAN]
    <3>1. CASE SomethingToRead(t, cursor, state, output)
      BY <1>8, <3>1 DEF TypeOK, Output
    <3>2. CASE ~SomethingToRead(t, cursor, state, output)
      <4>1. /\ reader' = [reader EXCEPT ![r] = [terminal |-> t, cursor |-> cursor]]
            /\ idle' = idle
        BY <1>8, <3>2, Zenon DEF Output
      <4>2. QED
        BY <2>1, <4>1 DEF TypeOK
    <3>3. QED
      BY <3>1, <3>2
  <2>3. QED
    BY <1>8, <2>2 DEF TypeOK, osVars, Output
<1>9. ASSUME NEW r \in Reader, OutputTimeout(r) PROVE TypeOK'
  BY <1>9 DEF TypeOK, osVars, memory, InProgress, OutputTimeout
<1>10. ASSUME NEW t \in Terminal, Write(t) \/ Signal(t) \/ Resize(t) PROVE TypeOK'
  BY <1>10 DEF TypeOK, osVars, memory, InProgress, Write, Signal, Resize, Use
<1>11. ASSUME NEW t \in Terminal, GrowIdle(t) PROVE TypeOK'
  BY <1>11 DEF TypeOK, osVars, memory, InProgress, GrowIdle
<1>12. ASSUME NEW t \in Terminal, Close(t) PROVE TypeOK'
  BY <1>12, CloseAllTypes DEF TypeOK, Close
<1>13. ASSUME Reap PROVE TypeOK'
  BY <1>13, CloseAllTypes DEF TypeOK, Reap
<1>14. ASSUME NEW t \in Terminal, Poll(t) PROVE TypeOK'
  BY <1>14 DEF TypeOK, osVars, memory, InProgress, Poll
<1>15. ASSUME NEW t \in Terminal, GiveUp(t) PROVE TypeOK'
  BY <1>15 DEF TypeOK, osVars, memory, InProgress, GiveUp
<1>16. ASSUME NEW t \in Terminal, Remove(t) PROVE TypeOK'
  BY <1>16, NotifiedTypes DEF TypeOK, osVars, memory, InProgress, Remove
<1>17. ASSUME NEW t \in Terminal, CleanupStale(t) PROVE TypeOK'
  BY <1>17, KilledTypes DEF TypeOK, osVars, memory, InProgress, CleanupStale, Killing
<1>18. ASSUME Ready \/ Unavailable \/ Start PROVE TypeOK'
  BY <1>18 DEF TypeOK, osVars, memory, InProgress, Ready, Unavailable, Start
<1>19. ASSUME Stop PROVE TypeOK'
  BY <1>19, CloseAllTypes DEF Stop
<1>20. ASSUME ProcessEnds PROVE TypeOK'
  <2>1. stopped' \in BOOLEAN /\ idle' \in [Terminal -> BOOLEAN]
    BY <1>20, Zenon DEF ProcessEnds
  <2>2. /\ service' \in {"starting", "ready", "unavailable", "down"}
        /\ state' \in [Terminal -> {"none", "running", "exited", "closing", "closed", "lost"}]
        /\ output' \in [Terminal -> 0..MaxOutput]
        /\ idempotency' \in [Key -> Terminal \cup {NoTerminal}]
        /\ reader' \in [Reader -> [terminal : Terminal, cursor : 0..MaxOutput] \cup {NotReading}]
        /\ kill' \in [Terminal -> InProgress \cup {"none", "done", "failed"}]
    BY <1>20 DEF TypeOK, InProgress, ProcessEnds
  <2>3. QED
    BY <1>20, <2>1, <2>2 DEF TypeOK, osVars, ProcessEnds
<1>21. CASE UNCHANGED vars
  BY <1>21 DEF vars, TypeOK
<1>22. QED
  BY <1>1, <1>2, <1>3, <1>4, <1>5, <1>6, <1>7, <1>8, <1>9, <1>10, <1>11, <1>12, <1>13, <1>14,
     <1>15, <1>16, <1>17, <1>18, <1>19, <1>20, <1>21 DEF Next, Crash, StopDone

\* Output, activity and the waiting for an empty cgroup touch nothing Base speaks of.
LEMMA BaseKept ==
  ASSUME Base, UNCHANGED <<service, state, cgroup, process>>,
         \A t \in Terminal : kill[t] = "none" => kill'[t] = "none"
  PROVE  Base'
  BY DEF Base, UndrawnIsEmpty, MembersHaveACgroup, ClosedIsRemoved, ExitedHasNoShell,
     CgroupsAreKnown, Populated, Member, InMap

\* A close or a kill takes no process out of its cgroup and brings none into it.
LEMMA KilledKeepsMembers ==
  ASSUME NEW ts, TypeOK, Killed(ts)
  PROVE  \A t \in Terminal, p \in Process :
           /\ Member(t, p)' <=> Member(t, p)
           /\ process'[t][p] = "none" <=> process[t][p] = "none"
           /\ process'[t][p] = "gone" <=> process[t][p] = "gone"
           /\ process'[t][p] = "launching" <=> process[t][p] = "launching"
  BY DEF TypeOK, Killed, Member

\* A step that closes terminals keeps Base: the processes it kills stay in their cgroups.
LEMMA BaseAfterCloseAll ==
  ASSUME NEW ts \in SUBSET Terminal, TypeOK, Base, CloseAll(ts), \A t \in ts : MayClose(t),
     UNCHANGED service
  PROVE  Base'
<1>1. \A t \in Terminal, p \in Process :
        /\ Member(t, p)' <=> Member(t, p)
        /\ process'[t][p] = "none" <=> process[t][p] = "none"
        /\ process'[t][p] = "gone" <=> process[t][p] = "gone"
  BY KilledKeepsMembers DEF CloseAll
<1>2. /\ \A t \in Terminal : state'[t] = IF t \in ts THEN "closing" ELSE state[t]
      /\ InMap \subseteq InMap'
      /\ cgroup' = cgroup
      /\ \A t \in Terminal : t \notin ts => kill'[t] = kill[t]
  BY DEF CloseAll, Killing, TypeOK, InMap
<1>3. UndrawnIsEmpty'
  BY <1>1, <1>2 DEF Base, UndrawnIsEmpty
<1>4. MembersHaveACgroup'
  BY <1>1, <1>2 DEF Base, MembersHaveACgroup, Populated
<1>5. ClosedIsRemoved'
  BY <1>2 DEF Base, ClosedIsRemoved
<1>6. ExitedHasNoShell'
  BY <1>1, <1>2 DEF Base, ExitedHasNoShell, Process
<1>7. CgroupsAreKnown'
  BY <1>1, <1>2 DEF Base, CgroupsAreKnown
<1>8. QED
  BY <1>3, <1>4, <1>5, <1>6, <1>7 DEF Base

\* Every step keeps Base.
LEMMA BaseStep == TypeOK /\ Base /\ [Next]_vars => Base'
<1> SUFFICES ASSUME TypeOK, Base, [Next]_vars PROVE Base'
  OBVIOUS
<1> USE ConstantsAssumption
<1>1. ASSUME NEW t \in Terminal, Join(t) PROVE Base'
  BY <1>1 DEF TypeOK, Base, UndrawnIsEmpty, MembersHaveACgroup, ClosedIsRemoved, ExitedHasNoShell,
     CgroupsAreKnown, Populated, Member, InMap, Process, memory, osVars, Join
<1>2. ASSUME NEW t \in Terminal, NEW p \in Process, Exit(t, p) PROVE Base'
  BY <1>2 DEF TypeOK, Base, UndrawnIsEmpty, MembersHaveACgroup, ClosedIsRemoved, ExitedHasNoShell,
     CgroupsAreKnown, Populated, Member, InMap, Process, memory, osVars, Exit
<1>3. ASSUME NEW t \in Terminal, NEW p \in Process, NEW job \in Job, Fork(t, p, job) PROVE Base'
  BY <1>3 DEF TypeOK, Base, UndrawnIsEmpty, MembersHaveACgroup, ClosedIsRemoved, ExitedHasNoShell,
     CgroupsAreKnown, Populated, Member, InMap, Process, memory, osVars, Fork
<1>4. ASSUME NEW t \in Terminal, ExitSeen(t) PROVE Base'
  BY <1>4 DEF TypeOK, Base, UndrawnIsEmpty, MembersHaveACgroup, ClosedIsRemoved, ExitedHasNoShell,
     CgroupsAreKnown, Populated, Member, InMap, Process, memory, osVars, ExitSeen, AfterExit
<1>5. ASSUME NEW t \in Terminal, NEW k \in Key \cup {NoKey}, Spawn(t, k) PROVE Base'
  BY <1>5 DEF TypeOK, Base, UndrawnIsEmpty, MembersHaveACgroup, ClosedIsRemoved, ExitedHasNoShell,
     CgroupsAreKnown, Populated, Member, InMap, Process, memory, osVars, Spawn, MaySpawn
<1>6. ASSUME NEW t \in Terminal, NEW k \in Key \cup {NoKey}, SpawnFails(t, k) PROVE Base'
  BY <1>6 DEF TypeOK, Base, UndrawnIsEmpty, MembersHaveACgroup, ClosedIsRemoved, ExitedHasNoShell,
     CgroupsAreKnown, Populated, Member, InMap, Process, memory, osVars, SpawnFails, MaySpawn
<1>7. ASSUME NEW t \in Terminal, Data(t) \/ Write(t) \/ Signal(t) \/ Resize(t) \/ GrowIdle(t) \/
             Poll(t) \/ GiveUp(t)
      PROVE  Base'
  BY <1>7, BaseKept DEF TypeOK, Data, Write, Signal, Resize, Use, GrowIdle, Poll, GiveUp, memory,
     osVars
<1>8. ASSUME NEW t \in Terminal, NEW r \in Reader, NEW cursor \in 0..MaxOutput, Output(r, t,
             cursor)
      PROVE  Base'
  BY <1>8, BaseKept DEF Output, osVars
<1>9. ASSUME NEW r \in Reader, OutputTimeout(r) PROVE Base'
  BY <1>9, BaseKept DEF OutputTimeout, osVars
<1>10. ASSUME NEW t \in Terminal, Close(t) PROVE Base'
  BY <1>10, BaseAfterCloseAll DEF Close
<1>11. ASSUME Reap PROVE Base'
  BY <1>11, BaseAfterCloseAll DEF Reap, Expired
<1>12. ASSUME NEW t \in Terminal, Remove(t) PROVE Base'
  <2>1. CASE Populated(t)
    <3>1. kill' = [kill EXCEPT ![t] = "failed"] /\ UNCHANGED <<service, state, cgroup, process>>
      BY <1>12, <2>1 DEF Remove
    <3>2. kill[t] # "none"
      BY <1>12 DEF Remove
    <3>3. QED
      BY <3>1, <3>2, BaseKept DEF TypeOK
  <2>2. CASE ~Populated(t)
    <3>1. /\ kill[t] = "empty"
          /\ kill' = [kill EXCEPT ![t] = "done"]
          /\ cgroup' = [cgroup EXCEPT ![t] = "removed"]
          /\ state' = [state EXCEPT ![t] = IF @ = "closing" THEN "closed" ELSE @]
          /\ UNCHANGED <<service, process>>
      BY <1>12, <2>2 DEF Remove
    <3>2. UndrawnIsEmpty' /\ ClosedIsRemoved' /\ ExitedHasNoShell'
      BY <3>1 DEF TypeOK, Base, UndrawnIsEmpty, ClosedIsRemoved, ExitedHasNoShell
    <3>3. MembersHaveACgroup' /\ CgroupsAreKnown'
      BY <2>2, <3>1 DEF TypeOK, Base, MembersHaveACgroup, CgroupsAreKnown, Populated, Member, InMap
    <3>4. QED
      BY <3>2, <3>3 DEF Base
  <2>3. QED
    BY <2>1, <2>2
<1>13. ASSUME NEW t \in Terminal, CleanupStale(t) PROVE Base'
  <2>1. /\ service = "starting"
        /\ UNCHANGED <<service, state, cgroup>>
        /\ kill' = [u \in Terminal |-> IF u \in {t} THEN "sent" ELSE kill[u]]
        /\ cgroup[t] = "present"
    BY <1>13 DEF CleanupStale, Cleaning, Stale, Killing, memory
  <2>2. \A u \in Terminal, p \in Process :
          /\ Member(u, p)' <=> Member(u, p)
          /\ process'[u][p] = "none" <=> process[u][p] = "none"
          /\ process'[u][p] = "gone" <=> process[u][p] = "gone"
    BY <1>13, KilledKeepsMembers DEF CleanupStale
  <2>3. UndrawnIsEmpty'
    BY <2>1, <2>2 DEF Base, UndrawnIsEmpty
  <2>4. MembersHaveACgroup' /\ ClosedIsRemoved'
    BY <2>1, <2>2 DEF Base, MembersHaveACgroup, ClosedIsRemoved, Populated
  <2>5. ExitedHasNoShell' /\ CgroupsAreKnown'
    BY <2>1, <2>2 DEF Base, ExitedHasNoShell, CgroupsAreKnown, Process
  <2>6. QED
    BY <2>3, <2>4, <2>5 DEF Base
<1>14. ASSUME Ready PROVE Base'
  BY <1>14 DEF TypeOK, Base, UndrawnIsEmpty, MembersHaveACgroup, ClosedIsRemoved,
     ExitedHasNoShell, CgroupsAreKnown, Populated, Member, InMap, Process, memory, osVars, Ready,
     Stale
<1>15. ASSUME Unavailable \/ Start PROVE Base'
  BY <1>15 DEF TypeOK, Base, UndrawnIsEmpty, MembersHaveACgroup, ClosedIsRemoved,
     ExitedHasNoShell, CgroupsAreKnown, Populated, Member, InMap, Process, memory, osVars,
     Unavailable, Start
<1>16. ASSUME Stop PROVE Base'
  BY <1>16, BaseAfterCloseAll DEF Stop
<1>17. ASSUME ProcessEnds PROVE Base'
  BY <1>17 DEF TypeOK, Base, UndrawnIsEmpty, MembersHaveACgroup, ClosedIsRemoved,
     ExitedHasNoShell, CgroupsAreKnown, Populated, Member, InMap, Process, memory, osVars,
     ProcessEnds
<1>18. CASE UNCHANGED vars
  BY <1>18, BaseKept DEF vars
<1>19. QED
  BY <1>1, <1>2, <1>3, <1>4, <1>5, <1>6, <1>7, <1>8, <1>9, <1>10, <1>11, <1>12, <1>13, <1>14,
     <1>15, <1>16, <1>17, <1>18 DEF Next, Crash, StopDone

----
\* Who is still parked after a notification is parked as before, at another terminal.
LEMMA NotifiedWakes ==
  ASSUME TypeOK, NEW ts, NEW states, NEW outputs, Notified(ts, states, outputs),
         NEW r \in Reader, reader'[r] # NotReading
  PROVE  reader'[r] = reader[r] /\ reader[r].terminal \notin ts
  BY DEF TypeOK, Notified

\* A close wakes who is parked at the terminals it closes.
LEMMA WakeupAfterCloseAll ==
  ASSUME NEW ts \in SUBSET Terminal, TypeOK, NoLostWakeup, CloseAll(ts)
  PROVE  NoLostWakeup'
<1>1. \A r \in Reader : reader'[r] # NotReading => reader'[r] = reader[r] /\ reader[r].terminal
   \notin ts
  BY NotifiedWakes DEF CloseAll
<1>2. /\ \A t \in Terminal : t \notin ts => state'[t] = state[t]
      /\ output' = output
      /\ \A r \in Reader : reader[r] # NotReading => reader[r].terminal \in Terminal
  BY DEF CloseAll, TypeOK
<1>3. QED
  BY <1>1, <1>2 DEF NoLostWakeup

\* Every step that brings output or a new state wakes the parked calls of the terminal.
LEMMA WakeupStep == TypeOK /\ NoLostWakeup /\ [Next]_vars => NoLostWakeup'
<1> SUFFICES ASSUME TypeOK, NoLostWakeup, [Next]_vars PROVE NoLostWakeup'
  OBVIOUS
<1> USE ConstantsAssumption
<1>a. ASSUME UNCHANGED <<state, output, reader>> PROVE NoLostWakeup'
  BY <1>a DEF NoLostWakeup
<1>b. ASSUME NEW t \in Terminal,
             \/ Join(t) \/ Write(t) \/ Signal(t) \/ Resize(t) \/ GrowIdle(t)
             \/ Poll(t) \/ GiveUp(t) \/ CleanupStale(t)
      PROVE  NoLostWakeup'
  BY <1>a, <1>b DEF Join, Write, Signal, Resize, Use, GrowIdle, Poll, GiveUp, CleanupStale,
     memory, osVars
<1>c. ASSUME NEW t \in Terminal, NEW p \in Process, Exit(t, p) PROVE NoLostWakeup'
  BY <1>a, <1>c DEF Exit, memory
<1>d. ASSUME NEW t \in Terminal, NEW p \in Process, NEW job \in Job, Fork(t, p, job)
      PROVE  NoLostWakeup'
  BY <1>a, <1>d DEF Fork, memory
<1>1. ASSUME Ready \/ Unavailable \/ Start PROVE NoLostWakeup'
  BY <1>1, <1>a DEF Ready, Unavailable, Start, memory
<1>2. ASSUME NEW t \in Terminal, Data(t) PROVE NoLostWakeup'
  BY <1>2, NotifiedWakes DEF TypeOK, NoLostWakeup, Data
<1>3. ASSUME NEW t \in Terminal, ExitSeen(t) PROVE NoLostWakeup'
  BY <1>3, NotifiedWakes DEF TypeOK, NoLostWakeup, ExitSeen
<1>4. ASSUME NEW t \in Terminal, NEW k \in Key \cup {NoKey}, Spawn(t, k) \/ SpawnFails(t, k)
      PROVE  NoLostWakeup'
  BY <1>4 DEF TypeOK, NoLostWakeup, Spawn, SpawnFails, MaySpawn
<1>5. ASSUME NEW t \in Terminal, NEW r \in Reader, NEW cursor \in 0..MaxOutput, Output(r, t,
             cursor)
      PROVE  NoLostWakeup'
  BY <1>5 DEF TypeOK, NoLostWakeup, Output, SomethingToRead
<1>6. ASSUME NEW r \in Reader, OutputTimeout(r) PROVE NoLostWakeup'
  BY <1>6 DEF TypeOK, NoLostWakeup, OutputTimeout
<1>7. ASSUME NEW t \in Terminal, Close(t) PROVE NoLostWakeup'
  BY <1>7, WakeupAfterCloseAll DEF Close
<1>8. ASSUME Reap PROVE NoLostWakeup'
  BY <1>8, WakeupAfterCloseAll DEF Reap
<1>9. ASSUME NEW t \in Terminal, Remove(t) PROVE NoLostWakeup'
  BY <1>9, NotifiedWakes DEF TypeOK, NoLostWakeup, Remove
<1>10. ASSUME Stop PROVE NoLostWakeup'
  BY <1>10, WakeupAfterCloseAll DEF Stop
<1>11. ASSUME ProcessEnds PROVE NoLostWakeup'
  BY <1>11 DEF NoLostWakeup, ProcessEnds
<1>12. CASE UNCHANGED vars
  BY <1>12, <1>a DEF vars
<1>13. QED
  BY <1>b, <1>c, <1>d, <1>1, <1>2, <1>3, <1>4, <1>5, <1>6, <1>7, <1>8, <1>9, <1>10, <1>11, <1>12
     DEF Next, Crash, StopDone

----
\* Where nobody new is counted, the limit is kept.
LEMMA FewerOccupied ==
  ASSUME OccupiedWithinLimit, Occupied' \subseteq Occupied
  PROVE  OccupiedWithinLimit'
<1>1. IsFiniteSet(Occupied)
  BY ConstantsAssumption, FS_Subset DEF Occupied
<1>2. /\ IsFiniteSet(Occupied')
      /\ Cardinality(Occupied') <= Cardinality(Occupied)
  BY <1>1, FS_Subset
<1>3. Cardinality(Occupied) \in Nat /\ Cardinality(Occupied') \in Nat
  BY <1>1, <1>2, FS_CardinalityType
<1>4. QED
  BY <1>2, <1>3, ConstantsAssumption DEF OccupiedWithinLimit

\* While the service serves, the shells that run belong to terminals the limit counts.
LEMMA OccupiedAreCounted ==
  ASSUME TypeOK, Base, service = "ready"
  PROVE  Occupied \subseteq Counted
<1> SUFFICES ASSUME NEW t \in Occupied PROVE t \in Counted
  OBVIOUS
<1>1. /\ t \in Terminal /\ Shell \in Process
      /\ process[t][Shell] \in {"live", "dying", "launching"}
      /\ cgroup[t] = "present"
  BY DEF Occupied, Base, MembersHaveACgroup, Populated, Member, Process
<1>2. t \in InMap
  BY <1>1 DEF Base, CgroupsAreKnown
<1>3. state[t] # "exited" /\ state[t] # "closed"
  BY <1>1 DEF Base, ExitedHasNoShell, ClosedIsRemoved
<1>4. QED
  BY <1>1, <1>2, <1>3 DEF InMap, Counted

\* One more element is at most one more to count.
LEMMA AddOne ==
  ASSUME NEW S, NEW x, IsFiniteSet(S)
  PROVE  IsFiniteSet(S \cup {x}) /\ Cardinality(S \cup {x}) <= Cardinality(S) + 1
<1>1. Cardinality(S) \in Nat
  BY FS_CardinalityType
<1>2. /\ IsFiniteSet(S \cup {x})
      /\ Cardinality(S \cup {x}) = IF x \in S THEN Cardinality(S) ELSE Cardinality(S) + 1
  BY FS_AddElement
<1>3. Cardinality(S) <= Cardinality(S) + 1
  BY <1>1
<1>4. CASE x \in S
  BY <1>2, <1>3, <1>4
<1>5. CASE x \notin S
  BY <1>1, <1>2, <1>5
<1>6. QED
  BY <1>4, <1>5

\* A spawn finds room among the counted terminals, and so among the shells that run.
LEMMA SpawnWithinLimit ==
  ASSUME TypeOK, Base, OccupiedWithinLimit, NEW t \in Terminal, NEW k, Spawn(t, k)
  PROVE  OccupiedWithinLimit'
<1>1. service = "ready" /\ Cardinality(Counted) < MaxTerminals
  BY DEF Spawn, MaySpawn, Serving
<1>2. Occupied' \subseteq Counted \cup {t}
  <2>1. Occupied' \subseteq Occupied \cup {t}
    BY DEF TypeOK, Spawn, Occupied, Member
  <2>2. QED
    BY <1>1, <2>1, OccupiedAreCounted
<1>3. IsFiniteSet(Counted) /\ Cardinality(Counted) \in Nat
  BY ConstantsAssumption, FS_Subset, FS_CardinalityType DEF Counted
<1>4. IsFiniteSet(Counted \cup {t}) /\ Cardinality(Counted \cup {t}) <= Cardinality(Counted) + 1
  BY <1>3, AddOne
<1>5. IsFiniteSet(Occupied') /\ Cardinality(Occupied') <= Cardinality(Counted \cup {t})
  BY <1>2, <1>4, FS_Subset
<1>6. Cardinality(Occupied') \in Nat /\ Cardinality(Counted \cup {t}) \in Nat
  BY <1>4, <1>5, FS_CardinalityType
<1>7. QED
  BY <1>1, <1>3, <1>4, <1>5, <1>6, ConstantsAssumption DEF OccupiedWithinLimit

\* Every step keeps the shells, and the launchers that can become one, within the limit.
LEMMA OccupiedStep ==
  TypeOK /\ Base /\ OccupiedWithinLimit /\ [Next]_vars => OccupiedWithinLimit'
<1> SUFFICES ASSUME TypeOK, Base, OccupiedWithinLimit, [Next]_vars PROVE OccupiedWithinLimit'
  OBVIOUS
<1>a. ASSUME UNCHANGED <<cgroup, process>> PROVE Occupied' \subseteq Occupied
  BY <1>a DEF Occupied, Member
<1>b. ASSUME NEW ts, Killed(ts), UNCHANGED cgroup PROVE Occupied' \subseteq Occupied
  BY <1>b, KilledKeepsMembers DEF Occupied, Process
<1>c. ASSUME NEW t \in Terminal, NEW k, Spawn(t, k) PROVE OccupiedWithinLimit'
  BY <1>c, SpawnWithinLimit
<1>1. ASSUME NEW t \in Terminal, Join(t) PROVE Occupied' \subseteq Occupied
  BY <1>1 DEF TypeOK, Occupied, Member, Process, Join
<1>2. ASSUME NEW t \in Terminal, NEW p \in Process, Exit(t, p) PROVE Occupied' \subseteq Occupied
  BY <1>2 DEF TypeOK, Occupied, Member, Process, Exit, osVars
<1>3. ASSUME NEW t \in Terminal, NEW p \in Process, NEW job \in Job, Fork(t, p, job)
      PROVE  Occupied' \subseteq Occupied
  BY <1>3, ConstantsAssumption DEF TypeOK, Occupied, Member, Process, Fork
<1>4. ASSUME NEW t \in Terminal, Data(t) \/ ExitSeen(t) \/ Write(t) \/ Signal(t) \/ Resize(t) \/
             GrowIdle(t) \/ Poll(t) \/ GiveUp(t)
      PROVE  Occupied' \subseteq Occupied
  BY <1>4, <1>a DEF Data, ExitSeen, Write, Signal, Resize, Use, GrowIdle, Poll, GiveUp, osVars
<1>5. ASSUME NEW t \in Terminal, NEW r \in Reader, NEW cursor, Output(r, t, cursor)
      PROVE  Occupied' \subseteq Occupied
  BY <1>5, <1>a DEF Output, osVars
<1>6. ASSUME NEW r \in Reader, OutputTimeout(r) PROVE Occupied' \subseteq Occupied
  BY <1>6, <1>a DEF OutputTimeout, osVars
<1>7. ASSUME NEW t \in Terminal, NEW k, SpawnFails(t, k) PROVE Occupied' \subseteq Occupied
  BY <1>7 DEF TypeOK, Base, UndrawnIsEmpty, Occupied, Member, Process, SpawnFails, MaySpawn
<1>8. ASSUME NEW t \in Terminal, Close(t) PROVE Occupied' \subseteq Occupied
  BY <1>8, <1>b DEF Close, CloseAll
<1>9. ASSUME Reap \/ Stop PROVE Occupied' \subseteq Occupied
  BY <1>9, <1>b DEF Reap, Stop, CloseAll
<1>10. ASSUME NEW t \in Terminal, Remove(t) PROVE Occupied' \subseteq Occupied
  BY <1>10 DEF TypeOK, Occupied, Member, Process, Remove
<1>11. ASSUME NEW t \in Terminal, CleanupStale(t) PROVE Occupied' \subseteq Occupied
  BY <1>11, <1>b DEF CleanupStale
<1>12. ASSUME Ready \/ Unavailable \/ Start \/ ProcessEnds PROVE Occupied' \subseteq Occupied
  BY <1>12, <1>a DEF Ready, Unavailable, Start, ProcessEnds, osVars
<1>13. CASE UNCHANGED vars
  BY <1>13, <1>a, FewerOccupied DEF vars
<1>14. QED
  BY FewerOccupied, <1>c, <1>1, <1>2, <1>3, <1>4, <1>5, <1>6, <1>7, <1>8, <1>9, <1>10, <1>11,
     <1>12, <1>13 DEF Next, Crash, StopDone

----
\* The inductive invariant holds in every reachable state.
THEOREM Invariant == Spec => []IInv
<1>1. Init => IInv
  BY InitEstablishes
<1>2. IInv /\ [Next]_vars => IInv'
  BY TypeStep, BaseStep, WakeupStep, OccupiedStep DEF IInv
<1>3. QED
  BY <1>1, <1>2, PTL DEF Spec

\* Every variable keeps its type.
THEOREM TypeCorrect == Spec => []TypeOK
<1>1. IInv => TypeOK
  BY DEF IInv
<1>2. QED
  BY <1>1, Invariant, PTL

\* A terminal that is closed has no process left and its cgroup is gone (service.js:78-87,
\* cgroup.js:84-104).
THEOREM ClosedTerminalsAreGone == Spec => []ClosedMeansGone
<1>1. IInv => ClosedMeansGone
  BY DEF IInv, Base, ClosedIsRemoved, MembersHaveACgroup, ClosedMeansGone
<1>2. QED
  BY <1>1, Invariant, PTL

\* A parked long poll has nothing to read and its terminal runs (service.js:52-72).
THEOREM WakeupsAreNotLost == Spec => []NoLostWakeup
<1>1. IInv => NoLostWakeup
  BY DEF IInv
<1>2. QED
  BY <1>1, Invariant, PTL

\* While the service serves, every process in a cgroup belongs to a terminal it knows
\* (cgroup.js:65-69, 106-113).
THEOREM ServiceStartsClean == Spec => []ReadyMeansClean
<1>1. IInv => ReadyMeansClean
  <2> SUFFICES ASSUME IInv, service = "ready", NEW t \in Terminal, Populated(t) PROVE t \in InMap
    BY DEF ReadyMeansClean
  <2>1. cgroup[t] = "present"
    BY DEF IInv, Base, MembersHaveACgroup
  <2>2. ~ \A p \in Process : process[t][p] = "none"
    BY DEF Populated, Member
  <2>3. QED
    BY <2>1, <2>2 DEF IInv, Base, CgroupsAreKnown
<1>2. QED
  BY <1>1, Invariant, PTL

\* No more shells run than the limit allows, in every order of spawns, exits, failed closes,
\* crashes and restarts (service.js:35).
THEOREM LimitKept == Spec => []ShellsWithinLimit
<1>1. IInv => ShellsWithinLimit
  <2> SUFFICES ASSUME IInv PROVE ShellsWithinLimit
    OBVIOUS
  <2> DEFINE Shells == {t \in Terminal : Member(t, Shell)}
  <2>1. IsFiniteSet(Occupied) /\ Shells \subseteq Occupied
    BY ConstantsAssumption, FS_Subset DEF Occupied
  <2>2. /\ Cardinality(Shells) <= Cardinality(Occupied)
        /\ Cardinality(Shells) \in Nat /\ Cardinality(Occupied) \in Nat
    BY <2>1, FS_Subset, FS_CardinalityType
  <2>3. QED
    BY <2>2, ConstantsAssumption DEF IInv, OccupiedWithinLimit, ShellsWithinLimit
<1>2. QED
  BY <1>1, Invariant, PTL

====
