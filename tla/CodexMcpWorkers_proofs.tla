---- MODULE CodexMcpWorkers_proofs ----
(***************************************************************************)
(* Theorems about CodexMcpWorkers, for any number of requests, servers and *)
(* authorities, and any bound on the unread lines.                         *)
(***************************************************************************)
EXTENDS CodexMcpWorkers, TLAPS

\* A request that runs holds a worker of its authority, which nobody can be handed meanwhile.
RunsOnItsWorker ==
  \A r \in Request : Pending(r) =>
    /\ holder[r] \in Worker \ idleWorkers
    /\ executionContext[r] \in Authority
    /\ authority[holder[r]] = executionContext[r]

HoldersDiffer ==
  \A q, r \in Request : Pending(q) /\ Pending(r) /\ holder[q] = holder[r] => q = r

\* A worker waits for a call only on behalf of the request that holds it, which still waits.
CallsAreHeld ==
  \A w \in Worker : pending[w] # NoCall =>
    /\ Pending(Caller(w))
    /\ holder[Caller(w)] = w
    /\ verdict[Caller(w)] = "none"

\* Only an await of a running request is resolved.
VerdictsArePending ==
  \A r \in Request : verdict[r] # "none" => Pending(r)

IdleIsFree ==
  \A w \in idleWorkers : w \in ready \ closed /\ pending[w] = NoCall /\ w \in Created

VerdictsAreOwn ==
  \A r \in Request : "completed" \in {verdict[r], result[r]} => answeredBy[r] = <<r, "tools/call">>

Core ==
  /\ RunsOnItsWorker
  /\ HoldersDiffer
  /\ CallsAreHeld
  /\ VerdictsArePending
  /\ IdleIsFree
  /\ VerdictsAreOwn

IInv == TypeOK /\ Core

----
\* The initial state satisfies the invariant.
LEMMA InitEstablishes == Init => IInv
<1> SUFFICES ASSUME Init PROVE IInv
  OBVIOUS
<1>1. TypeOK
  BY DEF Init, TypeOK, ProcState
<1>2. Core
  BY DEF Init, Core, RunsOnItsWorker, HoldersDiffer, CallsAreHeld, VerdictsArePending, IdleIsFree,
         VerdictsAreOwn, Pending
<1>3. QED
  BY <1>1, <1>2 DEF IInv

\* What a worker is rejected with goes to the request that called.
LEMMA RejectTypes ==
  ASSUME TypeOK, NEW w \in Worker, NEW why \in Failure
  PROVE  Reject(w, why) \in [Request -> {"none", "completed"} \cup Failure]
  BY DEF TypeOK, Reject, Caller, Call

\* A step that sends a call keeps the types of what the worker and its server know of it.
LEMMA SendTypes ==
  ASSUME TypeOK, NEW w \in Worker, NEW r \in Request, NEW method \in Method, SendCall(w, r, method)
  PROVE  /\ pending' \in [Worker -> Call \cup {NoCall}]
         /\ asked' \in [Worker -> SUBSET Call]
<1>1. <<r, method>> \in Call
  BY DEF Call
<1>2. QED
  BY <1>1 DEF TypeOK, SendCall

\* The same for the end of a server process.
LEMMA EndTypes ==
  ASSUME TypeOK, NEW w \in Worker, ProcessEnds(w)
  PROVE  /\ proc' \in [Worker -> ProcState]
         /\ asked' \in [Worker -> SUBSET Call]
  BY DEF TypeOK, ProcessEnds, ProcState

\* The same for a line that a server writes.
LEMMA WriteTypes ==
  ASSUME TypeOK, NEW w \in Worker, NEW line \in Line, Write(w, line)
  PROVE  wire' \in [Worker -> Seq(Line)]
  BY DEF TypeOK, Write

\* The same for the lines that the client reads.
LEMMA DeliverTypes ==
  ASSUME TypeOK, NEW w \in Worker, Deliver(w)
  PROVE  TypeOK'
<1> DEFINE line == Head(wire[w])
<1>1. line \in Line /\ wire' \in [Worker -> Seq(Line)]
  BY DEF TypeOK, Deliver
<1>2. CASE Answered(w, line)
  <2>1. line.call \in Call /\ pending[w] = line.call /\ Caller(w) \in Request
    BY <1>1, <1>2 DEF Answered, Matches, Line, Broken, Caller, Call
  <2>2. QED
    <3>1. CASE SendCall(w, Caller(w), "tools/list") /\ UNCHANGED <<verdict, answeredBy, ready>>
      BY <1>1, <1>2, <2>1, <3>1, SendTypes DEF TypeOK, Deliver, Answered, Method
    <3>2. CASE /\ SendCall(w, Caller(w), "tools/call") /\ ready' = ready \cup {w}
               /\ UNCHANGED <<verdict, answeredBy>>
      BY <1>1, <1>2, <2>1, <3>2, SendTypes DEF TypeOK, Deliver, Answered, Method
    <3>3. CASE /\ verdict' = [verdict EXCEPT ![Caller(w)] = "completed"]
               /\ answeredBy' = [answeredBy EXCEPT ![Caller(w)] = line.call]
               /\ pending' = [pending EXCEPT ![w] = NoCall]
               /\ UNCHANGED <<asked, ready>>
      BY <1>1, <1>2, <2>1, <3>3 DEF TypeOK, Deliver, Answered
    <3>4. CASE /\ verdict' = [verdict EXCEPT ![Caller(w)] = "error"]
               /\ pending' = [pending EXCEPT ![w] = NoCall]
               /\ UNCHANGED <<asked, ready, answeredBy>>
      BY <1>1, <1>2, <2>1, <3>4 DEF TypeOK, Deliver, Answered, Failure
    <3>5. QED
      BY <1>2, <3>1, <3>2, <3>3, <3>4 DEF Answered
<1>3. CASE NotExpected(w, line)
  <2>1. verdict' \in [Request -> {"none", "completed"} \cup Failure]
    BY <1>3, RejectTypes DEF NotExpected, CloseWorker, Failure
  <2>2. QED
    BY <1>1, <1>3, <2>1, EndTypes DEF TypeOK, Deliver, NotExpected, CloseWorker
<1>4. QED
  BY <1>2, <1>3 DEF Deliver

\* The same for worker.cancel().
LEMMA StopTypes ==
  ASSUME TypeOK, NEW w \in Worker, NEW why \in Failure, StopWorker(w, why)
  PROVE  /\ verdict' \in [Request -> {"none", "completed"} \cup Failure]
         /\ pending' \in [Worker -> Call \cup {NoCall}]
         /\ closed' \subseteq Worker /\ ready' \subseteq Worker
         /\ idleWorkers' \subseteq Worker /\ killTimer' \subseteq Worker
  BY RejectTypes DEF TypeOK, StopWorker

\* Every step keeps the types.
LEMMA TypeStep == IInv /\ [Next]_vars => TypeOK'
<1> SUFFICES ASSUME TypeOK, Core, [Next]_vars PROVE TypeOK'
  BY DEF IInv
<1> USE DEF requestVars, workerVars, serverVars
<1>1. ASSUME NEW r \in Request, NEW a \in Authority, ReuseWorker(r, a) PROVE TypeOK'
  <2>1. PICK w \in Reusable(a) : /\ idleWorkers' = idleWorkers \ {w}
                                 /\ holder' = [holder EXCEPT ![r] = w]
                                 /\ SendCall(w, r, "tools/call")
    BY <1>1 DEF ReuseWorker
  <2>2. w \in Worker
    BY DEF Reusable, TypeOK
  <2>3. QED
    BY <1>1, <2>1, <2>2, SendTypes DEF TypeOK, ReuseWorker, Method
<1>2. ASSUME NEW r \in Request, NEW a \in Authority, StartWorker(r, a) PROVE TypeOK'
  <2>1. PICK w \in Worker : /\ authority' = [authority EXCEPT ![w] = a]
                            /\ holder' = [holder EXCEPT ![r] = w]
                            /\ SendCall(w, r, "initialize")
                            /\ \E spawned \in {"none", "alive"} : proc' = [proc EXCEPT ![w] = spawned]
    BY <1>2 DEF StartWorker
  <2>2. QED
    BY <1>2, <2>1, SendTypes DEF TypeOK, StartWorker, Method, ProcState
<1>3. ASSUME NEW r \in Request, CancelRun(r) \/ TimeoutRun(r) PROVE TypeOK'
  <2>1. holder[r] \in Worker
    BY <1>3 DEF Core, RunsOnItsWorker, CancelRun, TimeoutRun, Pending
  <2>2. QED
    BY <1>3, <2>1, StopTypes DEF TypeOK, CancelRun, TimeoutRun, Failure
<1>4. ASSUME NEW r \in Request, Settle(r) PROVE TypeOK'
  <2>1. holder[r] \in Worker /\ verdict[r] \in {"completed"} \cup Failure
    BY <1>4 DEF TypeOK, Core, RunsOnItsWorker, VerdictsArePending, Settle
  <2>2. CASE verdict[r] = "completed"
    BY <1>4, <2>1, <2>2 DEF TypeOK, Settle, ReleaseWorker
  <2>3. CASE verdict[r] # "completed"
    BY <1>4, <2>1, <2>3 DEF TypeOK, Settle
  <2>4. QED
    BY <2>2, <2>3
<1>5. ASSUME NEW w \in Worker, Deliver(w) PROVE TypeOK'
  BY <1>5, DeliverTypes
<1>6. ASSUME NEW w \in Worker, TimeoutCall(w) \/ WriteFailed(w) PROVE TypeOK'
  BY <1>6, RejectTypes DEF TypeOK, TimeoutCall, WriteFailed, Failure
<1>7. ASSUME NEW w \in Worker, ExitSeen(w) PROVE TypeOK'
  BY <1>7, RejectTypes DEF TypeOK, ExitSeen, CloseWorker, Failure, ProcState
<1>8. ASSUME NEW w \in Worker, KillTimer(w) \/ Exit(w) PROVE TypeOK'
  BY <1>8, EndTypes DEF TypeOK, KillTimer, Exit
<1>9. ASSUME NEW w \in Worker, Answer(w) PROVE TypeOK'
  <2>1. PICK call \in asked[w], ok \in BOOLEAN :
          /\ Write(w, [call |-> call, ok |-> ok])
          /\ asked' = [asked EXCEPT ![w] = @ \ {call}]
    BY <1>9 DEF Answer
  <2>2. [call |-> call, ok |-> ok] \in Line /\ asked' \in [Worker -> SUBSET Call]
    BY <2>1 DEF TypeOK, Line
  <2>3. QED
    BY <1>9, <2>1, <2>2, WriteTypes DEF TypeOK, Answer
<1>10. ASSUME NEW w \in Worker, Misbehave(w) PROVE TypeOK'
  <2>1. PICK line \in Line : Write(w, line)
    BY <1>10 DEF Misbehave, Line, Call, Method
  <2>2. QED
    BY <1>10, <2>1, WriteTypes DEF TypeOK, Misbehave
<1>11. CASE UNCHANGED vars
  BY <1>11 DEF TypeOK, vars
<1>12. QED
  BY <1>1, <1>2, <1>3, <1>4, <1>5, <1>6, <1>7, <1>8, <1>9, <1>10, <1>11 DEF Next

----
\* A step that concerns neither the requests nor who may have which worker keeps the invariant.
LEMMA NothingTouched ==
  ASSUME Core, UNCHANGED <<requestVars, authority, ready, closed, idleWorkers, pending>>
  PROVE  Core'
  BY DEF Core, requestVars, RunsOnItsWorker, HoldersDiffer, CallsAreHeld, VerdictsArePending,
         IdleIsFree, VerdictsAreOwn, Pending, Caller, Created

\* A worker that loses its call, be it closed or not, keeps the invariant: the rejection reaches
\* the request that holds it, or nobody.
LEMMA CallLost ==
  ASSUME IInv, NEW w \in Worker, NEW why \in Failure,
         verdict' = Reject(w, why),
         pending' = [pending EXCEPT ![w] = NoCall],
         \A v \in idleWorkers' : v \in idleWorkers /\ v \in ready' \ closed',
         UNCHANGED <<result, executionContext, holder, answeredBy, authority>>
  PROVE  Core'
<1> USE DEF IInv, TypeOK, Core, Pending
<1>1. RunsOnItsWorker' /\ HoldersDiffer'
  BY DEF RunsOnItsWorker, HoldersDiffer
<1>2. CASE pending[w] = NoCall
  <2>1. verdict' = verdict /\ pending' = pending
    BY <1>2 DEF Reject
  <2>2. QED
    BY <1>1, <2>1 DEF CallsAreHeld, VerdictsArePending, IdleIsFree, VerdictsAreOwn, Caller, Created
<1>3. CASE pending[w] # NoCall
  <2> DEFINE r == Caller(w)
  <2>1. /\ r \in Request /\ Pending(r) /\ holder[r] = w /\ verdict[r] = "none"
        /\ verdict' = [verdict EXCEPT ![r] = why]
    <3>1. pending[w] \in Call
      BY <1>3
    <3>2. r \in Request
      BY <3>1 DEF Caller, Call
    <3>3. QED
      BY <1>3, <3>2 DEF CallsAreHeld, Reject
  <2>2. CallsAreHeld'
    BY <2>1 DEF CallsAreHeld, Caller, Call
  <2>3. VerdictsArePending' /\ IdleIsFree'
    BY <2>1 DEF VerdictsArePending, IdleIsFree, Created
  <2>4. VerdictsAreOwn'
    BY <2>1 DEF VerdictsAreOwn, Failure
  <2>5. QED
    BY <1>1, <2>2, <2>3, <2>4
<1>4. QED
  BY <1>2, <1>3

\* So do the first steps of a request, on a worker nobody holds.
LEMMA CallSent ==
  ASSUME IInv, MicrotasksDone,
         NEW r \in Request, NEW a \in Authority, NEW w \in Worker, NEW method \in Method,
         result[r] = "idle",
         pending[w] = NoCall,
         \A q \in Request : Pending(q) => holder[q] # w,
         SendCall(w, r, method),
         result' = [result EXCEPT ![r] = "pending"],
         executionContext' = [executionContext EXCEPT ![r] = a],
         holder' = [holder EXCEPT ![r] = w],
         authority' = [authority EXCEPT ![w] = a],
         idleWorkers' = idleWorkers \ {w},
         UNCHANGED <<verdict, answeredBy, ready, closed>>
  PROVE  Core'
<1> USE DEF IInv, TypeOK, Core, Pending
<1>1. RunsOnItsWorker' /\ HoldersDiffer'
  BY DEF RunsOnItsWorker, HoldersDiffer
<1>2. CallsAreHeld'
  BY DEF CallsAreHeld, Caller, SendCall, MicrotasksDone, Call
<1>3. VerdictsArePending' /\ VerdictsAreOwn'
  BY DEF VerdictsArePending, VerdictsAreOwn
<1>4. IdleIsFree'
  BY WorkersAssumption DEF IdleIsFree, SendCall, Created
<1>5. QED
  BY <1>1, <1>2, <1>3, <1>4

\* So does the response that the pending call waits for.
LEMMA AnsweredKeeps ==
  ASSUME IInv, NEW w \in Worker, NEW line \in Line, Answered(w, line),
         UNCHANGED <<result, executionContext, holder, authority>>
  PROVE  Core'
<1> USE DEF IInv, TypeOK, Core, Pending
<1> DEFINE r == Caller(w)
<1>1. /\ r \in Request /\ Pending(r) /\ holder[r] = w /\ verdict[r] = "none"
      /\ line.call = pending[w] /\ pending[w] \in Call /\ pending[w] # NoCall
  BY DEF Answered, Matches, CallsAreHeld, Caller, Call
<1>2. w \notin idleWorkers /\ idleWorkers' = idleWorkers /\ closed' = closed
  BY <1>1 DEF Answered, IdleIsFree
<1>3. RunsOnItsWorker' /\ HoldersDiffer'
  BY <1>2 DEF RunsOnItsWorker, HoldersDiffer
<1>4. ASSUME NEW method \in Method, SendCall(w, r, method), UNCHANGED <<verdict, answeredBy>>,
             ready \subseteq ready'
      PROVE  Core'
  <2>1. CallsAreHeld'
    BY <1>1, <1>4 DEF CallsAreHeld, Caller, SendCall
  <2>2. IdleIsFree'
    BY <1>2, <1>4 DEF IdleIsFree, SendCall, Created
  <2>3. VerdictsArePending' /\ VerdictsAreOwn'
    BY <1>4 DEF VerdictsArePending, VerdictsAreOwn
  <2>4. QED
    BY <1>3, <2>1, <2>2, <2>3
<1>5. ASSUME NEW why \in {"completed", "error"},
             verdict' = [verdict EXCEPT ![r] = why],
             pending' = [pending EXCEPT ![w] = NoCall],
             ready' = ready,
             \/ why = "error" /\ answeredBy' = answeredBy
             \/ /\ answeredBy' = [answeredBy EXCEPT ![r] = line.call]
                /\ pending[w][2] = "tools/call"
      PROVE  Core'
  <2>1. CallsAreHeld'
    BY <1>1, <1>5 DEF CallsAreHeld, Caller, Call
  <2>2. IdleIsFree' /\ VerdictsArePending'
    BY <1>1, <1>2, <1>5 DEF IdleIsFree, VerdictsArePending, Created
  <2>3. pending[w] = <<r, pending[w][2]>>
    BY <1>1 DEF Caller, Call
  <2>4. VerdictsAreOwn'
    BY <1>1, <1>5, <2>3 DEF VerdictsAreOwn
  <2>5. QED
    BY <1>3, <2>1, <2>2, <2>4
<1>6. \/ SendCall(w, r, "tools/list") /\ UNCHANGED <<verdict, answeredBy, ready>>
      \/ /\ SendCall(w, r, "tools/call") /\ ready' = ready \cup {w}
         /\ UNCHANGED <<verdict, answeredBy>>
      \/ /\ pending[w][2] = "tools/call"
         /\ verdict' = [verdict EXCEPT ![r] = "completed"]
         /\ answeredBy' = [answeredBy EXCEPT ![r] = line.call]
         /\ pending' = [pending EXCEPT ![w] = NoCall]
         /\ ready' = ready
      \/ /\ verdict' = [verdict EXCEPT ![r] = "error"]
         /\ pending' = [pending EXCEPT ![w] = NoCall]
         /\ UNCHANGED <<ready, answeredBy>>
  BY DEF Answered
<1>7. QED
  BY <1>4, <1>5, <1>6 DEF Method

\* So does the end of a request, which gives its worker back or recycles it.
LEMMA SettleKeeps ==
  ASSUME IInv, NEW r \in Request, Settle(r)
  PROVE  Core'
<1> USE DEF IInv, TypeOK, Core, Pending
<1> DEFINE w == holder[r]
<1>1. /\ w \in Worker /\ Pending(r) /\ result' = [result EXCEPT ![r] = verdict[r]]
      /\ verdict' = [verdict EXCEPT ![r] = "none"]
      /\ verdict[r] \in {"completed"} \cup Failure
      /\ UNCHANGED <<executionContext, holder, answeredBy, authority>>
  BY DEF Settle, VerdictsArePending, RunsOnItsWorker
<1>2. pending[w] = NoCall
  BY <1>1 DEF CallsAreHeld, HoldersDiffer, Settle, Caller, Call
<1>3. pending' = pending
  BY <1>2 DEF Settle, ReleaseWorker
<1>4. /\ \A v \in idleWorkers' : v \in idleWorkers \/ v = w
      /\ \A v \in idleWorkers' : v \in ready' \ closed'
  BY <1>1 DEF Settle, ReleaseWorker, IdleIsFree
<1>5. ~Pending(r)'
  BY <1>1 DEF Failure
<1>6. RunsOnItsWorker' /\ HoldersDiffer'
  BY <1>1, <1>4, <1>5 DEF RunsOnItsWorker, HoldersDiffer
<1>7. CallsAreHeld'
  BY <1>1, <1>2, <1>3 DEF CallsAreHeld, HoldersDiffer, Caller, Call, Settle
<1>8. VerdictsArePending' /\ VerdictsAreOwn'
  BY <1>1 DEF VerdictsArePending, VerdictsAreOwn
<1>9. IdleIsFree'
  BY <1>1, <1>2, <1>3, <1>4, WorkersAssumption DEF IdleIsFree, RunsOnItsWorker, Created
<1>10. QED
  BY <1>6, <1>7, <1>8, <1>9

\* Every step keeps the invariant.
LEMMA StepKeeps == IInv /\ [Next]_vars => IInv'
<1> SUFFICES ASSUME IInv, [Next]_vars, TypeOK' PROVE Core'
  BY TypeStep DEF IInv
<1> USE DEF requestVars, workerVars, serverVars
<1>1. ASSUME NEW r \in Request, NEW a \in Authority, ReuseWorker(r, a) PROVE Core'
  <2>1. PICK w \in Reusable(a) : /\ idleWorkers' = idleWorkers \ {w}
                                 /\ holder' = [holder EXCEPT ![r] = w]
                                 /\ SendCall(w, r, "tools/call")
    BY <1>1 DEF ReuseWorker
  <2>2. w \in Worker /\ w \in idleWorkers /\ authority[w] = a /\ pending[w] = NoCall
    BY DEF Reusable, IInv, TypeOK, Core, IdleIsFree
  <2>3. authority' = [authority EXCEPT ![w] = a]
    BY <1>1, <2>2 DEF ReuseWorker, IInv, TypeOK
  <2>4. \A q \in Request : Pending(q) => holder[q] # w
    BY <2>2 DEF IInv, Core, RunsOnItsWorker
  <2>5. QED
    BY <1>1, <2>1, <2>2, <2>3, <2>4, CallSent DEF ReuseWorker, Method
<1>2. ASSUME NEW r \in Request, NEW a \in Authority, StartWorker(r, a) PROVE Core'
  <2>1. PICK w \in Worker \ Created : /\ authority' = [authority EXCEPT ![w] = a]
                                      /\ holder' = [holder EXCEPT ![r] = w]
                                      /\ SendCall(w, r, "initialize")
    BY <1>2 DEF StartWorker
  <2>2. \A q \in Request : Pending(q) => holder[q] # w
    BY <2>1, WorkersAssumption DEF IInv, Core, RunsOnItsWorker, Created
  <2>3. pending[w] = NoCall
    BY <2>1, <2>2 DEF IInv, TypeOK, Core, CallsAreHeld, Caller, Call
  <2>4. idleWorkers' = idleWorkers \ {w}
    BY <1>2, <2>1 DEF StartWorker, IInv, Core, IdleIsFree
  <2>5. QED
    BY <1>2, <2>1, <2>2, <2>3, <2>4, CallSent DEF StartWorker, Method
<1>3. ASSUME NEW r \in Request, CancelRun(r) \/ TimeoutRun(r) PROVE Core'
  <2>1. holder[r] \in Worker
    BY <1>3 DEF IInv, Core, RunsOnItsWorker, CancelRun, TimeoutRun, Pending
  <2>2. PICK why \in Failure : StopWorker(holder[r], why)
    BY <1>3 DEF CancelRun, TimeoutRun, Failure
  <2>3. \A v \in idleWorkers' : v \in idleWorkers /\ v \in ready' \ closed'
    BY <2>2 DEF StopWorker, IInv, Core, IdleIsFree
  <2>4. UNCHANGED <<result, executionContext, holder, answeredBy, authority>>
    BY <1>3 DEF CancelRun, TimeoutRun
  <2>5. QED
    BY <2>1, <2>2, <2>3, <2>4, CallLost DEF StopWorker
<1>4. ASSUME NEW r \in Request, Settle(r) PROVE Core'
  BY <1>4, SettleKeeps
<1>5. ASSUME NEW w \in Worker, Deliver(w) PROVE Core'
  <2> DEFINE line == Head(wire[w])
  <2>1. line \in Line /\ UNCHANGED <<result, executionContext, holder, authority>>
    BY <1>5 DEF Deliver, IInv, TypeOK
  <2>2. CASE Answered(w, line)
    BY <2>1, <2>2, AnsweredKeeps
  <2>3. CASE NotExpected(w, line)
    <3>1. \A v \in idleWorkers' : v \in idleWorkers /\ v \in ready' \ closed'
      BY <2>3 DEF NotExpected, CloseWorker, IInv, Core, IdleIsFree
    <3>2. QED
      BY <2>1, <2>3, <3>1, CallLost DEF NotExpected, CloseWorker, Failure
  <2>4. QED
    BY <1>5, <2>2, <2>3 DEF Deliver
<1>6. ASSUME NEW w \in Worker, TimeoutCall(w) \/ WriteFailed(w) PROVE Core'
  <2>1. \A v \in idleWorkers' : v \in idleWorkers /\ v \in ready' \ closed'
    BY <1>6 DEF TimeoutCall, WriteFailed, IInv, Core, IdleIsFree
  <2>2. QED
    BY <1>6, <2>1, CallLost DEF TimeoutCall, WriteFailed, Failure
<1>7. ASSUME NEW w \in Worker, ExitSeen(w) PROVE Core'
  <2>1. \A v \in idleWorkers' : v \in idleWorkers /\ v \in ready' \ closed'
    BY <1>7 DEF ExitSeen, CloseWorker, IInv, Core, IdleIsFree
  <2>2. QED
    BY <1>7, <2>1, CallLost DEF ExitSeen, CloseWorker, Failure
<1>8. ASSUME NEW w \in Worker, KillTimer(w) \/ Answer(w) \/ Misbehave(w) \/ Exit(w) PROVE Core'
  BY <1>8, NothingTouched DEF KillTimer, Answer, Misbehave, Exit, IInv
<1>9. CASE UNCHANGED vars
  BY <1>9, NothingTouched DEF vars, IInv
<1>10. QED
  BY <1>1, <1>2, <1>3, <1>4, <1>5, <1>6, <1>7, <1>8, <1>9 DEF Next

----
\* The inductive invariant holds in every reachable state.
THEOREM Invariant == Spec => []IInv
<1>1. QED
  BY InitEstablishes, StepKeeps, PTL DEF Spec

\* Every variable has its type (the pool of codex-mcp.js and its servers).
THEOREM TypeCorrect == Spec => []TypeOK
<1>1. IInv => TypeOK
  BY DEF IInv
<1>2. QED
  BY <1>1, Invariant, PTL

\* A server works for one request at a time, and an idle one for none (createReadyWorker,
\* releaseReadyWorker).
THEOREM ServesOneRequest == Spec => []OneRequestPerWorker
<1>1. IInv => OneRequestPerWorker
  BY DEF IInv, TypeOK, Core, RunsOnItsWorker, HoldersDiffer, CallsAreHeld, IdleIsFree,
         OneRequestPerWorker, Pending, Caller, Call
<1>2. QED
  BY <1>1, Invariant, PTL

\* A request runs on a server that was started for its own authority context.
THEOREM AuthorityKept == Spec => []OwnAuthority
<1>1. IInv => OwnAuthority
  BY DEF IInv, Core, RunsOnItsWorker, OwnAuthority
<1>2. QED
  BY <1>1, Invariant, PTL

\* A completed request returns the response to its own tool call.
THEOREM OwnAnswer == Spec => []AnswersOwnCall
<1>1. IInv => AnswersOwnCall
  BY DEF IInv, Core, VerdictsAreOwn, AnswersOwnCall
<1>2. QED
  BY <1>1, Invariant, PTL

----
(* Every request is an agent run. *)

\* What a step does to one request, as the gateway sees it.
Moves(r) ==
  \/ result'[r] = result[r] /\ verdict'[r] = verdict[r]
  \/ result'[r] = result[r] /\ result[r] = "pending" /\ verdict[r] = "none"
  \/ result[r] = "idle" /\ result'[r] = "pending" /\ verdict'[r] = "none"
  \/ /\ result[r] = "pending" /\ verdict[r] # "none"
     /\ result'[r] = verdict[r]

\* A rejection moves the request that holds the worker and no other.
LEMMA RejectMoves ==
  ASSUME IInv, NEW w \in Worker, NEW why \in Failure,
         verdict' = Reject(w, why), result' = result, NEW r \in Request
  PROVE  Moves(r)
<1>1. CASE pending[w] = NoCall
  BY <1>1 DEF Reject, Moves
<1>2. CASE pending[w] # NoCall
  <2>1. Pending(Caller(w)) /\ verdict[Caller(w)] = "none"
    BY <1>2 DEF IInv, Core, CallsAreHeld
  <2>2. verdict' = [verdict EXCEPT ![Caller(w)] = why]
    BY <1>2 DEF Reject
  <2>3. QED
    BY <2>1, <2>2 DEF IInv, TypeOK, Moves, Pending
<1>3. QED
  BY <1>1, <1>2

\* The same for the response of the pending call.
LEMMA AnsweredMoves ==
  ASSUME IInv, NEW w \in Worker, NEW line, Answered(w, line), result' = result, NEW r \in Request
  PROVE  Moves(r)
<1>1. Pending(Caller(w)) /\ verdict[Caller(w)] = "none"
  BY DEF Answered, Matches, IInv, Core, CallsAreHeld
<1>2. \A q \in Request : q # Caller(w) => verdict'[q] = verdict[q]
  BY DEF Answered, IInv, TypeOK
<1>3. QED
  BY <1>1, <1>2 DEF Moves, Pending

\* Every step moves every request as an agent run may move.
LEMMA StepMoves ==
  ASSUME IInv, [Next]_vars, NEW r \in Request
  PROVE  Moves(r)
<1> USE DEF requestVars, workerVars, serverVars
<1>1. ASSUME NEW q \in Request, NEW a \in Authority, ReuseWorker(q, a) \/ StartWorker(q, a)
      PROVE  Moves(r)
  BY <1>1 DEF ReuseWorker, StartWorker, MicrotasksDone, Moves, IInv, TypeOK
<1>2. ASSUME NEW q \in Request, CancelRun(q) \/ TimeoutRun(q) PROVE Moves(r)
  <2>1. holder[q] \in Worker
    BY <1>2 DEF IInv, Core, RunsOnItsWorker, CancelRun, TimeoutRun, Pending
  <2>2. QED
    BY <1>2, <2>1, RejectMoves DEF CancelRun, TimeoutRun, StopWorker, Failure
<1>3. ASSUME NEW q \in Request, Settle(q) PROVE Moves(r)
  <2>1. Pending(q) /\ verdict' = [verdict EXCEPT ![q] = "none"]
    BY <1>3 DEF Settle, IInv, Core, VerdictsArePending
  <2>2. QED
    BY <1>3, <2>1 DEF Settle, Moves, IInv, TypeOK, Pending
<1>4. ASSUME NEW w \in Worker, Deliver(w) PROVE Moves(r)
  <2>1. result' = result /\ (Answered(w, Head(wire[w])) \/ NotExpected(w, Head(wire[w])))
    BY <1>4 DEF Deliver
  <2>2. QED
    BY <2>1, AnsweredMoves, RejectMoves DEF NotExpected, CloseWorker, Failure
<1>5. ASSUME NEW w \in Worker, TimeoutCall(w) \/ WriteFailed(w) \/ ExitSeen(w) PROVE Moves(r)
  BY <1>5, RejectMoves DEF TimeoutCall, WriteFailed, ExitSeen, CloseWorker, Failure
<1>6. ASSUME NEW w \in Worker, KillTimer(w) \/ Answer(w) \/ Misbehave(w) \/ Exit(w) PROVE Moves(r)
  BY <1>6 DEF KillTimer, Answer, Misbehave, Exit, Moves
<1>7. CASE UNCHANGED vars
  BY <1>7 DEF vars, Moves
<1>8. QED
  BY <1>1, <1>2, <1>3, <1>4, <1>5, <1>6, <1>7 DEF Next

LEMMA InitRefines == Init => Runs!Init
  BY DEF Init, Runs!Init, Pending

LEMMA StepRefines ==
  ASSUME IInv, IInv', [Next]_vars
  PROVE  Runs!Next
<1> DEFINE agent(r) == IF result[r] = "idle" THEN "idle"
                       ELSE IF ~Pending(r) THEN "settled"
                       ELSE IF verdict[r] = "cancelled" THEN "stopping" ELSE "running"
           outcome(r) == IF result[r] \in {"idle", "pending"} THEN "no_outcome"
                         ELSE IF result[r] = "completed" THEN "done"
                         ELSE IF result[r] = "cancelled" THEN "cancelled" ELSE "error"
<1>1. ASSUME NEW r \in Request
      PROVE  /\ agent(r)' \in Runs!AgentState
             /\ outcome(r)' \in Runs!Outcome \cup {"no_outcome"}
  BY DEF Runs!AgentState, Runs!Outcome, Pending
<1>2. ASSUME NEW r \in Request
      PROVE  Runs!Launch(r) \/ Runs!Stop(r) \/ Runs!End(r) \/ Runs!Rest(r)
  <2>1. Moves(r)
    BY StepMoves
  <2>2. verdict[r] \in {"none", "completed"} \cup Failure
    BY DEF IInv, TypeOK
  <2>3. \/ agent(r)' = agent(r) /\ outcome(r)' = outcome(r)
        \/ agent(r) = "idle" /\ agent(r)' = "running" /\ outcome(r)' = outcome(r)
        \/ agent(r) = "running" /\ agent(r)' = "stopping" /\ outcome(r)' = outcome(r)
        \/ /\ agent(r) = "running" /\ agent(r)' = "settled"
           /\ outcome(r)' \in {"done", "error"}
        \/ /\ agent(r) = "stopping" /\ agent(r)' = "settled"
           /\ outcome(r)' \in {"cancelled", "error"}
    BY <2>1, <2>2 DEF Moves, Pending, Failure
  <2>4. QED
    BY <2>3 DEF Runs!Launch, Runs!Stop, Runs!End, Runs!Rest
<1>3. QED
  BY <1>1, <1>2 DEF Runs!Next

\* Every behaviour of the pool is one of agent runs: a request settles once, a cancelled one
\* never as a success, and only a cancelled one as cancelled.
THEOREM RequestsAreAgentRuns == Spec => Runs!Spec
<1>1. IInv /\ IInv' /\ [Next]_vars => [Runs!Next]_(Runs!agentVars)
  BY StepRefines
<1>2. QED
  BY <1>1, InitRefines, Invariant, PTL DEF Spec, Runs!Spec

====
