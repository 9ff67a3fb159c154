---- MODULE CodexMcpWorkers ----
(***************************************************************************)
(* The Codex MCP transport, gateway/src/runtime/adapters/codex-mcp.js:     *)
(* runRequest() over a pool of long-lived `codex mcp-server` processes,    *)
(* each behind a JsonRpcWorker that speaks JSON-RPC over stdio.            *)
(*                                                                         *)
(* A step is one event (a request, a line of stdout, a timer, an exit) or  *)
(* one step of a server process.  What an event resolves or rejects is     *)
(* continued by Settle before the next event: Node drains its microtasks   *)
(* between two callbacks.                                                  *)
(***************************************************************************)
EXTENDS Naturals, Sequences

CONSTANTS Request, Worker, Authority,
          NoWorker, NoAuthority, NoCall,
          MaxWire     \* bound on the lines a server has written and nobody has read

ASSUME WorkersAssumption ==
    /\ NoWorker \notin Worker
    /\ NoAuthority \notin Authority
    /\ MaxWire \in Nat

VARIABLES result,      \* state of each request's AgentResult
          verdict,     \* what the await of a request has just been resolved or rejected with
          executionContext, \* authority each request runs under
          holder,      \* the `worker` variable of each runRequest()
          answeredBy,  \* the call whose response a completed request returned
          authority,   \* authority each worker was created for, NoAuthority before it was
          ready, closed, idleWorkers,  \* workers with the flag, or in the set
          pending,     \* the one call a worker waits for
          killTimer,   \* workers whose stop() timer is armed
          proc,        \* the server process of each worker
          asked,       \* calls a server has received and not answered
          wire         \* lines of a server's stdout not yet read

requestVars == <<result, verdict, executionContext, holder, answeredBy>>
workerVars == <<authority, ready, closed, idleWorkers, pending, killTimer>>
serverVars == <<proc, asked, wire>>
vars == <<requestVars, workerVars, serverVars>>

----
Method == {"initialize", "tools/list", "tools/call"}
Call == Request \X Method        \* stands for a JSON-RPC id: ids are never reused
Failure == {"cancelled", "timeout", "error"}

\* A line is a response to a call, or something the client never accepts: malformed JSON, a
\* request of the server's own.
Broken == [call |-> NoCall, ok |-> FALSE]
Line == [call : Call, ok : BOOLEAN] \cup {Broken}

\* "dead": exited or killed, but the gateway has not seen 'close' yet.
ProcState == {"none", "alive", "dead", "reaped"}

TypeOK ==
    /\ result \in [Request -> {"idle", "pending", "completed"} \cup Failure]
    /\ verdict \in [Request -> {"none", "completed"} \cup Failure]
    /\ executionContext \in [Request -> Authority \cup {NoAuthority}]
    /\ holder \in [Request -> Worker \cup {NoWorker}]
    /\ answeredBy \in [Request -> Call \cup {NoCall}]
    /\ authority \in [Worker -> Authority \cup {NoAuthority}]
    /\ ready \subseteq Worker
    /\ closed \subseteq Worker
    /\ idleWorkers \subseteq Worker
    /\ pending \in [Worker -> Call \cup {NoCall}]
    /\ killTimer \subseteq Worker
    /\ proc \in [Worker -> ProcState]
    /\ asked \in [Worker -> SUBSET Call]
    /\ wire \in [Worker -> Seq(Line)]

Init ==
    /\ result = [r \in Request |-> "idle"]
    /\ verdict = [r \in Request |-> "none"]
    /\ executionContext = [r \in Request |-> NoAuthority]
    /\ holder = [r \in Request |-> NoWorker]
    /\ answeredBy = [r \in Request |-> NoCall]
    /\ authority = [w \in Worker |-> NoAuthority]
    /\ ready = {}
    /\ closed = {}
    /\ idleWorkers = {}
    /\ pending = [w \in Worker |-> NoCall]
    /\ killTimer = {}
    /\ proc = [w \in Worker |-> "none"]
    /\ asked = [w \in Worker |-> {}]
    /\ wire = [w \in Worker |-> <<>>]

Caller(w) == pending[w][1]
Created == {w \in Worker : authority[w] # NoAuthority}
Running(w) == proc[w] = "alive"

\* The next event is taken only when every continuation has run.
MicrotasksDone == \A r \in Request : verdict[r] = "none"

----
(* JsonRpcWorker *)

\* By itself or by terminate("SIGKILL").  A SIGTERM leaves no trace here: the server may exit, as
\* it always may, or ignore it.
ProcessEnds(w) ==
    /\ proc' = [proc EXCEPT ![w] = IF Running(w) THEN "dead" ELSE proc[w]]
    /\ asked' = [asked EXCEPT ![w] = {}]

\* The pending call, if any, is rejected, and with it the await of its request.
RejectNobody(w, why) == verdict
Reject(w, why) ==
    IF pending[w] = NoCall THEN verdict ELSE [verdict EXCEPT ![Caller(w)] = why]

\* _close: once per worker.
CloseWorker(w, why) ==
    /\ closed' = closed \cup {w}
    /\ ready' = ready \ {w}
    /\ idleWorkers' = idleWorkers \ {w}
    /\ verdict' = Reject(w, why)
    /\ pending' = [pending EXCEPT ![w] = NoCall]
    /\ killTimer' = (IF w \in closed THEN killTimer ELSE killTimer \ {w})

\* request(): the call is pending until its response, its timer or the end of the worker.
SendCall(w, r, method) ==
    /\ pending' = [pending EXCEPT ![w] = <<r, method>>]
    /\ asked' = [asked EXCEPT ![w] = @ \cup {<<r, method>>}]

----
(* runRequest *)

ReusableByAnyone(a) == idleWorkers
Reusable(a) == {w \in idleWorkers : authority[w] = a /\ w \in ready \ closed}

\* createReadyWorker finds an idle worker of the same authority: the tool is called at once.
ReuseWorkerShared(r, a) ==
    /\ MicrotasksDone
    /\ result[r] = "idle"
    /\ \E w \in Reusable(a) :
        /\ holder' = [holder EXCEPT ![r] = w]
        /\ SendCall(w, r, "tools/call")
    /\ result' = [result EXCEPT ![r] = "pending"]
    /\ executionContext' = [executionContext EXCEPT ![r] = a]
    /\ UNCHANGED <<verdict, answeredBy, authority, ready, closed, idleWorkers, killTimer, proc, wire>>
ReuseWorker(r, a) ==
    /\ MicrotasksDone
    /\ result[r] = "idle"
    /\ \E w \in Reusable(a) :
        /\ idleWorkers' = idleWorkers \ {w}
        /\ holder' = [holder EXCEPT ![r] = w]
        /\ SendCall(w, r, "tools/call")
    /\ result' = [result EXCEPT ![r] = "pending"]
    /\ executionContext' = [executionContext EXCEPT ![r] = a]
    /\ UNCHANGED <<verdict, answeredBy, authority, ready, closed, killTimer, proc, wire>>

\* Otherwise it starts one: the process may fail to spawn, and 'error' will tell.
StartWorker(r, a) ==
    /\ MicrotasksDone
    /\ result[r] = "idle"
    /\ Reusable(a) = {}
    /\ \E w \in Worker \ Created :
        /\ authority' = [authority EXCEPT ![w] = a]
        /\ holder' = [holder EXCEPT ![r] = w]
        /\ SendCall(w, r, "initialize")
        /\ \E spawned \in {"none", "alive"} : proc' = [proc EXCEPT ![w] = spawned]
    /\ result' = [result EXCEPT ![r] = "pending"]
    /\ executionContext' = [executionContext EXCEPT ![r] = a]
    /\ UNCHANGED <<verdict, answeredBy, ready, closed, idleWorkers, killTimer, wire>>

\* `pending` is looked up by the id of the response.
MatchesAnyCall(w, line) == line.call # NoCall /\ pending[w] # NoCall
Matches(w, line) == line.call # NoCall /\ line.call = pending[w]

\* The response the pending call waits for: initialize and tools/list go on to the next call,
\* a tool result ends the request.
Answered(w, line) ==
    /\ Matches(w, line)
    /\ LET r == Caller(w) IN
        \/ /\ line.ok /\ pending[w][2] = "initialize"
           /\ SendCall(w, r, "tools/list")
           /\ UNCHANGED <<verdict, answeredBy, ready>>
        \/ /\ line.ok /\ pending[w][2] = "tools/list"
           /\ SendCall(w, r, "tools/call")
           /\ ready' = ready \cup {w}
           /\ UNCHANGED <<verdict, answeredBy>>
        \/ /\ line.ok /\ pending[w][2] = "tools/call"
           /\ verdict' = [verdict EXCEPT ![r] = "completed"]
           /\ answeredBy' = [answeredBy EXCEPT ![r] = line.call]
           /\ pending' = [pending EXCEPT ![w] = NoCall]
           /\ UNCHANGED <<asked, ready>>
        \/ /\ ~line.ok
           /\ verdict' = [verdict EXCEPT ![r] = "error"]
           /\ pending' = [pending EXCEPT ![w] = NoCall]
           /\ UNCHANGED <<asked, ready, answeredBy>>
    /\ UNCHANGED <<closed, idleWorkers, killTimer, proc>>

\* Anything else ends the worker with SIGKILL, on a worker that is already closed too.
NotExpected(w, line) ==
    /\ ~Matches(w, line)
    /\ CloseWorker(w, "error")
    /\ ProcessEnds(w)
    /\ UNCHANGED answeredBy

\* A chunk may hold several lines: they are handled before the continuation of the first runs.
Deliver(w) ==
    /\ \A r \in Request : verdict[r] # "none" => holder[r] = w
    /\ wire[w] # <<>>
    /\ wire' = [wire EXCEPT ![w] = Tail(@)]
    /\ Answered(w, Head(wire[w])) \/ NotExpected(w, Head(wire[w]))
    /\ UNCHANGED <<result, executionContext, holder, authority>>

\* worker.cancel(): stop() closes the worker, sends SIGTERM and arms the kill timer.
StopWorker(w, why) ==
    /\ closed' = closed \cup {w}
    /\ ready' = ready \ {w}
    /\ idleWorkers' = idleWorkers \ {w}
    /\ verdict' = Reject(w, why)
    /\ pending' = [pending EXCEPT ![w] = NoCall]
    /\ killTimer' = killTimer \cup {w}

\* cancel() has no check of its own that the request is still running: the gateway reaches it
\* through the slot, which is gone by then.
CancelRun(r) ==
    /\ MicrotasksDone
    /\ result[r] = "pending"
    /\ StopWorker(holder[r], "cancelled")
    /\ UNCHANGED <<result, executionContext, holder, answeredBy, authority, serverVars>>

\* The timer of runRequest().
TimeoutRun(r) ==
    /\ MicrotasksDone
    /\ result[r] = "pending"
    /\ holder[r] \notin closed
    /\ StopWorker(holder[r], "timeout")
    /\ UNCHANGED <<result, executionContext, holder, answeredBy, authority, serverVars>>

\* The timer of one JSON-RPC call, which leaves the worker open.
TimeoutCall(w) ==
    /\ MicrotasksDone
    /\ pending[w] # NoCall
    /\ verdict' = Reject(w, "timeout")
    /\ pending' = [pending EXCEPT ![w] = NoCall]
    /\ UNCHANGED <<result, executionContext, holder, answeredBy, authority, ready, closed,
                   idleWorkers, killTimer, serverVars>>

\* The write callback reports that the server is gone before 'close' does.  The stream also emits
\* an 'error' that nobody listens to, which may end the gateway: what follows then is left out.
WriteFailed(w) ==
    /\ MicrotasksDone
    /\ pending[w] # NoCall
    /\ proc[w] = "dead"
    /\ verdict' = Reject(w, "error")
    /\ pending' = [pending EXCEPT ![w] = NoCall]
    /\ UNCHANGED <<result, executionContext, holder, answeredBy, authority, ready, closed,
                   idleWorkers, killTimer, serverVars>>

\* 'error' of a process that did not start, or 'close' of one that has gone and been read out.
ExitSeen(w) ==
    /\ MicrotasksDone
    /\ w \in Created
    /\ \/ proc[w] = "none" /\ w \notin closed /\ UNCHANGED proc
       \/ proc[w] = "dead" /\ wire[w] = <<>> /\ proc' = [proc EXCEPT ![w] = "reaped"]
    /\ CloseWorker(w, "error")
    /\ UNCHANGED <<result, executionContext, holder, answeredBy, authority, asked, wire>>

\* CANCEL_GRACE_MS after stop().  _close clears the timer only the first time, so it may fire
\* when the process has long been reaped.
KillTimerSigterm(w) ==
    /\ MicrotasksDone
    /\ w \in killTimer
    /\ killTimer' = killTimer \ {w}
    /\ UNCHANGED <<requestVars, authority, ready, closed, idleWorkers, pending, serverVars>>
KillTimer(w) ==
    /\ MicrotasksDone
    /\ w \in killTimer
    /\ killTimer' = killTimer \ {w}
    /\ ProcessEnds(w)
    /\ UNCHANGED <<requestVars, authority, ready, closed, idleWorkers, pending, wire>>

\* releaseReadyWorker: the worker of a completed request becomes idle if it still can serve.
ReleaseWorker(w) ==
    /\ idleWorkers' = (IF w \in ready \ closed THEN idleWorkers \cup {w} ELSE idleWorkers)
    /\ UNCHANGED <<ready, closed, pending, killTimer>>

\* The continuation of the await: the result is built and the `finally` block disposes of the
\* worker, which is recycled unless the request completed.
Settle(r) ==
    /\ verdict[r] # "none"
    /\ result' = [result EXCEPT ![r] = verdict[r]]
    /\ \/ /\ verdict[r] = "completed"
          /\ verdict' = [verdict EXCEPT ![r] = "none"]
          /\ ReleaseWorker(holder[r])
       \/ /\ verdict[r] # "completed"
          /\ verdict' = [verdict EXCEPT ![r] = "none"]
          /\ closed' = closed \cup {holder[r]}
          /\ ready' = ready \ {holder[r]}
          /\ idleWorkers' = idleWorkers \ {holder[r]}
          /\ pending' = [pending EXCEPT ![holder[r]] = NoCall]
          /\ killTimer' = killTimer \cup {holder[r]}
    /\ UNCHANGED <<executionContext, holder, answeredBy, authority, serverVars>>

----
(* The server process, `codex mcp-server` *)

Write(w, line) ==
    /\ Running(w)
    /\ Len(wire[w]) < MaxWire
    /\ wire' = [wire EXCEPT ![w] = Append(@, line)]

\* It answers a call it was asked.
Answer(w) ==
    /\ \E call \in asked[w], ok \in BOOLEAN :
        /\ Write(w, [call |-> call, ok |-> ok])
        /\ asked' = [asked EXCEPT ![w] = @ \ {call}]
    /\ UNCHANGED <<requestVars, workerVars, proc>>

\* It writes what it should not: a second answer to a call of its past, or a broken line.
Misbehave(w) ==
    /\ \/ Write(w, Broken)
       \/ \E r \in Request : holder[r] = w /\ Write(w, [call |-> <<r, "tools/call">>, ok |-> TRUE])
    /\ UNCHANGED <<requestVars, workerVars, proc, asked>>

Exit(w) ==
    /\ Running(w)
    /\ ProcessEnds(w)
    /\ UNCHANGED <<requestVars, workerVars, wire>>

Next ==
    \/ \E r \in Request :
        \/ \E a \in Authority : ReuseWorker(r, a) \/ StartWorker(r, a)
        \/ CancelRun(r) \/ TimeoutRun(r) \/ Settle(r)
    \/ \E w \in Worker :
        \/ Deliver(w) \/ TimeoutCall(w) \/ WriteFailed(w) \/ ExitSeen(w) \/ KillTimer(w)
        \/ Answer(w) \/ Misbehave(w) \/ Exit(w)

Spec == Init /\ [][Next]_vars

\* The loop serves its microtasks, timers and child events.  A server promises nothing, not even
\* to heed SIGTERM.
FairSpec ==
    /\ Spec
    /\ \A r \in Request : WF_vars(Settle(r)) /\ WF_vars(TimeoutRun(r))
    /\ \A w \in Worker :
        WF_vars(Deliver(w)) /\ WF_vars(ExitSeen(w)) /\ WF_vars(KillTimer(w))

----
(* Properties *)

Pending(r) == result[r] = "pending"

\* A server works for one request at a time, and an idle one for none and could still serve:
\* reuse, cancel and timeout of one request never reach the call of another, and what failed is
\* not handed on (createReadyWorker, releaseReadyWorker, the `finally`).
OneRequestPerWorker ==
    /\ \A q, r \in Request :
        Pending(r) =>
            /\ holder[r] \notin idleWorkers
            /\ Pending(q) /\ holder[q] = holder[r] => q = r
            /\ LET w == holder[r] IN pending[w] # NoCall => Caller(w) = r
    /\ \A w \in idleWorkers : w \in ready \ closed /\ pending[w] = NoCall

\* "MCP workers are reused only for the same authority context" (docs/deployment.md:547).
OwnAuthority == \A r \in Request : Pending(r) => authority[holder[r]] = executionContext[r]

\* A completed request returns the response to its own tool call, whatever the server repeats
\* of earlier requests on a reused worker (pending is keyed by id, codex-mcp.js:287).
AnswersOwnCall ==
    \A r \in Request : result[r] = "completed" => answeredBy[r] = <<r, "tools/call">>

\* A worker that is closed gets rid of its server, even one that ignores SIGTERM.
ClosedServersExit == \A w \in Worker : w \in closed ~> proc[w] \in {"none", "dead", "reaped"}

\* Each request is an agent run, and one that ends: a server that hangs is timed out.
Runs == INSTANCE AgentRun WITH
    Run <- Request,
    agent <- [r \in Request |->
        IF result[r] = "idle" THEN "idle"
        ELSE IF ~Pending(r) THEN "settled"
        ELSE IF verdict[r] = "cancelled" THEN "stopping" ELSE "running"],
    outcome <- [r \in Request |->
        IF result[r] \in {"idle", "pending"} THEN "no_outcome"
        ELSE IF result[r] = "completed" THEN "done"
        ELSE IF result[r] = "cancelled" THEN "cancelled" ELSE "error"]

ImplementsAgentRun == Runs!FairSpec

====
