---- MODULE Memory ----
(***************************************************************************)
(* Calls of the memory tools, from the arguments to the answer: the memory *)
(* MCP server (pickleshell-memory-mcp/src: config.js, policy.js,           *)
(* service.js, backend.js), the broker that knows the principals           *)
(* (pickleshell-memory-broker: server.py, policy.py, management.py), and   *)
(* the backend that keeps the memories (pickleshell-memory-backend).       *)
(*                                                                         *)
(* Every server between the caller and the store has a timer of its own,   *)
(* and gives up on work that the next one goes on with.  A memory is the   *)
(* scope it belongs to and the last call that changed it; ids are never    *)
(* used again.  Strangers are connections to the broker that are not calls *)
(* of the tools: they send slowly or nothing.                              *)
(***************************************************************************)
EXTENDS Integers, FiniteSets

CONSTANTS Call, Stranger, Id,
          Requests,         \* for each call, the MCP servers it may be made to and the arguments
          Principal, Policy, Nobody, NoScope, NoClient, NoArgs, Seeds,
          MaxConnections,
          MaxStops          \* bound on restarts of the broker and the backend

VARIABLES at,        \* the caller's side: idle, waiting, returned
          client,    \* the MCP server a call is made to
          args,
          answer,    \* what the tool returned
          conn,      \* connections to the broker: none, queued, open, asked, closing, over
          slots,     \* free connection slots of the broker
          status,    \* the HTTP status sent to the MCP server
          job,       \* the request at the backend: none, arrived, checked, changed, over
          reply,     \* the HTTP status of the backend
          memories,  \* the store: the memories there are or have been
          changes,   \* what was changed: [call, scope]
          seen,      \* what was read: [call, scope]
          recorded,  \* calls in the log of the broker
          unrecorded,\* calls the broker was killed under
          stops

callVars == <<at, client, args, answer>>
brokerVars == <<conn, slots, recorded, unrecorded>>
backendVars == <<job, reply, memories, changes, seen>>
vars == <<callVars, brokerVars, status, backendVars, stops>>

NoStatus == 0
Broken == 1          \* the connection ended without an answer
NoAnswer == [ok |-> FALSE, uncertain |-> FALSE, retryable |-> FALSE]

TypeOK ==
  /\ at \in [Call -> {"idle", "waiting", "returned"}]
  /\ \A c \in Call : at[c] # "idle" => \E r \in Requests[c] : client[c] = r.by /\ args[c] = r.asks
  /\ conn \in [Call \cup Stranger -> {"none", "queued", "open", "asked", "closing", "over"}]
  /\ slots \in 0 .. MaxConnections
  /\ job \in [Call -> {"none", "arrived", "checked", "changed", "over"}]
  /\ \A i \in DOMAIN memories : memories[i].by \in Call \cup {Nobody}
  /\ recorded \subseteq Call /\ unrecorded \subseteq Call

----
(* What may be asked *)

Management == {"list_targets", "admin_search", "admin_get", "admin_delete"}
AdminOps == {"admin_search", "admin_get", "admin_delete"}
Mutations == {"add", "update", "delete", "admin_delete"}
ById == {"get", "history", "update", "delete", "admin_get", "admin_delete"}
Deletions == {"delete", "admin_delete"}

\* What loadConfig accepts.
Launches(k) ==
  /\ k.role \in {"admin", "agent"}
  /\ k.role = "agent" /\ ~k.broker => k.scope # NoScope
  /\ k.role = "admin" \/ k.broker => k.scope = NoScope
  /\ k.broker => k.role = "agent"
  /\ k.exposeAdmin => k.broker

\* What PrincipalPolicy accepts: private scopes are nobody else's, a shared target is one scope.
ValidPolicy ==
  /\ \A p, q \in Principal : p # q => Policy[p].private # Policy[q].private
  /\ \A p, q \in Principal : \A s \in DOMAIN Policy[p].shared :
       /\ Policy[p].shared[s].scope # Policy[q].private
       /\ \A t \in DOMAIN Policy[q].shared : s = t <=> Policy[p].shared[s].scope = Policy[q].shared[t].scope
  /\ \A p \in Principal : DOMAIN Policy[p].admin # {} => Policy[p].role = "admin"

ASSUME ClientAssumption ==
  \A c \in Call : \A r \in Requests[c] : Launches(r.by) /\ r.by.principal \in Principal \cup {Nobody}
ASSUME PolicyAssumption == ValidPolicy
ASSUME NamesAssumption ==
  /\ Nobody \notin Call
  /\ Call \cap Stranger = {}
  /\ MaxConnections \in Nat \ {0}
  /\ MaxStops \in Nat

\* authorize() of the MCP server: what it refuses without asking anybody.
Denied(k, a) ==
  CASE a.op \in Management -> ~k.broker \/ (a.op \in AdminOps /\ ~k.exposeAdmin) \/ a.extra # "none"
    [] OTHER -> \/ k.role = "agent" /\ (a.extra = "override" \/ (a.target # "private" /\ ~k.broker))
                \/ k.role = "admin" /\ a.user_id = NoScope
                \/ k.broker /\ a.extra # "none"

\* The scope an agent or an operator works in when there is no broker.
DirectScope(k, a) == IF k.role = "agent" THEN k.scope ELSE a.user_id

ResolveReadable(p, target, write) ==
  IF target = "private" THEN Policy[p].private
  ELSE IF target \in DOMAIN Policy[p].shared /\ Policy[p].shared[target].read
       THEN Policy[p].shared[target].scope ELSE NoScope

\* resolve() of the policy: the scope of a target, if the principal may use it so.
Resolve(p, target, write) ==
  IF target = "private" THEN Policy[p].private
  ELSE IF target \in DOMAIN Policy[p].shared /\ (IF write THEN Policy[p].shared[target].write ELSE Policy[p].shared[target].read)
       THEN Policy[p].shared[target].scope ELSE NoScope

\* The administrative grant of management.py.
Administers(p, target, delete) ==
  IF target \in DOMAIN Policy[p].admin /\ (IF delete THEN Policy[p].admin[target].delete ELSE Policy[p].admin[target].read)
  THEN Policy[p].admin[target].scope ELSE NoScope

ScopeOf(k, a) ==
  IF a.op \in {"capabilities", "list_targets"} THEN NoScope
  ELSE IF ~k.broker THEN DirectScope(k, a)
  ELSE IF a.op \in AdminOps THEN Administers(k.principal, a.target, a.op = "admin_delete")
  ELSE Resolve(k.principal, a.target, a.op \in Mutations)

\* How the broker refuses, in the order of its checks.
Refusal(k, a) ==
  IF k.principal = Nobody THEN 401
  ELSE IF a.op \in AdminOps /\ Policy[k.principal].role # "admin" THEN 403
  ELSE IF a.op \in {"capabilities", "list_targets"} THEN NoStatus
  ELSE IF a.op \in {"add", "update"} /\ a.big THEN 413
  ELSE IF ScopeOf(k, a) = NoScope THEN 403
  ELSE IF a.op = "admin_delete" /\ ~a.confirmed THEN 400
  ELSE NoStatus

----
(* The MCP server *)

Init ==
  /\ at = [c \in Call |-> "idle"]
  /\ client = [c \in Call |-> NoClient]
  /\ args = [c \in Call |-> NoArgs]
  /\ answer = [c \in Call |-> NoAnswer]
  /\ conn = [x \in Call \cup Stranger |-> "none"]
  /\ slots = MaxConnections
  /\ status = [c \in Call |-> NoStatus]
  /\ job = [c \in Call |-> "none"]
  /\ reply = [c \in Call |-> NoStatus]
  /\ memories = [i \in DOMAIN Seeds |-> [scope |-> Seeds[i], by |-> Nobody, gone |-> FALSE]]
  /\ changes = {} /\ seen = {} /\ recorded = {} /\ unrecorded = {}
  /\ stops = 0

\* The tool returns, once the call is in the audit log of the MCP server; when that fails, so it says.
Return(c, a, ok, uncertain, retryable) ==
  LET m == a.op \in Mutations IN
  /\ at' = [at EXCEPT ![c] = "returned"]
  /\ \/ answer' = [answer EXCEPT ![c] = [ok |-> ok, uncertain |-> m /\ uncertain, retryable |-> ~m /\ retryable]]
     \/ answer' = [answer EXCEPT ![c] = [ok |-> FALSE, uncertain |-> m /\ (uncertain \/ ok), retryable |-> FALSE]]

Calls(c, k, a) ==
  /\ at[c] = "idle"
  /\ client' = [client EXCEPT ![c] = k]
  /\ args' = [args EXCEPT ![c] = a]

\* A request to the broker, or to the backend itself.
Fetch(c, k) ==
  /\ at' = [at EXCEPT ![c] = "waiting"]
  /\ conn' = IF k.broker THEN [conn EXCEPT ![c] = "queued"] ELSE conn
  /\ job' = IF k.broker THEN job ELSE [job EXCEPT ![c] = "arrived"]
  /\ UNCHANGED <<answer, slots, recorded, unrecorded, status, reply, memories, changes, seen, stops>>

Refuse(c, a) == Return(c, a, FALSE, FALSE, FALSE) /\ UNCHANGED <<brokerVars, status, backendVars, stops>>

\* A tool of the memories or of the administration: its policy, then the request.
Invoke(c) ==
  \E r \in Requests[c] :
    /\ r.asks.op # "capabilities"
    /\ Calls(c, r.by, r.asks)
    /\ IF Denied(r.by, r.asks) THEN Refuse(c, r.asks) ELSE Fetch(c, r.by)

\* memory_capabilities asks for the health of what is behind.
Discover(c) ==
  \E r \in Requests[c] :
    /\ r.asks.op = "capabilities"
    /\ Calls(c, r.by, r.asks)
    /\ IF r.asks.extra # "none" THEN Refuse(c, r.asks) ELSE Fetch(c, r.by)

Retryable(s) == s = 429 \/ s >= 500

OutcomeUncertainAbove500(s) == s = Broken \/ s > 500

\* Only an answer that says so is a certain failure.
OutcomeUncertain(s) == s = Broken \/ s >= 500
\* What is read of the answer: its status, and its JSON.
Receive(c) ==
  /\ at[c] = "waiting"
  /\ args[c].op # "capabilities"
  /\ \/ status[c] = 200 /\ Return(c, args[c], TRUE, FALSE, FALSE)
     \/ status[c] = Broken /\ Return(c, args[c], FALSE, OutcomeUncertain(Broken), TRUE)
     \/ status[c] >= 400 /\ Return(c, args[c], FALSE, OutcomeUncertain(status[c]), Retryable(status[c]))
  /\ UNCHANGED <<client, args, brokerVars, status, backendVars, stops>>

ReceiveHealth(c) ==
  /\ at[c] = "waiting"
  /\ args[c].op = "capabilities"
  /\ status[c] # NoStatus
  /\ Return(c, args[c], status[c] = 200, FALSE, status[c] = Broken \/ Retryable(status[c]))
  /\ UNCHANGED <<client, args, brokerVars, status, backendVars, stops>>

\* The timer of the MCP server; it closes the connection.
Timeout(c) ==
  /\ at[c] = "waiting"
  /\ Return(c, args[c], FALSE, TRUE, TRUE)
  /\ UNCHANGED <<client, args, brokerVars, status, backendVars, stops>>

----
(* The broker *)

Threads == {x \in Call \cup Stranger : conn[x] \in {"open", "asked", "closing"}}

\* A stranger may come again.
Ended(x) == IF x \in Call THEN "over" ELSE "none"

\* The MCP server has its answer; later ones find the connection closed.
Send(c, s) == status' = [status EXCEPT ![c] = s]
Unsent == UNCHANGED status

\* What a principal is told of its own targets.
Disclosed(c) ==
  LET p == client[c].principal IN
  {[call |-> c, scope |-> s] : s \in {Policy[p].private} \cup {Policy[p].shared[t].scope : t \in DOMAIN Policy[p].shared}}

StrangerConnects(x) ==
  /\ conn[x] = "none"
  /\ conn' = [conn EXCEPT ![x] = "queued"]
  /\ UNCHANGED <<callVars, slots, recorded, unrecorded, status, backendVars, stops>>

\* A slot and a thread of its own for each connection.
Accept(x) ==
  /\ conn[x] = "queued"
  /\ slots > 0
  /\ slots' = slots - 1
  /\ conn' = [conn EXCEPT ![x] = "open"]
  /\ UNCHANGED <<callVars, recorded, unrecorded, status, backendVars, stops>>

\* No slot is free, or no thread can be started: the slot taken is given back.
TurnAway(x) ==
  /\ conn[x] = "queued"
  /\ conn' = [conn EXCEPT ![x] = Ended(x)]
  /\ IF x \in Call THEN Send(x, Broken) ELSE Unsent
  /\ UNCHANGED <<callVars, slots, recorded, unrecorded, backendVars, stops>>

ReadDeadlinePerByte(x) ==
  /\ x \in Call
  /\ conn[x] = "open"
  /\ conn' = [conn EXCEPT ![x] = Ended(x)]
  /\ slots' = slots + 1
  /\ Send(x, Broken)
  /\ UNCHANGED <<callVars, recorded, unrecorded, backendVars, stops>>

\* The thread ends without a request: at the deadline, however it trickles, or an end of file.
ReadDeadline(x) ==
  /\ conn[x] = "open"
  /\ conn' = [conn EXCEPT ![x] = Ended(x)]
  /\ slots' = slots + 1
  /\ IF x \in Call THEN Send(x, Broken) ELSE Unsent
  /\ UNCHANGED <<callVars, recorded, unrecorded, backendVars, stops>>

\* A request is read and refused, answered by the broker itself, or passed on.
Handle(c) ==
  /\ conn[c] = "open"
  /\ LET refusal == Refusal(client[c], args[c]) IN
     \/ /\ refusal # NoStatus
        /\ Send(c, refusal)
        /\ conn' = [conn EXCEPT ![c] = "closing"]
        /\ UNCHANGED <<job, seen>>
     \/ /\ refusal = NoStatus /\ args[c].op = "list_targets"
        /\ Send(c, 200)
        /\ conn' = [conn EXCEPT ![c] = "closing"]
        /\ seen' = seen \cup Disclosed(c)
        /\ UNCHANGED job
     \/ /\ refusal = NoStatus /\ args[c].op # "list_targets"
        /\ conn' = [conn EXCEPT ![c] = "asked"]
        /\ job' = [job EXCEPT ![c] = "arrived"]
        /\ UNCHANGED <<status, seen>>
  /\ UNCHANGED <<callVars, slots, recorded, unrecorded, reply, memories, changes, stops>>

\* The answer of the backend, which may be too large to pass on; its health gets the targets.
Relay(c) ==
  /\ conn[c] = "asked"
  /\ reply[c] # NoStatus
  /\ \/ Send(c, IF reply[c] = Broken THEN 503 ELSE reply[c])
     \/ Send(c, 502)
  /\ seen' = IF args[c].op = "capabilities" THEN seen \cup Disclosed(c) ELSE seen
  /\ conn' = [conn EXCEPT ![c] = "closing"]
  /\ UNCHANGED <<callVars, slots, recorded, unrecorded, job, reply, memories, changes, stops>>

\* The timer of the broker's own request, which the backend goes on with.
UpstreamTimeout(c) ==
  /\ conn[c] = "asked"
  /\ reply[c] = NoStatus
  /\ Send(c, 503)
  /\ conn' = [conn EXCEPT ![c] = "closing"]
  /\ UNCHANGED <<callVars, slots, recorded, unrecorded, backendVars, stops>>

EndThreadIfServed(c) ==
  /\ conn[c] = "closing"
  /\ recorded' = IF status[c] = 200 THEN recorded \cup {c} ELSE recorded
  /\ conn' = [conn EXCEPT ![c] = "over"]
  /\ slots' = slots + 1
  /\ UNCHANGED <<callVars, unrecorded, status, backendVars, stops>>

\* The request is put on record, on a standard output that takes it, and the slot given back.
EndThread(c) ==
  /\ conn[c] = "closing"
  /\ recorded' = recorded \cup {c}
  /\ conn' = [conn EXCEPT ![c] = "over"]
  /\ slots' = slots + 1
  /\ UNCHANGED <<callVars, unrecorded, status, backendVars, stops>>

BrokerRestart ==
  /\ stops < MaxStops
  /\ stops' = stops + 1
  /\ unrecorded' = unrecorded \cup (Threads \cap Call)
  /\ status' = [c \in Call |-> IF conn[c] \in {"queued", "open", "asked"} THEN Broken ELSE status[c]]
  /\ conn' = [x \in Call \cup Stranger |-> IF conn[x] = "none" THEN "none" ELSE Ended(x)]
  /\ slots' = MaxConnections
  /\ UNCHANGED <<callVars, recorded, backendVars>>

----
(* The backend *)

\* scoped(): the memory is there and in the scope of the request.
Scope(c) == ScopeOf(client[c], args[c])
Memory(c) == memories[args[c].memory]
There(c) == args[c].memory \in DOMAIN memories /\ ~Memory(c).gone
Scoped(c) == There(c) /\ Memory(c).scope = Scope(c)

\* A caller without a broker gets the status itself.
Replies(c, s) ==
  /\ job' = [job EXCEPT ![c] = "over"]
  /\ reply' = [reply EXCEPT ![c] = s]
  /\ IF client[c].broker THEN Unsent ELSE Send(c, s)

Goes(c, where) == job' = [job EXCEPT ![c] = where] /\ UNCHANGED <<reply, status>>
KeepsAll == UNCHANGED <<callVars, brokerVars, stops>>

Changes(c, gone) ==
  /\ memories' = [memories EXCEPT ![args[c].memory] = [scope |-> Memory(c).scope, by |-> c, gone |-> gone]]
  /\ changes' = changes \cup {[call |-> c, scope |-> Memory(c).scope]}

\* A new memory, or none when the model infers none.
Add(c) ==
  /\ job[c] = "arrived"
  /\ args[c].op = "add"
  /\ \/ \E i \in Id \ DOMAIN memories :
          /\ memories' = [j \in DOMAIN memories \cup {i} |->
                            IF j = i THEN [scope |-> Scope(c), by |-> c, gone |-> FALSE] ELSE memories[j]]
          /\ changes' = changes \cup {[call |-> c, scope |-> Scope(c)]}
     \/ UNCHANGED <<memories, changes>>
  /\ Goes(c, "changed")
  /\ UNCHANGED seen
  /\ KeepsAll

\* Health, and what reads a whole scope.
ReadScope(c) ==
  /\ job[c] = "arrived"
  /\ args[c].op \in {"capabilities", "search", "list", "admin_search"}
  /\ Replies(c, 200)
  /\ seen' = IF args[c].op = "capabilities" THEN seen ELSE seen \cup {[call |-> c, scope |-> Scope(c)]}
  /\ UNCHANGED <<memories, changes>>
  /\ KeepsAll

\* Every request that names a memory checks it first.
Check(c) ==
  /\ job[c] = "arrived"
  /\ args[c].op \in ById
  /\ IF Scoped(c) THEN Goes(c, "checked") ELSE Replies(c, 404)
  /\ UNCHANGED <<memories, changes, seen>>
  /\ KeepsAll

ReadOne(c) ==
  /\ job[c] = "checked"
  /\ args[c].op \in {"get", "history", "admin_get"}
  /\ Replies(c, 200)
  /\ seen' = seen \cup {[call |-> c, scope |-> Memory(c).scope]}
  /\ UNCHANGED <<memories, changes>>
  /\ KeepsAll

\* The engine refuses to update what another request has deleted since.
Update(c) ==
  /\ job[c] = "checked"
  /\ args[c].op = "update"
  /\ IF There(c) THEN Changes(c, FALSE) /\ Goes(c, "changed")
                  ELSE Replies(c, 500) /\ UNCHANGED <<memories, changes>>
  /\ UNCHANGED seen
  /\ KeepsAll

Delete(c) ==
  /\ job[c] = "checked"
  /\ args[c].op \in Deletions
  /\ IF There(c) THEN Changes(c, TRUE) /\ Goes(c, "changed")
                  ELSE /\ Replies(c, 200) \/ Replies(c, 500)
                       /\ UNCHANGED <<memories, changes>>
  /\ UNCHANGED seen
  /\ KeepsAll

\* An update reads what it wrote, and checks its scope again.
Done(c) ==
  /\ job[c] = "changed"
  /\ Replies(c, IF args[c].op = "update" /\ ~Scoped(c) THEN 404 ELSE 200)
  /\ UNCHANGED <<memories, changes, seen>>
  /\ KeepsAll

\* An exception of the engine or of a service it uses, whatever was done by then.
Fails(c) ==
  /\ job[c] \in {"arrived", "checked", "changed"}
  /\ Replies(c, 500)
  /\ UNCHANGED <<memories, changes, seen>>
  /\ KeepsAll

\* What the backend was doing ends where it is.
BackendRestart ==
  /\ stops < MaxStops
  /\ stops' = stops + 1
  /\ LET cut == {c \in Call : job[c] \in {"arrived", "checked", "changed"}} IN
     /\ job' = [c \in Call |-> IF c \in cut THEN "over" ELSE job[c]]
     /\ reply' = [c \in Call |-> IF c \in cut THEN Broken ELSE reply[c]]
     /\ status' = [c \in Call |-> IF c \in cut /\ ~client[c].broker THEN Broken ELSE status[c]]
  /\ UNCHANGED <<callVars, brokerVars, memories, changes, seen>>

----
Backend(c) ==
  \/ Add(c) \/ ReadScope(c) \/ Check(c) \/ ReadOne(c)
  \/ Update(c) \/ Delete(c) \/ Done(c) \/ Fails(c)

Broker(c) == Handle(c) \/ Relay(c) \/ UpstreamTimeout(c) \/ EndThread(c)

Next ==
  \/ \E c \in Call : Invoke(c) \/ Discover(c) \/ Receive(c) \/ ReceiveHealth(c) \/ Timeout(c) \/ Broker(c) \/ Backend(c)
  \/ \E x \in Stranger : StrangerConnects(x)
  \/ \E x \in Call \cup Stranger : Accept(x) \/ TurnAway(x) \/ ReadDeadline(x)
  \/ BrokerRestart \/ BackendRestart

Spec == Init /\ [][Next]_vars

\* The timers of the broker and of its callers come, and its threads run.
FairSpec ==
  /\ Spec
  /\ \A c \in Call : WF_vars(Broker(c)) /\ WF_vars(Receive(c) \/ ReceiveHealth(c) \/ Timeout(c))
  /\ \A x \in Call \cup Stranger : WF_vars(ReadDeadline(x))

----
(* Properties *)

\* What a mutation answers is true, however late the backend does it: a success was done, and
\* a failure that is not called uncertain has left nothing behind and never will
\* (service.js:20-29, backend.js:32-38).
MutationAnswersAreTrue ==
  \A c \in Call :
    at[c] = "returned" /\ args[c].op \in Mutations =>
      /\ answer[c].ok /\ args[c].op = "update" => \E s \in changes : s.call = c
      /\ answer[c].ok /\ args[c].op \in Deletions => Memory(c).gone
      /\ ~answer[c].ok /\ ~answer[c].uncertain =>
           \A i \in DOMAIN memories : memories[i].by # c

\* A caller reads and changes memories of the scopes its credential is granted for that, and no
\* others, also when the memory it names is another's (server.py:303-313, backend scoped()).
Readable(k, a) ==
  IF ~k.broker THEN {IF k.role = "agent" THEN k.scope ELSE a.user_id}
  ELSE LET p == Policy[k.principal] IN
    {p.private} \cup {p.shared[t].scope : t \in {u \in DOMAIN p.shared : p.shared[u].read \/ a.op \in {"capabilities", "list_targets"}}}
    \cup IF a.op \in AdminOps THEN {p.admin[t].scope : t \in {u \in DOMAIN p.admin : p.admin[u].read}} ELSE {}
Writable(k, a) ==
  IF ~k.broker THEN {IF k.role = "agent" THEN k.scope ELSE a.user_id}
  ELSE LET p == Policy[k.principal] IN
    IF a.op = "admin_delete" THEN {p.admin[t].scope : t \in {u \in DOMAIN p.admin : p.admin[u].delete}}
    ELSE {p.private} \cup {p.shared[t].scope : t \in {u \in DOMAIN p.shared : p.shared[u].write}}
OnlyGrantedScopes ==
  /\ \A s \in changes : s.scope \in Writable(client[s.call], args[s.call])
  /\ \A s \in seen : s.scope \in Readable(client[s.call], args[s.call])

\* Whatever a principal changed is in the log of the broker when its request is over, also when the
\* caller or the broker had given up on it, unless the broker was killed under it (server.py:316-328).
EveryChangeOnRecord ==
  \A s \in changes :
    client[s.call].broker /\ conn[s.call] = "over" => s.call \in recorded \cup unrecorded

\* Connections that send nothing, or slowly, and requests that hang do not keep the slots: a broker
\* with none left has one again (server.py:66-111).
ServedAgain == (slots = 0) ~> (slots > 0)
====
