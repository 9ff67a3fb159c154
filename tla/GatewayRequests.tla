---- MODULE GatewayRequests ----
(***************************************************************************)
(* The life of a chat request in the gateway: the slot table, the indexes  *)
(* and the result buffers of gateway/src/concurrency.js, driven by the     *)
(* POST /chat handler of gateway/src/chat.js, POST /cancel, and the status *)
(* and output reads.                                                       *)
(*                                                                         *)
(* Node runs one handler at a time and chatHandler awaits nothing, so one  *)
(* HTTP request is one step, from the idempotency check to the launch of   *)
(* the agent.  Everything the gateway waits for is a later step: the agent *)
(* settling, a cancel, a poll, the clock.                                  *)
(*                                                                         *)
(* A request identifier stands for the request id and for the slot key:    *)
(* both are drawn once per acquire and never reused.                       *)
(***************************************************************************)
EXTENDS FiniteSets

CONSTANTS Request,       \* submissions a client may make
          Session,       \* `chatId \0 sessionId` values a client may continue
          Key,           \* idempotency keys a client may send
          UncheckedKey,  \* keys chat.js never looks up: not a string, or over 128 chars
          MayAge,        \* bound: requests whose records ever get older than COMPLETED_TTL_MS
          NoRequest, NoSession, NoKey

ASSUME RequestsAssumption ==
    /\ NoRequest \notin Request
    /\ NoSession \notin Session
    /\ NoKey \notin Key
    /\ UncheckedKey \subseteq Key

VARIABLES body,                    \* what each submission carried: [session, key]
          reply,                   \* the HTTP answer to each submission
          original,                \* the request a duplicate was answered with
          slots,                   \* keys of the Map `slots`
          cancelling,              \* slots whose entry has cancelling = true
          requestIdToSlotKey,      \* request ids with a slot
          activeSessions,          \* session key -> slot
          activeByIdempotencyKey,  \* idempotency key -> slot
          completedByRequestId,    \* request -> outcome stored for it
          completedBySessionKey,   \* session key -> request whose record is kept
          completedByIdempotencyKey, \* idempotency key -> request whose record is kept
          agent,                   \* the agent run behind each request
          stale,                   \* slots held for longer than staleAfterMs
          old                      \* records completed longer than COMPLETED_TTL_MS ago

httpVars == <<body, reply, original>>
slotVars == <<slots, cancelling, requestIdToSlotKey, activeSessions, activeByIdempotencyKey>>
resultVars == <<completedByRequestId, completedBySessionKey, completedByIdempotencyKey>>
clockVars == <<stale, old>>
vars == <<httpVars, slotVars, resultVars, agent, clockVars>>

----
(* Values *)

\* "none": not sent yet.  A refusal before anything is looked up, the 409 of an active
\* duplicate, the replay of a finished one, the 409 of a locked session, the 400 of a failed
\* file transfer, and the accepted request.
Reply == {"none", "invalid_request", "duplicate_active", "duplicate_completed",
          "session_busy", "file_transfer_error", "busy"}

\* execution_state as the result buffers tell it apart.
Outcome == {"done", "error", "cancelled"}
NoOutcome == "no_outcome"

\* An agent is launched at most once per request; "stopping" once its cancel function ran.
AgentState == {"idle", "running", "stopping", "settled"}

Body == [session : Session \cup {NoSession}, key : Key \cup {NoKey}]

TypeOK ==
    /\ body \in [Request -> Body]
    /\ reply \in [Request -> Reply]
    /\ original \in [Request -> Request \cup {NoRequest}]
    /\ slots \subseteq Request
    /\ cancelling \subseteq Request
    /\ requestIdToSlotKey \subseteq Request
    /\ activeSessions \in [Session -> Request \cup {NoRequest}]
    /\ activeByIdempotencyKey \in [Key -> Request \cup {NoRequest}]
    /\ completedByRequestId \in [Request -> Outcome \cup {NoOutcome}]
    /\ completedBySessionKey \in [Session -> Request \cup {NoRequest}]
    /\ completedByIdempotencyKey \in [Key -> Request \cup {NoRequest}]
    /\ agent \in [Request -> AgentState]
    /\ stale \subseteq Request
    /\ old \subseteq Request

Init ==
    /\ body = [r \in Request |-> [session |-> NoSession, key |-> NoKey]]
    /\ reply = [r \in Request |-> "none"]
    /\ original = [r \in Request |-> NoRequest]
    /\ slots = {}
    /\ cancelling = {}
    /\ requestIdToSlotKey = {}
    /\ activeSessions = [s \in Session |-> NoRequest]
    /\ activeByIdempotencyKey = [k \in Key |-> NoRequest]
    /\ completedByRequestId = [r \in Request |-> NoOutcome]
    /\ completedBySessionKey = [s \in Session |-> NoRequest]
    /\ completedByIdempotencyKey = [k \in Key |-> NoRequest]
    /\ agent = [r \in Request |-> "idle"]
    /\ stale = {}
    /\ old = {}

----
(* reapStale: old records are dropped, slots held too long are cancelled but stay held. *)

\* complete() and completeCancel() store completedAt = isoNow(), a string.  reapStale computes
\* `now - completedAt`, which is NaN for a string, and no comparison with NaN holds.
CompletedAtIsString == TRUE
Expired == IF CompletedAtIsString THEN {} ELSE old

Kept(results) == [x \in DOMAIN results |-> IF results[x] \in Expired THEN NoRequest ELSE results[x]]

RecordsAfterReap ==
    [q \in Request |-> IF q \in Expired THEN NoOutcome ELSE completedByRequestId[q]]

StaleSlots == (slots \cap stale) \ cancelling
CancellingAfterReap == cancelling \cup StaleSlots

\* Calling the cancel function of a slot: the supervisor signals the agent once.
Signalled(runs, targets) ==
    [q \in Request |-> IF q \in targets /\ runs[q] = "running" THEN "stopping" ELSE runs[q]]

\* Any read that reaps: GET /status, GET /output, GET /health.
Poll ==
    /\ cancelling' = CancellingAfterReap
    /\ agent' = Signalled(agent, StaleSlots)
    /\ completedByRequestId' = RecordsAfterReap
    /\ completedBySessionKey' = Kept(completedBySessionKey)
    /\ completedByIdempotencyKey' = Kept(completedByIdempotencyKey)
    /\ UNCHANGED <<httpVars, slots, requestIdToSlotKey, activeSessions,
                   activeByIdempotencyKey, clockVars>>

\* The state of a held slot, as every read words it.
StateOf(r) == IF r \in cancelling THEN "cancelling" ELSE "busy"

\* What a read by request id tells of a request: getRequestStatus and getRequestOutput.
RequestStatus(r) ==
    IF r \in requestIdToSlotKey \cap slots THEN StateOf(r)
    ELSE IF completedByRequestId[r] # NoOutcome THEN "completed" ELSE "unknown"

\* What a read by session id tells: sessionStatus and sessionOutput.
SessionStatus(s) ==
    IF activeSessions[s] \in slots THEN StateOf(activeSessions[s])
    ELSE IF completedBySessionKey[s] # NoRequest THEN "completed" ELSE "ready"

----
(* acquire and release *)

\* getSessionKey returns null without a session id, and a null key is never indexed.
SessionsAfterAcquire(sessions, r, s) == [t \in Session |-> IF t = s THEN r ELSE sessions[t]]
KeysAfterAcquire(keys, r, k) == [j \in Key |-> IF j = k THEN r ELSE keys[j]]

\* release drops the session index only if it still names this slot, the key index always.
SessionsAfterRelease(sessions, r, s) ==
    [t \in Session |-> IF t = s /\ sessions[t] = r THEN NoRequest ELSE sessions[t]]
KeysAfterRelease(keys, k) == [j \in Key |-> IF j = k THEN NoRequest ELSE keys[j]]

SessionBusyUnlessCancelling(s) ==
    s # NoSession /\ activeSessions[s] \in slots \ cancelling
SessionBusy(s) == s # NoSession /\ activeSessions[s] # NoRequest

\* acquire forgets the last result of the session it locks, before the request has run.
SessionResultsAfterAcquire(s) ==
    [t \in Session |-> IF t = s THEN NoRequest ELSE Kept(completedBySessionKey)[t]]

----
(* chatHandler *)

\* checkIdempotency, which chatHandler calls only for a string of at most 128 characters.
IsChecked(k) == k \in Key \ UncheckedKey
ActiveTwinUnlessCancelling(k) ==
    IsChecked(k) /\ activeByIdempotencyKey[k] \in slots \ cancelling
ActiveTwin(k) == IsChecked(k) /\ activeByIdempotencyKey[k] \in slots
FinishedTwin(k) ==
    IsChecked(k) /\ ~ActiveTwin(k) /\ completedByIdempotencyKey[k] # NoRequest

Receive(r, s, k, answer) ==
    /\ reply[r] = "none"
    /\ body' = [body EXCEPT ![r] = [session |-> s, key |-> k]]
    /\ reply' = [reply EXCEPT ![r] = answer]

\* A malformed body, a chat or settings that do not resolve, a session of another authority, a
\* runtime that is not there, a directory outside the workspace: nothing is looked up or reaped,
\* and what the body asked for is of no account.
RefuseRequest(r) ==
    /\ Receive(r, NoSession, NoKey, "invalid_request")
    /\ UNCHANGED <<original, slotVars, resultVars, agent, clockVars>>

\* The key names a request that holds a slot: 409, and nothing else happens.
AnswerActiveDuplicate(r, s, k) ==
    /\ ActiveTwin(k)
    /\ Receive(r, s, k, "duplicate_active")
    /\ original' = [original EXCEPT ![r] = activeByIdempotencyKey[k]]
    /\ UNCHANGED <<slotVars, resultVars, agent, clockVars>>

\* The key names a finished request: its record is the answer.
AnswerFinishedDuplicate(r, s, k) ==
    /\ FinishedTwin(k)
    /\ Receive(r, s, k, "duplicate_completed")
    /\ original' = [original EXCEPT ![r] = completedByIdempotencyKey[k]]
    /\ UNCHANGED <<slotVars, resultVars, agent, clockVars>>

PassesIdempotency(k) == ~ActiveTwin(k) /\ ~FinishedTwin(k)

\* acquire reaps first, then refuses a locked session.
RejectBusySession(r, s, k) ==
    /\ PassesIdempotency(k)
    /\ SessionBusy(s)
    /\ Receive(r, s, k, "session_busy")
    /\ cancelling' = CancellingAfterReap
    /\ agent' = Signalled(agent, StaleSlots)
    /\ completedByRequestId' = RecordsAfterReap
    /\ completedBySessionKey' = Kept(completedBySessionKey)
    /\ completedByIdempotencyKey' = Kept(completedByIdempotencyKey)
    /\ UNCHANGED <<original, slots, requestIdToSlotKey, activeSessions,
                   activeByIdempotencyKey, clockVars>>

\* The slot is taken, a file cannot be delivered, and the slot is released in the same step.
FailFileTransfer(r, s, k) ==
    /\ PassesIdempotency(k)
    /\ ~SessionBusy(s)
    /\ Receive(r, s, k, "file_transfer_error")
    /\ cancelling' = CancellingAfterReap
    /\ agent' = Signalled(agent, StaleSlots)
    /\ completedByRequestId' = RecordsAfterReap
    /\ completedBySessionKey' = SessionResultsAfterAcquire(s)
    /\ completedByIdempotencyKey' = Kept(completedByIdempotencyKey)
    /\ activeSessions' =
         SessionsAfterRelease(SessionsAfterAcquire(activeSessions, r, s), r, s)
    /\ activeByIdempotencyKey' =
         KeysAfterRelease(KeysAfterAcquire(activeByIdempotencyKey, r, k), k)
    /\ UNCHANGED <<original, slots, requestIdToSlotKey, clockVars>>

\* The slot is taken, the client told "busy", the agent launched, its cancel function stored.
Accept(r, s, k) ==
    /\ PassesIdempotency(k)
    /\ ~SessionBusy(s)
    /\ Receive(r, s, k, "busy")
    /\ slots' = slots \cup {r}
    /\ requestIdToSlotKey' = requestIdToSlotKey \cup {r}
    /\ activeSessions' = SessionsAfterAcquire(activeSessions, r, s)
    /\ activeByIdempotencyKey' = KeysAfterAcquire(activeByIdempotencyKey, r, k)
    /\ cancelling' = CancellingAfterReap
    /\ agent' = [Signalled(agent, StaleSlots) EXCEPT ![r] = "running"]
    /\ completedByRequestId' = RecordsAfterReap
    /\ completedBySessionKey' = SessionResultsAfterAcquire(s)
    /\ completedByIdempotencyKey' = Kept(completedByIdempotencyKey)
    /\ UNCHANGED <<original, clockVars>>

----
(* After the answer: POST /cancel, the settlement of the agent, the clock *)

\* A cancel that frees the session at once, before the agent has gone.
CancelRequestAndRelease(r) ==
    /\ r \in requestIdToSlotKey \cap slots
    /\ slots' = slots \ {r}
    /\ requestIdToSlotKey' = requestIdToSlotKey \ {r}
    /\ activeSessions' = SessionsAfterRelease(activeSessions, r, body[r].session)
    /\ activeByIdempotencyKey' = KeysAfterRelease(activeByIdempotencyKey, body[r].key)
    /\ agent' = Signalled(agent, {r})
    /\ UNCHANGED <<httpVars, cancelling, resultVars, clockVars>>

\* cancelRequest: one shot, and the slot stays held until the agent settles.
CancelRequest(r) ==
    /\ r \in requestIdToSlotKey \cap slots
    /\ r \notin cancelling
    /\ cancelling' = cancelling \cup {r}
    /\ agent' = Signalled(agent, {r})
    /\ UNCHANGED <<httpVars, slots, requestIdToSlotKey, activeSessions,
                   activeByIdempotencyKey, resultVars, clockVars>>

\* The outcomes a run can end with: "cancelled" needs the signal, an error may follow one too
\* (binding the session to its authority can fail whatever the agent answered).
OutcomeUnclassified(r) == Outcome
OutcomeOf(r) == IF agent[r] = "stopping" THEN {"cancelled", "error"} ELSE {"done", "error"}

\* complete, completeCancel and release return at once when the slot is gone.
Entry(r) == IF r \in slots THEN body[r] ELSE [session |-> NoSession, key |-> NoKey]
StoredOutcome(r, outcome) == IF r \in slots THEN outcome ELSE completedByRequestId[r]

\* complete() or completeCancel(), then release(): the record is stored and the slot freed in
\* one step, on the cancelled, the ordinary and the defensive path alike.
Settle(r, outcome) ==
    /\ agent[r] \in {"running", "stopping"}
    /\ outcome \in OutcomeOf(r)
    /\ agent' = [agent EXCEPT ![r] = "settled"]
    /\ completedByRequestId' = [completedByRequestId EXCEPT ![r] = StoredOutcome(r, outcome)]
    /\ completedBySessionKey' =
         SessionsAfterAcquire(completedBySessionKey, r, Entry(r).session)
    /\ completedByIdempotencyKey' =
         KeysAfterAcquire(completedByIdempotencyKey, r, Entry(r).key)
    /\ slots' = slots \ {r}
    /\ cancelling' = cancelling \ {r}
    /\ stale' = stale \ {r}
    /\ requestIdToSlotKey' = requestIdToSlotKey \ {r}
    /\ activeSessions' = SessionsAfterRelease(activeSessions, r, Entry(r).session)
    /\ activeByIdempotencyKey' = KeysAfterRelease(activeByIdempotencyKey, Entry(r).key)
    /\ UNCHANGED <<httpVars, old>>

\* staleAfterMs passes while the slot is held (a run its own timeout did not end).
BecomeStale(r) ==
    /\ r \in slots \ stale
    /\ stale' = stale \cup {r}
    /\ UNCHANGED <<httpVars, slotVars, resultVars, agent, old>>

\* COMPLETED_TTL_MS passes after a record was stored.
BecomeOld(r) ==
    /\ r \in MayAge \ old
    /\ completedByRequestId[r] # NoOutcome
    /\ old' = old \cup {r}
    /\ UNCHANGED <<httpVars, slotVars, resultVars, agent, stale>>

Submit(r) ==
    \/ RefuseRequest(r)
    \/ \E s \in Session \cup {NoSession}, k \in Key \cup {NoKey} :
        \/ AnswerActiveDuplicate(r, s, k)
        \/ AnswerFinishedDuplicate(r, s, k)
        \/ RejectBusySession(r, s, k)
        \/ FailFileTransfer(r, s, k)
        \/ Accept(r, s, k)

Next ==
    \/ Poll
    \/ \E r \in Request :
        \/ Submit(r)
        \/ CancelRequest(r)
        \/ \E outcome \in Outcome : Settle(r, outcome)
        \/ BecomeStale(r)
        \/ BecomeOld(r)

Spec == Init /\ [][Next]_vars

\* The supervisor ends every agent run: its timeout kills the process group, and a transport
\* failure rejects the call.  Clients promise nothing: they need not submit, poll or cancel.
FairSpec == Spec /\ \A r \in Request : WF_vars(\E outcome \in Outcome : Settle(r, outcome))

----
(* Properties *)

Launched(r) == reply[r] = "busy"
Live(r) == agent[r] \in {"running", "stopping"}
Finished(r) == completedByRequestId[r] # NoOutcome
Duplicate(r) == reply[r] \in {"duplicate_active", "duplicate_completed"}

\* Two agents never work in one session at a time, whatever cancels, stale slots and failed
\* submissions come between ("Session locking", README.md:359; acquire, release).
OneRunPerSession ==
    \A q, r \in Request :
        q # r /\ Live(q) /\ Live(r) /\ body[q].session = body[r].session
            => body[r].session = NoSession

\* A retry under the same checked key never launches a second agent, before or after the
\* first one ended ("Idempotency", README.md:352; checkIdempotency and both key indexes).
KeyRunsOnce ==
    \A q, r \in Request :
        q # r /\ Launched(q) /\ Launched(r) /\ body[q].key = body[r].key
            => ~IsChecked(body[r].key)

\* A client told "busy" never finds its request unknown, and is told the truth of it: "busy" or
\* "cancelling" exactly as long as the agent runs, by request id and by session id alike,
\* "cancelling" only if the agent has been signalled, "completed" from the settlement on
\* (getRequestStatus, getRequestOutput, sessionStatus, sessionOutput).
AcceptedIsAnswerable ==
    \A r \in Request :
        /\ Launched(r) => RequestStatus(r) # "unknown"
        /\ RequestStatus(r) \in {"busy", "cancelling"} <=> Live(r)
        /\ RequestStatus(r) = "cancelling" => agent[r] = "stopping"
        /\ RequestStatus(r) = "completed" => agent[r] = "settled"
        /\ Live(r) /\ body[r].session # NoSession =>
             SessionStatus(body[r].session) = RequestStatus(r)

\* The three indexes of the slot table name exactly the held slots: no lock is left behind
\* and no held session or checked key is missing from its index.
IndexesMatchSlots ==
    /\ requestIdToSlotKey = slots
    /\ cancelling \subseteq slots
    /\ \A s \in Session, r \in Request :
         activeSessions[s] = r <=> r \in slots /\ body[r].session = s
    /\ \A k \in Key \ UncheckedKey, r \in Request :
         activeByIdempotencyKey[k] = r <=> r \in slots /\ body[r].key = k

\* A slot is freed only in the step that ends its agent and stores its record: neither a
\* cancel nor the reaper unlocks a session early (docs/roadmap.md:87).
NoEarlyRelease ==
    [][\A r \in slots \ slots' :
          agent'[r] = "settled" /\ completedByRequestId'[r] # NoOutcome]_vars

\* The gateway keeps the contract: a submission is refused, replayed or run, only a session
\* that is being run in is locked, and runs end.
Phase ==
    [r \in Request |->
        IF reply[r] = "none" THEN "new"
        ELSE IF Launched(r) THEN (IF Live(r) THEN "running" ELSE "done")
        ELSE IF Duplicate(r) THEN "replayed"
        ELSE IF reply[r] = "session_busy" THEN "locked" ELSE "refused"]

Contract == INSTANCE RequestContract WITH
    phase <- Phase, terms <- body, answeredBy <- original,
    OnceKey <- Key \ UncheckedKey

ImplementsContract == Contract!FairSpec

\* Each launched agent is used the way AgentRun promises to serve: what Supervisor and
\* CodexMcpWorkers implement is what Settle and its fairness rely on.
Agents == INSTANCE AgentRun WITH Run <- Request, outcome <- completedByRequestId

AgentsKeepTheirInterface == Agents!Spec

\* "Completed results are retained for 24 hours" (README.md:356): the reaping that every
\* accepted submission begins with leaves no older record behind.
SubmissionDropsOldRecords ==
    [][\A r \in Request : reply[r] = "none" /\ reply'[r] = "busy" =>
          \A q \in old : completedByRequestId'[q] = NoOutcome]_vars

====
