---- MODULE GatewayRequests_proofs ----
(***************************************************************************)
(* Proofs about GatewayRequests for any number of requests, sessions and   *)
(* keys.  IInv is the inductive invariant: the indexes follow the slots,   *)
(* the stages of a request agree in the reply, the agent and the record,   *)
(* and every checked key that ran is remembered by one of its two indexes. *)
(***************************************************************************)
EXTENDS GatewayRequests, TLAPS

\* The reply, the agent, the slot and the record of a request tell the same story.
StagesAgree ==
    \A r \in Request :
        /\ agent[r] # "idle" <=> Launched(r)
        /\ r \in slots <=> Live(r)
        /\ agent[r] = "settled" <=> Finished(r)

\* A checked key that was run under is found by checkIdempotency.
KeyRemembered ==
    \A r \in Request :
        Launched(r) /\ IsChecked(body[r].key) /\ r \notin slots
            => completedByIdempotencyKey[body[r].key] = r

\* A duplicate is told of the request that ran under its own key, and that request can still
\* be polled: it holds its slot or has a record.
DuplicateNamesTheRun ==
    \A r \in Request : Duplicate(r) =>
        LET q == original[r] IN
            /\ q \in Request
            /\ Launched(q)
            /\ body[q].key = body[r].key
            /\ q \in slots \/ Finished(q)

\* The result buffers tell of finished requests of the right session and key, and a session
\* buffer never holds a result while a newer run of that session is on (acquire, complete).
ResultBuffersAgree ==
    /\ \A s \in Session : LET r == completedBySessionKey[s] IN r # NoRequest =>
         /\ Finished(r)
         /\ body[r].session = s
         /\ \A q \in slots : body[q].session # s
    /\ \A k \in Key : LET r == completedByIdempotencyKey[k] IN r # NoRequest =>
         Finished(r) /\ body[r].key = k

\* A slot marked "cancelling", by a client or by the reaper, has had its agent signalled.
CancellingIsSignalled == \A r \in cancelling : agent[r] = "stopping"

IInv ==
    /\ TypeOK
    /\ StagesAgree
    /\ IndexesMatchSlots
    /\ CancellingIsSignalled
    /\ ResultBuffersAgree
    /\ KeyRemembered
    /\ KeyRunsOnce
    /\ DuplicateNamesTheRun

----
\* No record ever counts as expired, so reaping keeps every result buffer as it is.
LEMMA ReapKeepsResults ==
    ASSUME TypeOK
    PROVE  /\ Expired = {}
           /\ RecordsAfterReap = completedByRequestId
           /\ Kept(completedBySessionKey) = completedBySessionKey
           /\ Kept(completedByIdempotencyKey) = completedByIdempotencyKey
<1>1. Expired = {}
  BY DEF Expired, CompletedAtIsString
<1>2. QED
  BY <1>1 DEF TypeOK, RecordsAfterReap, Kept

\* The initial state satisfies the invariant.
LEMMA InitEstablishes == Init => IInv
<1> SUFFICES ASSUME Init PROVE IInv
  OBVIOUS
<1> USE RequestsAssumption DEF Init
<1>1. TypeOK
  BY DEF TypeOK, Body, Reply, Outcome, AgentState
<1>2. StagesAgree
  BY DEF StagesAgree, Launched, Live, Finished, NoOutcome
<1>3. IndexesMatchSlots
  BY DEF IndexesMatchSlots
<1>4. CancellingIsSignalled /\ ResultBuffersAgree
  BY DEF CancellingIsSignalled, ResultBuffersAgree
<1>5. KeyRemembered /\ KeyRunsOnce /\ DuplicateNamesTheRun
  BY DEF KeyRemembered, KeyRunsOnce, DuplicateNamesTheRun, Launched, Duplicate
<1>6. QED
  BY <1>1, <1>2, <1>3, <1>4, <1>5 DEF IInv

\* Reaping signals stale slots and changes nothing else.
LEMMA PollKeeps == ASSUME IInv, Poll PROVE IInv'
<1> USE ReapKeepsResults, RequestsAssumption DEF IInv
<1>0. /\ agent' = Signalled(agent, StaleSlots)
      /\ cancelling' = cancelling \cup StaleSlots
      /\ StaleSlots \subseteq slots
      /\ UNCHANGED <<body, reply, original, slots, requestIdToSlotKey, activeSessions,
           activeByIdempotencyKey, completedByRequestId, completedBySessionKey,
           completedByIdempotencyKey, stale, old>>
  BY DEF Poll, httpVars, clockVars, StaleSlots, CancellingAfterReap
<1>1. TypeOK'
  BY <1>0 DEF TypeOK, Signalled, AgentState
<1>2. StagesAgree'
  BY <1>0 DEF TypeOK, StagesAgree, Launched, Live, Finished, Signalled
<1>3. IndexesMatchSlots'
  BY <1>0 DEF IndexesMatchSlots
<1>4. CancellingIsSignalled'
  BY <1>0 DEF CancellingIsSignalled, Signalled, TypeOK, StagesAgree, Live
<1>5. ResultBuffersAgree'
  BY <1>0 DEF ResultBuffersAgree, Finished
<1>6. KeyRemembered' /\ KeyRunsOnce' /\ DuplicateNamesTheRun'
  BY <1>0 DEF KeyRemembered, KeyRunsOnce, DuplicateNamesTheRun, Launched, Duplicate, Finished, IsChecked
<1>7. QED
  BY <1>1, <1>2, <1>3, <1>4, <1>5, <1>6

\* A duplicate is answered with the live or the finished request of its key.
LEMMA DuplicateKeeps ==
    ASSUME IInv, NEW r \in Request, NEW s \in Session \cup {NoSession},
           NEW k \in Key \cup {NoKey},
           AnswerActiveDuplicate(r, s, k) \/ AnswerFinishedDuplicate(r, s, k)
    PROVE  IInv'
<1> USE RequestsAssumption DEF IInv
<1>0. /\ reply[r] = "none"
      /\ body' = [body EXCEPT ![r] = [session |-> s, key |-> k]]
      /\ reply' \in {[reply EXCEPT ![r] = "duplicate_active"],
                     [reply EXCEPT ![r] = "duplicate_completed"]}
      /\ UNCHANGED <<slots, cancelling, requestIdToSlotKey, activeSessions,
           activeByIdempotencyKey, completedByRequestId, completedBySessionKey,
           completedByIdempotencyKey, agent, stale, old>>
  BY DEF AnswerActiveDuplicate, AnswerFinishedDuplicate, Receive, slotVars, resultVars, clockVars
<1>1. PICK q \in Request :
        /\ original' = [original EXCEPT ![r] = q]
        /\ Launched(q)
        /\ body[q].key = k
        /\ q \in slots \/ Finished(q)
  <2>1. CASE AnswerActiveDuplicate(r, s, k)
    <3>1. activeByIdempotencyKey[k] \in slots /\ k \in Key \ UncheckedKey
      BY <2>1 DEF AnswerActiveDuplicate, ActiveTwin, IsChecked
    <3>2. activeByIdempotencyKey[k] \in Request
      BY <3>1 DEF TypeOK
    <3>3. body[activeByIdempotencyKey[k]].key = k /\ Launched(activeByIdempotencyKey[k])
      BY <3>1, <3>2 DEF IndexesMatchSlots, StagesAgree, Live
    <3>4. QED
      BY <2>1, <3>1, <3>2, <3>3 DEF AnswerActiveDuplicate
  <2>2. CASE AnswerFinishedDuplicate(r, s, k)
    <3>1. completedByIdempotencyKey[k] # NoRequest /\ k \in Key
      BY <2>2 DEF AnswerFinishedDuplicate, FinishedTwin, IsChecked
    <3>2. completedByIdempotencyKey[k] \in Request
      BY <3>1 DEF TypeOK
    <3>3. /\ Finished(completedByIdempotencyKey[k])
          /\ body[completedByIdempotencyKey[k]].key = k
      BY <3>1 DEF ResultBuffersAgree
    <3>4. Launched(completedByIdempotencyKey[k])
      BY <3>2, <3>3 DEF StagesAgree
    <3>5. QED
      BY <2>2, <3>2, <3>3, <3>4 DEF AnswerFinishedDuplicate
  <2>3. QED
    BY <2>1, <2>2
<1>2. IsChecked(k)
  BY DEF AnswerActiveDuplicate, AnswerFinishedDuplicate, ActiveTwin, FinishedTwin
<1>3. r \notin slots /\ agent[r] = "idle" /\ ~Finished(r) /\ ~Launched(r)
  BY <1>0 DEF StagesAgree, Launched, Live, TypeOK
<1>4. TypeOK'
  BY <1>0, <1>1 DEF TypeOK, Body, Reply
<1>5. StagesAgree'
  BY <1>0, <1>3 DEF TypeOK, StagesAgree, Launched, Live, Finished
<1>6. IndexesMatchSlots'
  BY <1>0, <1>3 DEF IndexesMatchSlots, TypeOK
<1>7. CancellingIsSignalled'
  BY <1>0 DEF CancellingIsSignalled
<1>8. ResultBuffersAgree'
  BY <1>0, <1>3 DEF ResultBuffersAgree, Finished, TypeOK
<1>9. KeyRemembered' /\ KeyRunsOnce'
  BY <1>0, <1>3 DEF KeyRemembered, KeyRunsOnce, Launched, IsChecked, TypeOK
<1>10. DuplicateNamesTheRun'
  BY <1>0, <1>1, <1>3 DEF DuplicateNamesTheRun, Duplicate, Launched, Finished, TypeOK
<1>11. QED
  BY <1>4, <1>5, <1>6, <1>7, <1>8, <1>9, <1>10

\* A submission refused before anything is looked up leaves everything but its answer alone.
LEMMA EarlyRefusalKeeps ==
    ASSUME IInv, NEW r \in Request, RefuseRequest(r)
    PROVE  IInv'
<1> USE RequestsAssumption DEF IInv
<1>0. /\ reply[r] = "none"
      /\ body' = [body EXCEPT ![r] = [session |-> NoSession, key |-> NoKey]]
      /\ reply' = [reply EXCEPT ![r] = "invalid_request"]
      /\ UNCHANGED <<original, slots, cancelling, requestIdToSlotKey, activeSessions,
           activeByIdempotencyKey, completedByRequestId, completedBySessionKey,
           completedByIdempotencyKey, agent, stale, old>>
  BY DEF RefuseRequest, Receive, slotVars, resultVars, clockVars
<1>1. r \notin slots /\ agent[r] = "idle" /\ ~Finished(r) /\ ~Launched(r)
  BY <1>0 DEF StagesAgree, Launched, Live, TypeOK
<1>2. TypeOK'
  BY <1>0 DEF TypeOK, Body, Reply
<1>3. StagesAgree'
  BY <1>0, <1>1 DEF TypeOK, StagesAgree, Launched, Live, Finished
<1>4. IndexesMatchSlots'
  BY <1>0, <1>1 DEF IndexesMatchSlots, TypeOK
<1>5. CancellingIsSignalled'
  BY <1>0 DEF CancellingIsSignalled
<1>6. ResultBuffersAgree'
  BY <1>0, <1>1 DEF ResultBuffersAgree, Finished, TypeOK
<1>7. KeyRemembered' /\ KeyRunsOnce'
  BY <1>0, <1>1 DEF KeyRemembered, KeyRunsOnce, Launched, IsChecked, TypeOK
<1>8. DuplicateNamesTheRun'
  BY <1>0, <1>1 DEF DuplicateNamesTheRun, Duplicate, Launched, Finished, TypeOK
<1>9. QED
  BY <1>2, <1>3, <1>4, <1>5, <1>6, <1>7, <1>8

\* A refusal, of a locked session or for a file that cannot be delivered, leaves no slot behind.
LEMMA RefusalKeeps ==
    ASSUME IInv, NEW r \in Request, NEW s \in Session \cup {NoSession},
           NEW k \in Key \cup {NoKey},
           RejectBusySession(r, s, k) \/ FailFileTransfer(r, s, k)
    PROVE  IInv'
<1> USE ReapKeepsResults, RequestsAssumption DEF IInv
<1>0. /\ reply[r] = "none"
      /\ body' = [body EXCEPT ![r] = [session |-> s, key |-> k]]
      /\ reply' \in {[reply EXCEPT ![r] = "session_busy"],
                     [reply EXCEPT ![r] = "file_transfer_error"]}
      /\ agent' = Signalled(agent, StaleSlots)
      /\ cancelling' = cancelling \cup StaleSlots
      /\ StaleSlots \subseteq slots
      /\ UNCHANGED <<original, slots, requestIdToSlotKey, completedByRequestId,
           completedByIdempotencyKey, stale, old>>
  BY DEF RejectBusySession, FailFileTransfer, Receive, clockVars, StaleSlots, CancellingAfterReap
<1>1. r \notin slots /\ agent[r] = "idle" /\ ~Finished(r) /\ ~Launched(r)
  BY <1>0 DEF StagesAgree, Launched, Live, TypeOK
<1>2. /\ activeSessions' = activeSessions
      /\ completedBySessionKey' \in [Session -> Request \cup {NoRequest}]
      /\ \A t \in Session : completedBySessionKey'[t] \in {completedBySessionKey[t], NoRequest}
  <2>1. CASE RejectBusySession(r, s, k)
    BY <2>1 DEF RejectBusySession, TypeOK
  <2>2. CASE FailFileTransfer(r, s, k)
    <3>1. \A t \in Session : t = s => activeSessions[t] = NoRequest
      BY <2>2 DEF FailFileTransfer, SessionBusy
    <3>2. QED
      BY <2>2, <3>1 DEF FailFileTransfer, TypeOK, SessionsAfterAcquire, SessionsAfterRelease,
                        SessionResultsAfterAcquire
  <2>3. QED
    BY <2>1, <2>2
<1>3. /\ activeByIdempotencyKey' \in [Key -> Request \cup {NoRequest}]
      /\ \A j \in Key \ UncheckedKey, q \in Request :
           activeByIdempotencyKey'[j] = q <=> activeByIdempotencyKey[j] = q
  <2>1. CASE RejectBusySession(r, s, k)
    BY <2>1 DEF RejectBusySession, TypeOK
  <2>2. CASE FailFileTransfer(r, s, k)
    <3>1. \A j \in Key \ UncheckedKey, q \in Request : j = k => activeByIdempotencyKey[j] # q
      BY <2>2 DEF FailFileTransfer, PassesIdempotency, ActiveTwin, IsChecked, IndexesMatchSlots
    <3>2. QED
      BY <2>2, <3>1 DEF FailFileTransfer, TypeOK, KeysAfterAcquire, KeysAfterRelease
  <2>3. QED
    BY <2>1, <2>2
<1>4. TypeOK'
  BY <1>0, <1>2, <1>3 DEF TypeOK, Body, Reply, Signalled, AgentState
<1>5. StagesAgree'
  BY <1>0, <1>1 DEF TypeOK, StagesAgree, Launched, Live, Finished, Signalled
<1>6. IndexesMatchSlots'
  BY <1>0, <1>1, <1>2, <1>3 DEF IndexesMatchSlots, TypeOK
<1>7. CancellingIsSignalled'
  BY <1>0 DEF CancellingIsSignalled, Signalled, TypeOK, StagesAgree, Live
<1>8. ResultBuffersAgree'
  BY <1>0, <1>1, <1>2 DEF ResultBuffersAgree, Finished, TypeOK
<1>9. KeyRemembered' /\ KeyRunsOnce'
  BY <1>0, <1>1 DEF KeyRemembered, KeyRunsOnce, Launched, IsChecked, TypeOK
<1>10. DuplicateNamesTheRun'
  BY <1>0, <1>1 DEF DuplicateNamesTheRun, Duplicate, Launched, Finished, TypeOK
<1>11. QED
  BY <1>4, <1>5, <1>6, <1>7, <1>8, <1>9, <1>10

\* An accepted request takes a free session and an unused key, and every index learns of it.
LEMMA AcceptKeeps ==
    ASSUME IInv, NEW r \in Request, NEW s \in Session \cup {NoSession},
           NEW k \in Key \cup {NoKey}, Accept(r, s, k)
    PROVE  IInv'
<1> USE ReapKeepsResults, RequestsAssumption DEF IInv
<1>0. /\ reply[r] = "none"
      /\ body' = [body EXCEPT ![r] = [session |-> s, key |-> k]]
      /\ reply' = [reply EXCEPT ![r] = "busy"]
      /\ slots' = slots \cup {r}
      /\ requestIdToSlotKey' = requestIdToSlotKey \cup {r}
      /\ activeSessions' = [t \in Session |-> IF t = s THEN r ELSE activeSessions[t]]
      /\ activeByIdempotencyKey' = [j \in Key |-> IF j = k THEN r ELSE activeByIdempotencyKey[j]]
      /\ agent' = [Signalled(agent, StaleSlots) EXCEPT ![r] = "running"]
      /\ cancelling' = cancelling \cup StaleSlots
      /\ StaleSlots \subseteq slots
      /\ completedBySessionKey' =
           [t \in Session |-> IF t = s THEN NoRequest ELSE completedBySessionKey[t]]
      /\ UNCHANGED <<original, completedByRequestId, completedByIdempotencyKey, stale, old>>
  BY DEF Accept, Receive, clockVars, StaleSlots, CancellingAfterReap, SessionsAfterAcquire,
         KeysAfterAcquire, SessionResultsAfterAcquire
<1>1. r \notin slots /\ agent[r] = "idle" /\ ~Finished(r) /\ ~Launched(r)
  BY <1>0 DEF StagesAgree, Launched, Live, TypeOK
<1>2. \A q \in slots : body[q].session = s => s = NoSession
  <2>1. s \in Session => activeSessions[s] = NoRequest
    BY DEF Accept, SessionBusy
  <2>2. QED
    BY <2>1 DEF IndexesMatchSlots, TypeOK
<1>3. IsChecked(k) =>
        /\ completedByIdempotencyKey[k] = NoRequest
        /\ \A q \in slots : body[q].key # k
  <2>1. IsChecked(k) => activeByIdempotencyKey[k] \notin slots
    BY DEF Accept, PassesIdempotency, ActiveTwin
  <2>2. IsChecked(k) => completedByIdempotencyKey[k] = NoRequest
    BY <2>1 DEF Accept, PassesIdempotency, FinishedTwin, ActiveTwin
  <2>3. ASSUME NEW q \in slots, body[q].key = k, IsChecked(k)
        PROVE FALSE
    <3>1. q \in Request /\ k \in Key \ UncheckedKey
      BY <2>3 DEF TypeOK, IsChecked
    <3>2. activeByIdempotencyKey[k] = q
      BY <2>3, <3>1 DEF IndexesMatchSlots
    <3>3. QED
      BY <2>1, <2>3, <3>2
  <2>4. QED
    BY <2>2, <2>3
<1>4. IsChecked(k) => \A q \in Request : Launched(q) => body[q].key # k
  BY <1>3 DEF KeyRemembered
<1>5. TypeOK'
  BY <1>0 DEF TypeOK, Body, Reply, Signalled, AgentState
<1>6. StagesAgree'
  BY <1>0, <1>1 DEF TypeOK, StagesAgree, Launched, Live, Finished, Signalled
<1>7. IndexesMatchSlots'
  <2>1. requestIdToSlotKey' = slots' /\ cancelling' \subseteq slots'
    BY <1>0 DEF IndexesMatchSlots
  <2>2. ASSUME NEW t \in Session, NEW q \in Request
        PROVE activeSessions'[t] = q <=> q \in slots' /\ body'[q].session = t
    BY <1>0, <1>1, <1>2 DEF IndexesMatchSlots, TypeOK
  <2>3. ASSUME NEW j \in Key \ UncheckedKey, NEW q \in Request
        PROVE activeByIdempotencyKey'[j] = q <=> q \in slots' /\ body'[q].key = j
    BY <1>0, <1>1, <1>3 DEF IndexesMatchSlots, TypeOK, IsChecked
  <2>4. QED
    BY <2>1, <2>2, <2>3 DEF IndexesMatchSlots
<1>8. CancellingIsSignalled'
  BY <1>0, <1>1 DEF CancellingIsSignalled, Signalled, TypeOK, StagesAgree, Live, IndexesMatchSlots
<1>9. ResultBuffersAgree'
  <2>1. ASSUME NEW t \in Session, completedBySessionKey'[t] # NoRequest
        PROVE /\ Finished(completedBySessionKey[t])'
              /\ body'[completedBySessionKey'[t]].session = t
              /\ \A q \in slots' : body'[q].session # t
    <3>1. completedBySessionKey'[t] = completedBySessionKey[t] /\ t # s
      BY <1>0, <2>1
    <3>2. completedBySessionKey[t] # r
      BY <1>1, <2>1, <3>1 DEF ResultBuffersAgree
    <3>3. QED
      BY <1>0, <2>1, <3>1, <3>2 DEF ResultBuffersAgree, Finished, TypeOK
  <2>2. ASSUME NEW j \in Key, completedByIdempotencyKey'[j] # NoRequest
        PROVE Finished(completedByIdempotencyKey[j])' /\ body'[completedByIdempotencyKey'[j]].key = j
    BY <1>0, <1>1, <2>2 DEF ResultBuffersAgree, Finished, TypeOK
  <2>3. QED
    BY <2>1, <2>2 DEF ResultBuffersAgree
<1>10. KeyRemembered'
  BY <1>0, <1>1 DEF KeyRemembered, Launched, IsChecked, TypeOK
<1>11. KeyRunsOnce'
  BY <1>0, <1>1, <1>4 DEF KeyRunsOnce, Launched, IsChecked, TypeOK
<1>12. DuplicateNamesTheRun'
  BY <1>0, <1>1 DEF DuplicateNamesTheRun, Duplicate, Launched, Finished, TypeOK
<1>13. QED
  BY <1>5, <1>6, <1>7, <1>8, <1>9, <1>10, <1>11, <1>12

\* A cancel marks a held slot and signals its agent.
LEMMA CancelKeeps == ASSUME IInv, NEW r \in Request, CancelRequest(r) PROVE IInv'
<1> USE DEF IInv
<1>0. /\ r \in slots
      /\ cancelling' = cancelling \cup {r}
      /\ agent' = Signalled(agent, {r})
      /\ UNCHANGED <<body, reply, original, slots, requestIdToSlotKey, activeSessions,
           activeByIdempotencyKey, completedByRequestId, completedBySessionKey,
           completedByIdempotencyKey, stale, old>>
  BY DEF CancelRequest, httpVars, resultVars, clockVars
<1>1. TypeOK'
  BY <1>0 DEF TypeOK, Signalled, AgentState
<1>2. StagesAgree'
  BY <1>0 DEF TypeOK, StagesAgree, Launched, Live, Finished, Signalled
<1>3. IndexesMatchSlots'
  BY <1>0 DEF IndexesMatchSlots
<1>4. CancellingIsSignalled'
  BY <1>0 DEF CancellingIsSignalled, Signalled, TypeOK, StagesAgree, Live
<1>5. ResultBuffersAgree'
  BY <1>0 DEF ResultBuffersAgree, Finished
<1>6. KeyRemembered' /\ KeyRunsOnce' /\ DuplicateNamesTheRun'
  BY <1>0 DEF KeyRemembered, KeyRunsOnce, DuplicateNamesTheRun, Launched, Duplicate, Finished, IsChecked
<1>7. QED
  BY <1>1, <1>2, <1>3, <1>4, <1>5, <1>6

\* A settled run leaves a record in every buffer and its slot in no index.
LEMMA SettleKeeps ==
    ASSUME IInv, NEW r \in Request, NEW outcome \in Outcome, Settle(r, outcome)
    PROVE  IInv'
<1> USE RequestsAssumption DEF IInv
<1>1. r \in slots /\ Launched(r) /\ ~Finished(r) /\ agent[r] \in {"running", "stopping"}
  BY DEF Settle, StagesAgree, Live, Finished
<1>2. /\ slots' = slots \ {r}
      /\ cancelling' = cancelling \ {r}
      /\ requestIdToSlotKey' = requestIdToSlotKey \ {r}
      /\ stale' = stale \ {r}
      /\ agent' = [agent EXCEPT ![r] = "settled"]
      /\ completedByRequestId' = [completedByRequestId EXCEPT ![r] = outcome]
      /\ completedBySessionKey' =
           [t \in Session |-> IF t = body[r].session THEN r ELSE completedBySessionKey[t]]
      /\ completedByIdempotencyKey' =
           [j \in Key |-> IF j = body[r].key THEN r ELSE completedByIdempotencyKey[j]]
      /\ activeSessions' =
           [t \in Session |-> IF t = body[r].session /\ activeSessions[t] = r
                              THEN NoRequest ELSE activeSessions[t]]
      /\ activeByIdempotencyKey' =
           [j \in Key |-> IF j = body[r].key THEN NoRequest ELSE activeByIdempotencyKey[j]]
      /\ UNCHANGED <<body, reply, original, old>>
  BY <1>1 DEF Settle, Entry, StoredOutcome, SessionsAfterAcquire, KeysAfterAcquire,
              SessionsAfterRelease, KeysAfterRelease, httpVars
<1>3. outcome # NoOutcome
  BY DEF Outcome, NoOutcome
<1>4. \A q \in slots : q # r /\ body[q].session = body[r].session => body[r].session = NoSession
  BY <1>1 DEF IndexesMatchSlots, TypeOK, Body
<1>5. TypeOK'
  BY <1>2 DEF TypeOK, AgentState
<1>6. StagesAgree'
  BY <1>1, <1>2, <1>3 DEF TypeOK, StagesAgree, Launched, Live, Finished
<1>7. IndexesMatchSlots'
  <2>1. requestIdToSlotKey' = slots' /\ cancelling' \subseteq slots'
    BY <1>2 DEF IndexesMatchSlots
  <2>2. ASSUME NEW t \in Session, NEW q \in Request
        PROVE activeSessions'[t] = q <=> q \in slots' /\ body'[q].session = t
    BY <1>1, <1>2 DEF IndexesMatchSlots, TypeOK
  <2>3. ASSUME NEW j \in Key \ UncheckedKey, NEW q \in Request
        PROVE activeByIdempotencyKey'[j] = q <=> q \in slots' /\ body'[q].key = j
    BY <1>1, <1>2 DEF IndexesMatchSlots, TypeOK
  <2>4. QED
    BY <2>1, <2>2, <2>3 DEF IndexesMatchSlots
<1>8. CancellingIsSignalled'
  BY <1>2 DEF CancellingIsSignalled, TypeOK
<1>9. ResultBuffersAgree'
  <2>1. \A q \in Request : Finished(q) => Finished(q)'
    BY <1>2, <1>3 DEF Finished, TypeOK
  <2>2. Finished(r)'
    BY <1>2, <1>3 DEF Finished, TypeOK
  <2>3. ASSUME NEW t \in Session, completedBySessionKey'[t] # NoRequest
        PROVE /\ Finished(completedBySessionKey[t])'
              /\ body'[completedBySessionKey'[t]].session = t
              /\ \A q \in slots' : body'[q].session # t
    BY <1>2, <1>4, <2>1, <2>2, <2>3 DEF ResultBuffersAgree, TypeOK
  <2>4. ASSUME NEW j \in Key, completedByIdempotencyKey'[j] # NoRequest
        PROVE Finished(completedByIdempotencyKey[j])' /\ body'[completedByIdempotencyKey'[j]].key = j
    BY <1>2, <2>1, <2>2, <2>4 DEF ResultBuffersAgree, TypeOK
  <2>5. QED
    BY <2>3, <2>4 DEF ResultBuffersAgree
<1>10. KeyRemembered'
  <2> SUFFICES ASSUME NEW q \in Request, Launched(q), IsChecked(body[q].key), q \notin slots'
               PROVE completedByIdempotencyKey'[body[q].key] = q
    BY <1>2 DEF KeyRemembered, Launched, IsChecked
  <2>1. CASE q = r
    BY <1>2, <2>1 DEF IsChecked
  <2>2. CASE q # r
    <3>1. body[q].key # body[r].key
      BY <1>1, <2>2 DEF KeyRunsOnce
    <3>2. QED
      BY <1>2, <2>2, <3>1 DEF KeyRemembered, IsChecked
  <2>3. QED
    BY <2>1, <2>2
<1>11. KeyRunsOnce'
  BY <1>2 DEF KeyRunsOnce, Launched, IsChecked
<1>12. DuplicateNamesTheRun'
  BY <1>2, <1>3 DEF DuplicateNamesTheRun, Duplicate, Launched, Finished, TypeOK
<1>13. QED
  BY <1>5, <1>6, <1>7, <1>8, <1>9, <1>10, <1>11, <1>12

\* The clock touches nothing the invariant speaks of but its own two sets.
LEMMA ClockKeeps ==
    ASSUME IInv, NEW r \in Request, BecomeStale(r) \/ BecomeOld(r)
    PROVE  IInv'
<1>1. /\ stale' \subseteq Request /\ old' \subseteq Request
      /\ UNCHANGED <<httpVars, slotVars, resultVars, agent>>
  BY DEF BecomeStale, BecomeOld, IInv, TypeOK
<1>2. QED
  BY <1>1 DEF IInv, TypeOK, StagesAgree, IndexesMatchSlots, CancellingIsSignalled,
              ResultBuffersAgree, KeyRemembered, KeyRunsOnce, DuplicateNamesTheRun, Launched,
              Live, Finished, Duplicate, IsChecked, httpVars, slotVars, resultVars

\* Every step of the gateway keeps the invariant.
LEMMA StepKeeps == IInv /\ [Next]_vars => IInv'
<1> SUFFICES ASSUME IInv, [Next]_vars PROVE IInv'
  OBVIOUS
<1>1. CASE Poll
  BY <1>1, PollKeeps
<1>2. ASSUME NEW r \in Request, Submit(r) PROVE IInv'
  <2>1. CASE RefuseRequest(r)
    BY <2>1, EarlyRefusalKeeps
  <2>2. ASSUME NEW s \in Session \cup {NoSession}, NEW k \in Key \cup {NoKey},
               AnswerActiveDuplicate(r, s, k) \/ AnswerFinishedDuplicate(r, s, k)
        PROVE  IInv'
    BY <2>2, DuplicateKeeps
  <2>3. ASSUME NEW s \in Session \cup {NoSession}, NEW k \in Key \cup {NoKey},
               RejectBusySession(r, s, k) \/ FailFileTransfer(r, s, k)
        PROVE  IInv'
    BY <2>3, RefusalKeeps
  <2>4. ASSUME NEW s \in Session \cup {NoSession}, NEW k \in Key \cup {NoKey}, Accept(r, s, k)
        PROVE  IInv'
    BY <2>4, AcceptKeeps
  <2>5. QED
    BY <1>2, <2>1, <2>2, <2>3, <2>4 DEF Submit
<1>3. ASSUME NEW r \in Request, CancelRequest(r) PROVE IInv'
  BY <1>3, CancelKeeps
<1>4. ASSUME NEW r \in Request, NEW outcome \in Outcome, Settle(r, outcome) PROVE IInv'
  BY <1>4, SettleKeeps
<1>5. ASSUME NEW r \in Request, BecomeStale(r) \/ BecomeOld(r) PROVE IInv'
  BY <1>5, ClockKeeps
<1>6. CASE UNCHANGED vars
  BY <1>6 DEF vars, httpVars, slotVars, resultVars, clockVars, IInv, TypeOK, StagesAgree,
              IndexesMatchSlots, CancellingIsSignalled, ResultBuffersAgree, KeyRemembered,
              KeyRunsOnce, DuplicateNamesTheRun, Launched, Live, Finished, Duplicate, IsChecked
<1>7. QED
  BY <1>1, <1>2, <1>3, <1>4, <1>5, <1>6 DEF Next

\* The inductive invariant holds in every reachable state, for any number of requests.
THEOREM Invariant == Spec => []IInv
  BY InitEstablishes, StepKeeps, PTL DEF Spec

\* Type correctness of the slot table, the indexes and the buffers.
THEOREM TypeCorrect == Spec => []TypeOK
<1>1. IInv => TypeOK
  BY DEF IInv
<1>2. QED
  BY <1>1, Invariant, PTL

\* Session locking: two agents never run in one session at a time.
THEOREM SessionLocking == Spec => []OneRunPerSession
<1>1. IInv => OneRunPerSession
  BY DEF IInv, OneRunPerSession, StagesAgree, IndexesMatchSlots, TypeOK, Body
<1>2. QED
  BY <1>1, Invariant, PTL

\* Idempotency: a checked key launches at most one agent, however often it is retried.
THEOREM Idempotency == Spec => []KeyRunsOnce
<1>1. IInv => KeyRunsOnce
  BY DEF IInv
<1>2. QED
  BY <1>1, Invariant, PTL

\* An accepted request can be asked for and is told of as it is: by both identifiers while its
\* agent runs, as completed once it has settled, and never as unknown.
THEOREM NothingAcceptedIsLost == Spec => []AcceptedIsAnswerable
<1>1. IInv => AcceptedIsAnswerable
  <2> SUFFICES ASSUME IInv, NEW r \in Request
               PROVE /\ Launched(r) => RequestStatus(r) # "unknown"
                     /\ RequestStatus(r) \in {"busy", "cancelling"} <=> Live(r)
                     /\ RequestStatus(r) = "cancelling" => agent[r] = "stopping"
                     /\ RequestStatus(r) = "completed" => agent[r] = "settled"
                     /\ Live(r) /\ body[r].session # NoSession =>
                          SessionStatus(body[r].session) = RequestStatus(r)
    BY DEF AcceptedIsAnswerable
  <2>1. agent[r] \in {"idle", "running", "stopping", "settled"}
    BY DEF IInv, TypeOK, AgentState
  <2>2. r \in requestIdToSlotKey \cap slots <=> Live(r)
    BY DEF IInv, StagesAgree, IndexesMatchSlots
  <2>3. CASE Live(r)
    <3>1. /\ RequestStatus(r) = StateOf(r)
          /\ StateOf(r) \in {"busy", "cancelling"}
          /\ StateOf(r) = "cancelling" => r \in cancelling
      BY <2>2, <2>3 DEF RequestStatus, StateOf
    <3>2. r \in cancelling => agent[r] = "stopping"
      BY DEF IInv, CancellingIsSignalled
    <3>3. ASSUME body[r].session # NoSession
          PROVE  SessionStatus(body[r].session) = StateOf(r)
      <4>1. body[r].session \in Session
        BY <3>3 DEF IInv, TypeOK, Body
      <4>2. activeSessions[body[r].session] = r
        BY <2>2, <2>3, <4>1 DEF IInv, IndexesMatchSlots
      <4>3. QED
        BY <2>2, <2>3, <4>2 DEF SessionStatus
    <3>4. QED
      BY <2>3, <3>1, <3>2, <3>3
  <2>4. CASE ~Live(r)
    <3>1. RequestStatus(r) = IF Finished(r) THEN "completed" ELSE "unknown"
      BY <2>2, <2>4 DEF RequestStatus, Finished
    <3>2. Launched(r) => Finished(r)
      BY <2>1, <2>4 DEF IInv, StagesAgree, Live
    <3>3. Finished(r) => agent[r] = "settled"
      BY DEF IInv, StagesAgree
    <3>4. QED
      BY <2>4, <3>1, <3>2, <3>3
  <2>5. QED
    BY <2>3, <2>4
<1>2. QED
  BY <1>1, Invariant, PTL

\* The indexes of the slot table name exactly the held slots.
THEOREM IndexesAgree == Spec => []IndexesMatchSlots
<1>1. IInv => IndexesMatchSlots
  BY DEF IInv
<1>2. QED
  BY <1>1, Invariant, PTL

\* Every slot marked as cancelling has had its agent signalled.
THEOREM CancelReachesAgent == Spec => []CancellingIsSignalled
<1>1. IInv => CancellingIsSignalled
  BY DEF IInv
<1>2. QED
  BY <1>1, Invariant, PTL

\* A session is unlocked only in the step that ends its agent and stores the record.
THEOREM SessionHeldUntilSettled == Spec => NoEarlyRelease
<1> DEFINE Kept1 == \A r \in slots \ slots' :
                      agent'[r] = "settled" /\ completedByRequestId'[r] # NoOutcome
<1>1. IInv /\ [Next]_vars => [Kept1]_vars
  <2> SUFFICES ASSUME IInv, [Next]_vars, NEW q \in slots \ slots'
               PROVE  agent'[q] = "settled" /\ completedByRequestId'[q] # NoOutcome
    OBVIOUS
  <2>1. PICK r \in Request, outcome \in Outcome : Settle(r, outcome)
    <3>1. slots' # slots
      OBVIOUS
    <3>2. ~UNCHANGED vars
      BY <3>1 DEF vars, slotVars
    <3>3. ~Poll
      BY <3>1 DEF Poll
    <3>4. ASSUME NEW r \in Request, Submit(r) PROVE FALSE
      BY <3>4 DEF Submit, RefuseRequest, AnswerActiveDuplicate, AnswerFinishedDuplicate,
                  RejectBusySession, FailFileTransfer, Accept, slotVars
    <3>5. ASSUME NEW r \in Request, CancelRequest(r) \/ BecomeStale(r) \/ BecomeOld(r) PROVE FALSE
      BY <3>1, <3>5 DEF CancelRequest, BecomeStale, BecomeOld, slotVars
    <3>6. QED
      BY <3>2, <3>3, <3>4, <3>5 DEF Next
  <2>2. q = r /\ agent'[r] = "settled"
    BY <2>1 DEF Settle, IInv, TypeOK
  <2>3. completedByRequestId'[r] = outcome
    BY <2>1, <2>2 DEF Settle, StoredOutcome, IInv, TypeOK
  <2>4. QED
    BY <2>2, <2>3 DEF Outcome, NoOutcome
<1>2. QED
  BY <1>1, Invariant, PTL DEF Spec, NoEarlyRelease

----
\* The gateway implements the contract: its initial state is the contract's.
LEMMA InitRefines == Init => Contract!Init
<1> SUFFICES ASSUME Init PROVE Contract!Init
  OBVIOUS
<1>1. Phase = [r \in Request |-> "new"]
  BY DEF Init, Phase
<1>2. QED
  BY <1>1 DEF Init, Contract!Init

\* Where the gateway runs something, the contract runs it too.
LEMMA PhaseOfRun ==
    ASSUME IInv, NEW r \in Request
    PROVE  /\ Phase[r] = "new" <=> reply[r] = "none"
           /\ Phase[r] = "running" <=> Live(r)
           /\ Phase[r] \in {"running", "done"} <=> Launched(r)
<1>1. Live(r) => Launched(r)
  BY DEF IInv, StagesAgree, Live
<1>2. Launched(r) <=> reply[r] = "busy"
  BY DEF Launched
<1>3. QED
  BY <1>1, <1>2 DEF Phase

\* A step that gives no answer, and ends no run, leaves the phases alone.
LEMMA PhaseKept ==
    ASSUME reply' = reply, \A q \in Request : Live(q)' <=> Live(q)
    PROVE  Phase' = Phase
  BY DEF Phase, Launched, Duplicate

\* Signalling an agent leaves it live.
LEMMA SignalKeepsLive ==
    ASSUME TypeOK, NEW T, NEW q \in Request
    PROVE  Signalled(agent, T)[q] \in {"running", "stopping"} <=> Live(q)
  BY DEF Signalled, Live, TypeOK

\* The phase an answer that launches nothing puts its submission in.
PhaseOf(answer) ==
    IF answer \in {"duplicate_active", "duplicate_completed"} THEN "replayed"
    ELSE IF answer = "session_busy" THEN "locked" ELSE "refused"

\* An answer that launches nothing moves its own submission, and no other, out of "new".
LEMMA PhaseOfAnswer ==
    ASSUME IInv, NEW r \in Request, NEW answer \in Reply \ {"none", "busy"},
           reply[r] = "none", reply' = [reply EXCEPT ![r] = answer],
           \A q \in Request : Live(q)' <=> Live(q)
    PROVE  Phase' = [Phase EXCEPT ![r] = PhaseOf(answer)]
<1>1. reply \in [Request -> Reply]
  BY DEF IInv, TypeOK
<1>2. ASSUME NEW q \in Request, q # r
      PROVE Phase'[q] = Phase[q]
  BY <1>1, <1>2 DEF Phase, Launched, Duplicate
<1>3. Phase'[r] = PhaseOf(answer)
  BY <1>1 DEF Phase, Launched, Duplicate, Reply, PhaseOf
<1>4. QED
  BY <1>2, <1>3 DEF Phase

\* A submission the gateway cannot read is refused by the contract too.
LEMMA EarlyRefusalRefines ==
    ASSUME IInv, NEW r \in Request, RefuseRequest(r)
    PROVE  Contract!Next
<1> DEFINE t == [session |-> NoSession, key |-> NoKey]
<1>1. t \in Contract!Terms
  BY DEF Contract!Terms
<1>2. /\ reply[r] = "none" /\ UNCHANGED <<original, agent>>
      /\ body' = [body EXCEPT ![r] = t]
      /\ reply' = [reply EXCEPT ![r] = "invalid_request"]
  BY DEF RefuseRequest, Receive
<1>3. Phase' = [Phase EXCEPT ![r] = "refused"]
  BY <1>2, PhaseOfAnswer DEF Reply, Live, PhaseOf
<1>4. Phase[r] = "new"
  BY <1>2, PhaseOfRun
<1>5. Contract!Refuse(r, t)
  BY <1>2, <1>3, <1>4 DEF Contract!Refuse, Contract!Receive
<1>6. QED
  BY <1>1, <1>5 DEF Contract!Next

\* A refusal of the gateway is one of the contract, a duplicate a replay, and a session that is
\* refused as busy is one that a run is on in.
LEMMA AnswerRefines ==
    ASSUME IInv, IInv', NEW r \in Request, NEW s \in Session \cup {NoSession},
           NEW k \in Key \cup {NoKey},
           \/ AnswerActiveDuplicate(r, s, k)
           \/ AnswerFinishedDuplicate(r, s, k)
           \/ RejectBusySession(r, s, k)
           \/ FailFileTransfer(r, s, k)
    PROVE  Contract!Next
<1> DEFINE t == [session |-> s, key |-> k]
<1>1. t \in Contract!Terms
  BY DEF Contract!Terms
<1>2. CASE AnswerActiveDuplicate(r, s, k) \/ AnswerFinishedDuplicate(r, s, k)
  <2>1. /\ reply[r] = "none" /\ UNCHANGED agent
        /\ body' = [body EXCEPT ![r] = t]
        /\ \E answer \in {"duplicate_active", "duplicate_completed"} :
             reply' = [reply EXCEPT ![r] = answer]
    BY <1>2 DEF AnswerActiveDuplicate, AnswerFinishedDuplicate, Receive
  <2>2. Phase' = [Phase EXCEPT ![r] = "replayed"]
    BY <2>1, PhaseOfAnswer DEF Reply, Live, PhaseOf
  <2>3. Phase[r] = "new"
    BY <2>1, PhaseOfRun
  <2>4. PICK q \in Request : original' = [original EXCEPT ![r] = q]
    <3>1. original[r]' \in Request
      <4>1. Duplicate(r)'
        BY <2>1 DEF Duplicate, IInv, TypeOK
      <4>2. QED
        BY <4>1 DEF IInv, DuplicateNamesTheRun
    <3>2. PICK x : original' = [original EXCEPT ![r] = x]
      BY <1>2 DEF AnswerActiveDuplicate, AnswerFinishedDuplicate
    <3>3. QED
      BY <3>1, <3>2 DEF IInv, TypeOK
  <2>5. original'[r] = q
    BY <2>4 DEF IInv, TypeOK
  <2>6. Launched(q)' /\ body'[q].key = body'[r].key /\ Duplicate(r)'
    BY <2>1, <2>5 DEF Duplicate, IInv, TypeOK, DuplicateNamesTheRun
  <2>7. q # r
    BY <2>6 DEF Duplicate, Launched
  <2>8. Launched(q) /\ body[q].key = k
    BY <2>1, <2>6, <2>7 DEF Launched, IInv, TypeOK
  <2>9. Phase[q] \in {"running", "done"}
    BY <2>8, PhaseOfRun
  <2>10. k \in Key \ UncheckedKey
    BY <1>2 DEF AnswerActiveDuplicate, AnswerFinishedDuplicate, ActiveTwin, FinishedTwin, IsChecked
  <2>11. Contract!Replay(r, t)
    BY <2>1, <2>2, <2>3, <2>4, <2>8, <2>9, <2>10 DEF Contract!Replay, Contract!Receive, Contract!Run
  <2>12. QED
    BY <1>1, <2>11 DEF Contract!Next
<1>3. ASSUME NEW answer \in {"session_busy", "file_transfer_error"}, Receive(r, s, k, answer),
             agent' = Signalled(agent, StaleSlots), UNCHANGED original
      PROVE  /\ Phase[r] = "new"
             /\ Phase' = [Phase EXCEPT ![r] = PhaseOf(answer)]
             /\ body' = [body EXCEPT ![r] = t]
  <2>1. /\ reply[r] = "none"
        /\ body' = [body EXCEPT ![r] = t]
        /\ reply' = [reply EXCEPT ![r] = answer]
    BY <1>3 DEF Receive
  <2>2. \A q \in Request : Live(q)' <=> Live(q)
    BY <1>3, SignalKeepsLive DEF Live, IInv
  <2>3. QED
    BY <2>1, <2>2, PhaseOfAnswer, PhaseOfRun DEF Reply
<1>4. CASE FailFileTransfer(r, s, k)
  <2>1. /\ Receive(r, s, k, "file_transfer_error") /\ UNCHANGED original
        /\ agent' = Signalled(agent, StaleSlots)
    BY <1>4 DEF FailFileTransfer
  <2>2. Contract!Refuse(r, t)
    BY <1>3, <2>1 DEF Contract!Refuse, Contract!Receive, PhaseOf
  <2>3. QED
    BY <1>1, <2>2 DEF Contract!Next
<1>5. CASE RejectBusySession(r, s, k)
  <2>1. /\ Receive(r, s, k, "session_busy") /\ UNCHANGED original
        /\ agent' = Signalled(agent, StaleSlots)
        /\ s \in Session /\ activeSessions[s] # NoRequest
    BY <1>5 DEF RejectBusySession, SessionBusy
  <2>2. PICK q \in Request : activeSessions[s] = q
    BY <2>1 DEF IInv, TypeOK
  <2>3. Live(q) /\ body[q].session = s
    BY <2>1, <2>2 DEF IInv, IndexesMatchSlots, StagesAgree
  <2>4. Contract!InUse(s)
    BY <2>3, PhaseOfRun DEF Contract!InUse, Contract!Run
  <2>5. Contract!Lock(r, t)
    BY <1>3, <2>1, <2>4, RequestsAssumption DEF Contract!Lock, Contract!Receive, PhaseOf
  <2>6. QED
    BY <1>1, <2>5 DEF Contract!Next
<1>6. QED
  BY <1>2, <1>4, <1>5

\* An accepted request is a run the contract may start.
LEMMA AcceptRefines ==
    ASSUME IInv, IInv', NEW r \in Request, NEW s \in Session \cup {NoSession},
           NEW k \in Key \cup {NoKey}, Accept(r, s, k)
    PROVE  Contract!Next
<1> DEFINE t == [session |-> s, key |-> k]
<1>1. t \in Contract!Terms
  BY DEF Contract!Terms
<1>2. /\ reply[r] = "none" /\ UNCHANGED original
      /\ agent' = [Signalled(agent, StaleSlots) EXCEPT ![r] = "running"]
      /\ body' = [body EXCEPT ![r] = t]
      /\ reply' = [reply EXCEPT ![r] = "busy"]
  BY DEF Accept, Receive
<1>3. Phase' = [Phase EXCEPT ![r] = "running"]
  <2>1. \A q \in Request : q # r => (Live(q)' <=> Live(q))
    BY <1>2, SignalKeepsLive DEF Live, IInv, TypeOK, Signalled
  <2>2. Live(r)'
    BY <1>2 DEF Live, IInv, TypeOK, Signalled
  <2>3. ASSUME NEW q \in Request, q # r
        PROVE Phase'[q] = Phase[q]
    BY <1>2, <2>1, <2>3 DEF Phase, Launched, Duplicate, IInv, TypeOK
  <2>4. Phase'[r] = "running"
    BY <1>2, <2>2 DEF Phase, Launched, IInv, TypeOK
  <2>5. QED
    BY <2>3, <2>4 DEF Phase
<1>4. Phase[r] = "new"
  BY <1>2, PhaseOfRun
<1>5. ~Launched(r)
  BY <1>2 DEF Launched
<1>6. ASSUME s # NoSession, NEW q \in Request, Phase[q] = "running"
      PROVE body[q].session # s
  <2>1. q \in slots
    BY <1>6, PhaseOfRun DEF IInv, StagesAgree
  <2>2. activeSessions[s] = NoRequest
    BY <1>6 DEF Accept, SessionBusy
  <2>3. QED
    BY <1>6, <2>1, <2>2, RequestsAssumption DEF IInv, IndexesMatchSlots
<1>7. ASSUME k \in Key \ UncheckedKey, NEW q \in Request, Phase[q] \in {"running", "done"}
      PROVE body[q].key # k
  <2>1. Launched(q) /\ q # r
    BY <1>5, <1>7, PhaseOfRun
  <2>2. /\ Launched(r)' /\ body'[r].key = k
        /\ Launched(q)' /\ body'[q].key = body[q].key
    BY <1>2, <2>1 DEF Launched, IInv, TypeOK
  <2>3. QED
    BY <1>7, <2>1, <2>2 DEF IInv, KeyRunsOnce, IsChecked
<1>8. Contract!Start(r, t)
  BY <1>2, <1>3, <1>4, <1>6, <1>7 DEF Contract!Start, Contract!InUse, Contract!Receive, Contract!Run
<1>9. QED
  BY <1>1, <1>8 DEF Contract!Next

\* A settled agent is a finished run of the contract.
LEMMA SettleRefines ==
    ASSUME IInv, NEW r \in Request, NEW outcome \in Outcome, Settle(r, outcome)
    PROVE  Contract!Next
<1>1. /\ Live(r) /\ UNCHANGED <<reply, body, original>>
      /\ agent' = [agent EXCEPT ![r] = "settled"]
  BY DEF Settle, httpVars, Live
<1>2. Launched(r)
  BY <1>1 DEF IInv, StagesAgree, Live
<1>3. Phase' = [Phase EXCEPT ![r] = "done"]
  BY <1>1, <1>2 DEF Phase, Launched, Duplicate, Live, IInv, TypeOK
<1>4. Contract!Finish(r)
  BY <1>1, <1>3, PhaseOfRun DEF Contract!Finish
<1>5. QED
  BY <1>4 DEF Contract!Next

\* Every other step is invisible to the contract.
LEMMA HiddenSteps ==
    ASSUME IInv,
           \/ Poll
           \/ \E r \in Request : CancelRequest(r) \/ BecomeStale(r) \/ BecomeOld(r)
           \/ UNCHANGED vars
    PROVE  UNCHANGED <<Phase, body, original>>
<1>1. UNCHANGED httpVars
  BY DEF Poll, CancelRequest, BecomeStale, BecomeOld, vars
<1>2. agent' = agent \/ \E T : agent' = Signalled(agent, T)
  BY DEF Poll, CancelRequest, BecomeStale, BecomeOld, vars
<1>3. \A q \in Request : Live(q)' <=> Live(q)
  BY <1>2, SignalKeepsLive DEF Live, IInv
<1>4. QED
  BY <1>1, <1>3, PhaseKept DEF httpVars

\* The gateway implements the safety half of the contract: every step of the gateway starts,
\* refuses, replays or finishes a submission as the contract allows, or is invisible to it.
THEOREM ContractKept == Spec => Contract!Spec
<1>1. IInv /\ IInv' /\ [Next]_vars => [Contract!Next]_(Contract!contractVars)
  <2> SUFFICES ASSUME IInv, IInv', [Next]_vars
               PROVE  Contract!Next \/ UNCHANGED <<Phase, body, original>>
    BY DEF Contract!contractVars
  <2>1. CASE \/ Poll
             \/ \E r \in Request : CancelRequest(r) \/ BecomeStale(r) \/ BecomeOld(r)
             \/ UNCHANGED vars
    BY <2>1, HiddenSteps
  <2>2. ASSUME NEW r \in Request, Submit(r)
        PROVE  Contract!Next
    <3>1. CASE RefuseRequest(r)
      BY <3>1, EarlyRefusalRefines
    <3>2. ASSUME NEW s \in Session \cup {NoSession}, NEW k \in Key \cup {NoKey}, Accept(r, s, k)
          PROVE  Contract!Next
      BY <3>2, AcceptRefines
    <3>3. QED
      BY <2>2, <3>1, <3>2, AnswerRefines DEF Submit
  <2>3. ASSUME NEW r \in Request, NEW outcome \in Outcome, Settle(r, outcome)
        PROVE  Contract!Next
    BY <2>3, SettleRefines
  <2>4. QED
    BY <2>1, <2>2, <2>3 DEF Next
<1>2. QED
  BY <1>1, InitRefines, Invariant, PTL DEF Spec, Contract!Spec

----
\* What AgentRun lets a run do in a step.
AgentMoves(r) == Agents!Launch(r) \/ Agents!Stop(r) \/ Agents!End(r) \/ Agents!Rest(r)

\* Signalling agents asks some running ones to stop, and is nothing new to the others.
LEMMA SignalIsStop ==
    ASSUME TypeOK, NEW T, agent' = Signalled(agent, T),
           completedByRequestId' = completedByRequestId, NEW r \in Request
    PROVE  Agents!Stop(r) \/ Agents!Rest(r)
<1>1. agent'[r] = IF r \in T /\ agent[r] = "running" THEN "stopping" ELSE agent[r]
  BY DEF Signalled
<1>2. QED
  BY <1>1 DEF Agents!Stop, Agents!Rest

\* A submission launches the agent of its own request, which was idle, or only reaps.
LEMMA SubmitMovesAgents ==
    ASSUME IInv, NEW r \in Request, Submit(r), NEW q \in Request
    PROVE  AgentMoves(q)
<1>0. TypeOK
  BY DEF IInv
<1>1. CASE RefuseRequest(r)
  BY <1>1 DEF RefuseRequest, resultVars, AgentMoves, Agents!Rest
<1>2. ASSUME NEW s \in Session \cup {NoSession}, NEW k \in Key \cup {NoKey},
             AnswerActiveDuplicate(r, s, k) \/ AnswerFinishedDuplicate(r, s, k)
      PROVE  AgentMoves(q)
  BY <1>2 DEF AnswerActiveDuplicate, AnswerFinishedDuplicate, resultVars, AgentMoves, Agents!Rest
<1>3. ASSUME NEW s \in Session \cup {NoSession}, NEW k \in Key \cup {NoKey},
             RejectBusySession(r, s, k) \/ FailFileTransfer(r, s, k)
      PROVE  AgentMoves(q)
  <2>1. agent' = Signalled(agent, StaleSlots) /\ completedByRequestId' = completedByRequestId
    BY <1>0, <1>3, ReapKeepsResults DEF RejectBusySession, FailFileTransfer
  <2>2. QED
    BY <1>0, <2>1, SignalIsStop DEF AgentMoves
<1>4. ASSUME NEW s \in Session \cup {NoSession}, NEW k \in Key \cup {NoKey}, Accept(r, s, k)
      PROVE  AgentMoves(q)
  <2>1. /\ reply[r] = "none"
        /\ agent' = [Signalled(agent, StaleSlots) EXCEPT ![r] = "running"]
        /\ completedByRequestId' = completedByRequestId
    BY <1>0, <1>4, ReapKeepsResults DEF Accept, Receive
  <2>2. CASE q = r
    <3>1. agent[r] = "idle"
      BY <1>0, <2>1 DEF IInv, StagesAgree, Launched
    <3>2. agent'[r] = "running"
      BY <2>1 DEF Signalled
    <3>3. QED
      BY <2>1, <2>2, <3>1, <3>2 DEF AgentMoves, Agents!Launch
  <2>3. CASE q # r
    <3>1. agent'[q] = IF q \in StaleSlots /\ agent[q] = "running" THEN "stopping" ELSE agent[q]
      BY <2>1, <2>3 DEF Signalled
    <3>2. QED
      BY <2>1, <3>1 DEF AgentMoves, Agents!Stop, Agents!Rest
  <2>4. QED
    BY <2>2, <2>3
<1>5. QED
  BY <1>1, <1>2, <1>3, <1>4 DEF Submit

\* A settled run ends once, with an outcome its signal allows, and that outcome is the record:
\* complete() finds the slot still held.
LEMMA SettleMovesAgents ==
    ASSUME IInv, NEW r \in Request, NEW result \in Outcome, Settle(r, result), NEW q \in Request
    PROVE  AgentMoves(q)
<1>1. /\ agent[r] \in {"running", "stopping"} /\ result \in OutcomeOf(r)
      /\ agent' = [agent EXCEPT ![r] = "settled"]
      /\ completedByRequestId' =
           [completedByRequestId EXCEPT ![r] = StoredOutcome(r, result)]
  BY DEF Settle
<1>2. StoredOutcome(r, result) = result
  BY <1>1 DEF StoredOutcome, IInv, StagesAgree, Live
<1>3. agent \in [Request -> AgentState] /\ DOMAIN completedByRequestId = Request
  BY DEF IInv, TypeOK
<1>4. CASE q = r
  BY <1>1, <1>2, <1>3, <1>4 DEF OutcomeOf, AgentMoves, Agents!End
<1>5. CASE q # r
  BY <1>1, <1>3, <1>5 DEF AgentMoves, Agents!Rest
<1>6. QED
  BY <1>4, <1>5

\* The gateway uses its agents as AgentRun promises to serve them: it launches each at most
\* once, signals a run only while it is on, and records exactly the outcome the run ended with,
\* although slots are cancelled, reaped and reused in between.
THEOREM AgentsAreUsedAsPromised == Spec => AgentsKeepTheirInterface
<1>1. Init => Agents!Init
  BY DEF Init, Agents!Init, NoOutcome
<1>2. IInv /\ IInv' /\ [Next]_vars => [Agents!Next]_(Agents!agentVars)
  <2> SUFFICES ASSUME IInv, IInv', [Next]_vars
               PROVE  Agents!Next
    BY DEF Agents!agentVars
  <2>1. ASSUME NEW q \in Request PROVE AgentMoves(q)
    <3>1. CASE Poll
      <4>1. agent' = Signalled(agent, StaleSlots) /\ completedByRequestId' = completedByRequestId
        BY <3>1, ReapKeepsResults DEF IInv, Poll
      <4>2. QED
        BY <4>1, SignalIsStop DEF IInv, AgentMoves
    <3>2. ASSUME NEW r \in Request, CancelRequest(r) PROVE AgentMoves(q)
      <4>1. agent' = Signalled(agent, {r}) /\ completedByRequestId' = completedByRequestId
        BY <3>2 DEF CancelRequest, resultVars
      <4>2. QED
        BY <4>1, SignalIsStop DEF IInv, AgentMoves
    <3>3. CASE UNCHANGED vars \/ \E r \in Request : BecomeStale(r) \/ BecomeOld(r)
      BY <3>3 DEF BecomeStale, BecomeOld, vars, resultVars, AgentMoves, Agents!Rest
    <3>4. QED
      BY <3>1, <3>2, <3>3, SubmitMovesAgents, SettleMovesAgents DEF Next
  <2>2. /\ agent' \in [Request -> Agents!AgentState]
        /\ completedByRequestId' \in [Request -> Agents!Outcome \cup {"no_outcome"}]
    BY DEF IInv, TypeOK, AgentState, Outcome, NoOutcome, Agents!AgentState, Agents!Outcome
  <2>3. QED
    BY <2>1, <2>2 DEF AgentMoves, Agents!Next
<1>3. QED
  BY <1>1, <1>2, Invariant, PTL DEF Spec, AgentsKeepTheirInterface, Agents!Spec
====
