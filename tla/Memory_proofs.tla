---- MODULE Memory_proofs ----
(***************************************************************************)
(* Theorems about Memory, for any number of calls, principals, memories    *)
(* and connections, and any policy that the broker accepts.                *)
(***************************************************************************)
EXTENDS Memory, FiniteSetTheorems, TLAPS

ClientError == {400, 401, 403, 404, 413}
AnyRequest == UNION {Requests[c] : c \in Call}
Answer == [ok : BOOLEAN, uncertain : BOOLEAN, retryable : BOOLEAN]

Types ==
  /\ at \in [Call -> {"idle", "waiting", "returned"}]
  /\ client \in [Call -> {r.by : r \in AnyRequest} \cup {NoClient}]
  /\ args \in [Call -> {r.asks : r \in AnyRequest} \cup {NoArgs}]
  /\ answer \in [Call -> Answer]
  /\ conn \in [Call \cup Stranger -> {"none", "queued", "open", "asked", "closing", "over"}]
  /\ status \in [Call -> {NoStatus, Broken, 200, 500, 502, 503} \cup ClientError]
  /\ job \in [Call -> {"none", "arrived", "checked", "changed", "over"}]
  /\ reply \in [Call -> {NoStatus, Broken, 200, 404, 500}]
  /\ recorded \subseteq Call /\ unrecorded \subseteq Call
  /\ stops \in Nat

Chosen ==
  \A c \in Call : at[c] # "idle" => \E r \in Requests[c] : client[c] = r.by /\ args[c] = r.asks

\* A memory has the scope, the last change and the mark of a deletion.
Records ==
  \A i \in DOMAIN memories :
    /\ memories[i] = [scope |-> memories[i].scope, by |-> memories[i].by, gone |-> memories[i].gone]
    /\ memories[i].gone \in BOOLEAN

\* The slots that are not free are those of the threads that run.
SlotsAreCounted ==
  /\ IsFiniteSet(Threads)
  /\ slots \in Nat
  /\ slots + Cardinality(Threads) = MaxConnections

----
(* The way of a call *)

NothingBeforeTheCall ==
  \A c \in Call : at[c] = "idle" =>
    conn[c] = "none" /\ job[c] = "none" /\ status[c] = NoStatus /\ reply[c] = NoStatus

OnlyByBroker ==
  \A c \in Call : conn[c] # "none" => client[c].broker

\* The backend works only on what the broker passed on, and the thread that did so goes on to
\* put the request on record.
PassedOn ==
  \A c \in Call : job[c] # "none" /\ client[c].broker =>
    conn[c] \in {"asked", "closing"} \/ (conn[c] = "over" /\ c \in recorded \cup unrecorded)

RepliesEnd ==
  \A c \in Call : reply[c] # NoStatus => job[c] = "over"

Way == NothingBeforeTheCall /\ OnlyByBroker /\ PassedOn /\ RepliesEnd

----
(* What was granted *)

Granted(c) ==
  Scope(c) \in (IF args[c].op \in Mutations THEN Writable(client[c], args[c])
                                            ELSE Readable(client[c], args[c]))

WorksInGrantedScope ==
  \A c \in Call : job[c] # "none" /\ args[c].op \notin {"capabilities", "list_targets"} => Granted(c)

ChangesAreGranted ==
  \A s \in changes :
    /\ s.call \in Call /\ job[s.call] \in {"changed", "over"}
    /\ s.scope \in Writable(client[s.call], args[s.call])

ReadsAreGranted ==
  \A s \in seen :
    /\ s.call \in Call /\ at[s.call] # "idle"
    /\ s.scope \in Readable(client[s.call], args[s.call])

Grants == WorksInGrantedScope /\ ChangesAreGranted /\ ReadsAreGranted

----
(* What the store says *)

Exists(c) == args[c].memory \in DOMAIN memories
Changed(c) == \E s \in changes : s.call = c
Gone(c) == Exists(c) /\ Memory(c).gone
Mark(c) == \E i \in DOMAIN memories : memories[i].by = c

CheckedIsInScope ==
  \A c \in Call : job[c] = "checked" =>
    args[c].op \in ById /\ Exists(c) /\ Memory(c).scope = Scope(c)

\* What is true of the store when a mutation is done.
Effect(c) ==
  /\ args[c].op = "update" => Changed(c)
  /\ args[c].op \in Deletions => Gone(c)

ChangedHasEffect ==
  \A c \in Call : job[c] = "changed" =>
    /\ args[c].op \in Mutations
    /\ Effect(c)
    /\ args[c].op = "update" => Exists(c) /\ Memory(c).scope = Scope(c)

\* A memory carries the mark of a call that changed it, and a deleted one that of a deletion.
MarksAreOfChanges ==
  \A i \in DOMAIN memories :
    LET by == memories[i].by IN
    /\ by \in Call \cup {Nobody}
    /\ by \in Call =>
         /\ job[by] \in {"changed", "over"}
         /\ args[by].op \in Mutations
         /\ args[by].op # "add" => i = args[by].memory
    /\ memories[i].gone => by \in Call /\ args[by].op \in Deletions

Store == CheckedIsInScope /\ ChangedHasEffect /\ MarksAreOfChanges

----
(* What is said of it *)

\* The call has left no mark, and never will.
Hopeless(c) ==
  /\ ~Mark(c)
  /\ at[c] # "idle"
  /\ job[c] = "over" \/ (job[c] = "none" /\ conn[c] \in {"none", "closing", "over"})

SuccessHasEffect ==
  \A c \in Call : 200 \in {status[c], reply[c]} => Effect(c)

ErrorIsFinal ==
  \A c \in Call : at[c] # "idle" /\ args[c].op \in Mutations =>
    /\ status[c] \in ClientError => Hopeless(c)
    /\ reply[c] = 404 => ~Mark(c)

AnswersHold ==
  \A c \in Call : at[c] = "returned" /\ args[c].op \in Mutations =>
    /\ answer[c].ok => Effect(c)
    /\ ~answer[c].ok /\ ~answer[c].uncertain => Hopeless(c)

Truth == SuccessHasEffect /\ ErrorIsFinal /\ AnswersHold

IInv == Types /\ Chosen /\ Records /\ Way /\ Grants /\ Store /\ Truth

----
\* The initial state satisfies the invariant.
LEMMA InitEstablishes == Init => IInv
<1> SUFFICES ASSUME Init PROVE IInv
  OBVIOUS
<1>1. Types /\ Chosen /\ Records
  BY DEF Init, Types, Chosen, Records, NoAnswer, Answer
<1>2. Way /\ Grants
  BY DEF Init, Way, NothingBeforeTheCall, OnlyByBroker, PassedOn, RepliesEnd,
         Grants, WorksInGrantedScope, ChangesAreGranted, ReadsAreGranted
<1>3. Store
  BY NamesAssumption DEF Init, Store, CheckedIsInScope, ChangedHasEffect, MarksAreOfChanges
<1>4. Truth
  BY DEF Init, Truth, SuccessHasEffect, ErrorIsFinal, AnswersHold, NoStatus, ClientError
<1>5. QED
  BY <1>1, <1>2, <1>3, <1>4 DEF IInv

----
(* The types *)

\* What a tool returns.
LEMMA ReturnTypes ==
  ASSUME Types, NEW c \in Call, NEW a, NEW ok \in BOOLEAN, NEW u \in BOOLEAN, NEW r \in BOOLEAN,
         Return(c, a, ok, u, r)
  PROVE  /\ at' \in [Call -> {"idle", "waiting", "returned"}]
         /\ answer' \in [Call -> Answer]
<1> DEFINE m == a.op \in Mutations
<1>1. /\ [ok |-> ok, uncertain |-> m /\ u, retryable |-> ~m /\ r] \in Answer
      /\ [ok |-> FALSE, uncertain |-> m /\ (u \/ ok), retryable |-> FALSE] \in Answer
  BY DEF Answer
<1> HIDE DEF m
<1>2. /\ \/ answer' = [answer EXCEPT ![c] = [ok |-> ok, uncertain |-> m /\ u, retryable |-> ~m /\ r]]
         \/ answer' = [answer EXCEPT ![c] = [ok |-> FALSE, uncertain |-> m /\ (u \/ ok), retryable |-> FALSE]]
      /\ at' = [at EXCEPT ![c] = "returned"]
  BY DEF Return, m
<1>3. answer' \in [Call -> Answer]
  <2>1. ASSUME NEW e \in Answer, answer' = [answer EXCEPT ![c] = e] PROVE answer' \in [Call -> Answer]
    BY <2>1 DEF Types
  <2>2. QED
    BY <1>1, <1>2, <2>1, Zenon
<1>4. QED
  BY <1>2, <1>3 DEF Types

\* What a request starts with.
LEMMA FetchTypes ==
  ASSUME Types, NEW c \in Call, NEW k, Fetch(c, k)
  PROVE  /\ at' \in [Call -> {"idle", "waiting", "returned"}]
         /\ conn' \in [Call \cup Stranger -> {"none", "queued", "open", "asked", "closing", "over"}]
         /\ job' \in [Call -> {"none", "arrived", "checked", "changed", "over"}]
  BY DEF Types, Fetch

\* What the backend replies.
LEMMA ReplyTypes ==
  ASSUME Types, NEW c \in Call, NEW s \in {200, 404, 500}, Replies(c, s)
  PROVE  /\ job' \in [Call -> {"none", "arrived", "checked", "changed", "over"}]
         /\ reply' \in [Call -> {NoStatus, Broken, 200, 404, 500}]
         /\ status' \in [Call -> {NoStatus, Broken, 200, 500, 502, 503} \cup ClientError]
  BY DEF Types, Replies, Unsent, Send, ClientError

\* The refusals of the broker are errors of the client.
LEMMA RefusalCodes ==
  ASSUME NEW k, NEW a
  PROVE  Refusal(k, a) \in {NoStatus, 400, 401, 403, 413}
  BY DEF Refusal

\* The types survive the steps of the MCP server.
LEMMA CallerTypes ==
  ASSUME Types, NEW c \in Call,
         Invoke(c) \/ Discover(c) \/ Receive(c) \/ ReceiveHealth(c) \/ Timeout(c)
  PROVE  Types'
<1>0. ASSUME NEW r \in Requests[c], Calls(c, r.by, r.asks)
      PROVE  /\ client' \in [Call -> {q.by : q \in AnyRequest} \cup {NoClient}]
             /\ args' \in [Call -> {q.asks : q \in AnyRequest} \cup {NoArgs}]
  <2>1. r \in AnyRequest
    BY DEF AnyRequest
  <2>2. QED
    BY <1>0, <2>1 DEF Types, Calls
<1>1. ASSUME NEW r \in Requests[c], Calls(c, r.by, r.asks), Refuse(c, r.asks)
      PROVE  Types'
  BY <1>0, <1>1, ReturnTypes DEF Types, Refuse, brokerVars, backendVars
<1>2. ASSUME NEW r \in Requests[c], Calls(c, r.by, r.asks), Fetch(c, r.by)
      PROVE  Types'
  <2>1. UNCHANGED <<answer, slots, recorded, unrecorded, status, reply, stops>>
    BY <1>2 DEF Fetch
  <2>2. QED
    BY <1>0, <1>2, <2>1, FetchTypes DEF Types
<1>3. ASSUME NEW ok \in BOOLEAN, NEW u \in BOOLEAN, NEW r \in BOOLEAN,
             Return(c, args[c], ok, u, r),
             UNCHANGED <<client, args, brokerVars, status, backendVars, stops>>
      PROVE  Types'
  <2>1. /\ at' \in [Call -> {"idle", "waiting", "returned"}]
        /\ answer' \in [Call -> Answer]
    BY <1>3, ReturnTypes, Zenon
  <2>2. QED
    BY <1>3, <2>1 DEF Types, brokerVars, backendVars
<1>4. CASE Receive(c)
  <2>1. /\ OutcomeUncertain(Broken) \in BOOLEAN /\ OutcomeUncertain(status[c]) \in BOOLEAN
        /\ Retryable(status[c]) \in BOOLEAN
    BY DEF Retryable, OutcomeUncertain
  <2>2. QED
    BY <1>3, <1>4, <2>1 DEF Receive
<1>5. CASE ReceiveHealth(c)
  <2>1. /\ (status[c] = 200) \in BOOLEAN
        /\ (status[c] = Broken \/ Retryable(status[c])) \in BOOLEAN
    OBVIOUS
  <2>2. QED
    BY <1>3, <1>5, <2>1 DEF ReceiveHealth
<1>6. CASE Timeout(c)
  BY <1>3, <1>6 DEF Timeout
<1>7. QED
  BY <1>1, <1>2, <1>4, <1>5, <1>6 DEF Invoke, Discover

\* The types survive the steps of the broker.
LEMMA BrokerTypes ==
  ASSUME Types, NEW c \in Call, Broker(c)
  PROVE  Types'
<1> USE DEF Types, callVars, backendVars, Send
<1>1. CASE Handle(c)
  <2>1. Refusal(client[c], args[c]) \in {NoStatus} \cup ClientError
    BY RefusalCodes DEF ClientError
  <2>2. QED
    BY <1>1, <2>1 DEF Handle
<1>2. CASE Relay(c)
  <2>1. PICK s \in {200, 404, 500, 502, 503} : Send(c, s)
    BY <1>2 DEF Relay
  <2>2. QED
    BY <1>2, <2>1 DEF Relay, ClientError
<1>3. CASE UpstreamTimeout(c)
  BY <1>3 DEF UpstreamTimeout
<1>4. CASE EndThread(c)
  BY <1>4 DEF EndThread
<1>5. QED
  BY <1>1, <1>2, <1>3, <1>4 DEF Broker

\* The types survive the connections that come and go.
LEMMA ConnectionTypes ==
  ASSUME Types, NEW x \in Call \cup Stranger,
         StrangerConnects(x) \/ Accept(x) \/ TurnAway(x) \/ ReadDeadline(x)
  PROVE  Types'
<1> USE DEF Types, callVars, backendVars, Send, Unsent, Ended
<1>1. CASE StrangerConnects(x)
  BY <1>1 DEF StrangerConnects
<1>2. CASE Accept(x)
  BY <1>2 DEF Accept
<1>3. CASE TurnAway(x)
  BY <1>3 DEF TurnAway
<1>4. CASE ReadDeadline(x)
  BY <1>4 DEF ReadDeadline
<1>5. QED
  BY <1>1, <1>2, <1>3, <1>4

\* The types survive the steps of the backend.
LEMMA BackendTypes ==
  ASSUME Types, NEW c \in Call, Backend(c)
  PROVE  Types'
<1> USE DEF KeepsAll, callVars, brokerVars
<1>1. CASE Add(c)
  BY <1>1 DEF Types, Add, Goes
<1>2. ASSUME NEW s \in {200, 404, 500}, Replies(c, s), KeepsAll PROVE Types'
  BY <1>2, ReplyTypes DEF Types
<1>3. ASSUME NEW where \in {"checked", "changed"}, Goes(c, where), KeepsAll PROVE Types'
  BY <1>3 DEF Types, Goes
<1>4. CASE ReadScope(c) \/ ReadOne(c) \/ Fails(c)
  BY <1>2, <1>4 DEF ReadScope, ReadOne, Fails
<1>5. CASE Check(c)
  BY <1>2, <1>3, <1>5 DEF Check
<1>6. CASE Update(c) \/ Delete(c)
  BY <1>2, <1>3, <1>6 DEF Update, Delete
<1>7. CASE Done(c)
  <2>1. PICK s \in {200, 404} : Replies(c, s)
    BY <1>7 DEF Done
  <2>2. QED
    BY <1>2, <1>7, <2>1 DEF Done
<1>8. QED
  BY <1>1, <1>4, <1>5, <1>6, <1>7 DEF Backend

\* Every step keeps the types.
LEMMA TypesStep == Types /\ [Next]_vars => Types'
<1> SUFFICES ASSUME Types, [Next]_vars PROVE Types'
  OBVIOUS
<1>1. CASE BrokerRestart
  BY <1>1 DEF Types, BrokerRestart, Ended, callVars, backendVars, Threads
<1>2. CASE BackendRestart
  BY <1>2 DEF Types, BackendRestart, callVars, brokerVars
<1>3. CASE UNCHANGED vars
  BY <1>3 DEF Types, vars, callVars, brokerVars, backendVars
<1>4. QED
  BY <1>1, <1>2, <1>3, CallerTypes, BrokerTypes, ConnectionTypes, BackendTypes DEF Next

----
(* The way of a call *)

\* What a call is about stays as it was once it is made.
LEMMA CallsStay ==
  ASSUME Types, [Next]_vars, NEW c \in Call, at[c] # "idle"
  PROVE  at'[c] # "idle" /\ client'[c] = client[c] /\ args'[c] = args[c]
<1> USE DEF Types
<1>1. ASSUME NEW d \in Call, Invoke(d) \/ Discover(d) PROVE d # c
  BY <1>1 DEF Invoke, Discover, Calls
<1>2. ASSUME NEW d \in Call, Invoke(d) \/ Discover(d)
      PROVE  at'[c] = at[c] /\ client'[c] = client[c] /\ args'[c] = args[c]
  <2>1. PICK r \in Requests[d] : Calls(d, r.by, r.asks) /\ (Refuse(d, r.asks) \/ Fetch(d, r.by))
    BY <1>2 DEF Invoke, Discover
  <2>2. at'[c] = at[c]
    BY <1>1, <1>2, <2>1 DEF Refuse, Return, Fetch
  <2>3. QED
    BY <1>1, <1>2, <2>1, <2>2 DEF Calls
<1>3. ASSUME NEW d \in Call, Receive(d) \/ ReceiveHealth(d) \/ Timeout(d)
      PROVE  UNCHANGED <<client, args>> /\ at' = [at EXCEPT ![d] = "returned"]
  BY <1>3 DEF Receive, ReceiveHealth, Timeout, Return
<1>4. CASE UNCHANGED callVars
  BY <1>4 DEF callVars
<1>5. ASSUME NEW d \in Call, Broker(d) \/ Backend(d) PROVE UNCHANGED callVars
  BY <1>5 DEF Broker, Handle, Relay, UpstreamTimeout, EndThread, Backend, Add, ReadScope, Check,
              ReadOne, Update, Delete, Done, Fails, KeepsAll
<1>6. ASSUME NEW x \in Call \cup Stranger, StrangerConnects(x) \/ Accept(x) \/ TurnAway(x) \/ ReadDeadline(x)
      PROVE  UNCHANGED callVars
  BY <1>6 DEF StrangerConnects, Accept, TurnAway, ReadDeadline
<1>7. CASE BrokerRestart \/ BackendRestart \/ UNCHANGED vars
  BY <1>4, <1>7 DEF BrokerRestart, BackendRestart, vars
<1>8. QED
  BY <1>2, <1>3, <1>4, <1>5, <1>6, <1>7 DEF Next

\* The request a call is made with is one of those it may be made with.
LEMMA ChosenStep ==
  ASSUME Types, Chosen, [Next]_vars
  PROVE  Chosen'
<1> SUFFICES ASSUME NEW c \in Call, at'[c] # "idle"
             PROVE  \E r \in Requests[c] : client'[c] = r.by /\ args'[c] = r.asks
  BY DEF Chosen
<1>1. CASE at[c] # "idle"
  BY <1>1, CallsStay DEF Chosen
<1>2. CASE at[c] = "idle"
  <2>1. Invoke(c) \/ Discover(c)
    <3>1. at' # at
      BY <1>2
    <3>2. ASSUME NEW d \in Call, Broker(d) \/ Backend(d) PROVE at' = at
      BY <3>2 DEF Broker, Handle, Relay, UpstreamTimeout, EndThread, Backend, Add, ReadScope, Check,
                  ReadOne, Update, Delete, Done, Fails, KeepsAll, callVars
    <3>3. ASSUME NEW x \in Call \cup Stranger, StrangerConnects(x) \/ Accept(x) \/ TurnAway(x) \/ ReadDeadline(x)
          PROVE  at' = at
      BY <3>3 DEF StrangerConnects, Accept, TurnAway, ReadDeadline, callVars
    <3>4. CASE BrokerRestart \/ BackendRestart \/ UNCHANGED vars
      BY <3>1, <3>4 DEF BrokerRestart, BackendRestart, vars, callVars
    <3>5. ASSUME NEW d \in Call, Receive(d) \/ ReceiveHealth(d) \/ Timeout(d)
          PROVE  at'[c] = at[c]
      BY <1>2, <3>5 DEF Receive, ReceiveHealth, Timeout, Return, Types
    <3>6. ASSUME NEW d \in Call, Invoke(d) \/ Discover(d) PROVE d = c
      <4>1. PICK r \in Requests[d] : Refuse(d, r.asks) \/ Fetch(d, r.by)
        BY <3>6 DEF Invoke, Discover
      <4>2. QED
        BY <1>2, <4>1 DEF Refuse, Return, Fetch, Types
    <3>7. QED
      BY <1>2, <3>1, <3>2, <3>3, <3>4, <3>5, <3>6 DEF Next
  <2>2. QED
    BY <2>1 DEF Invoke, Discover, Calls, Types
<1>3. QED
  BY <1>1, <1>2

\* A step of the MCP server keeps the calls on their way.
LEMMA CallerWay ==
  ASSUME Types, Way, NEW c \in Call,
         Invoke(c) \/ Discover(c) \/ Receive(c) \/ ReceiveHealth(c) \/ Timeout(c)
  PROVE  Way'
<1> USE DEF Types, Way, NothingBeforeTheCall, OnlyByBroker, PassedOn, RepliesEnd
<1>1. ASSUME NEW r \in Requests[c], Calls(c, r.by, r.asks), Refuse(c, r.asks)
      PROVE  Way'
  BY <1>1 DEF Calls, Refuse, Return, brokerVars, backendVars
<1>2. ASSUME NEW r \in Requests[c], Calls(c, r.by, r.asks), Fetch(c, r.by)
      PROVE  Way'
  <2>1. CASE r.by.broker
    BY <1>2, <2>1 DEF Calls, Fetch
  <2>2. CASE ~r.by.broker
    BY <1>2, <2>2 DEF Calls, Fetch
  <2>3. QED
    BY <2>1, <2>2
<1>3. CASE Receive(c) \/ ReceiveHealth(c) \/ Timeout(c)
  <2>1. /\ UNCHANGED <<client, args, brokerVars, status, backendVars>>
        /\ at' = [at EXCEPT ![c] = "returned"]
        /\ at[c] # "idle"
    BY <1>3 DEF Receive, ReceiveHealth, Timeout, Return
  <2>2. QED
    BY <2>1 DEF brokerVars, backendVars
<1>4. QED
  BY <1>1, <1>2, <1>3 DEF Invoke, Discover

\* So does a step of the broker.
LEMMA BrokerWay ==
  ASSUME Types, Way, NEW c \in Call, Broker(c)
  PROVE  Way'
<1> USE DEF Types, Way, NothingBeforeTheCall, OnlyByBroker, PassedOn, RepliesEnd, callVars,
            backendVars, Send
<1>1. CASE Handle(c)
  BY <1>1 DEF Handle
<1>2. CASE Relay(c)
  BY <1>2 DEF Relay
<1>3. CASE UpstreamTimeout(c)
  BY <1>3 DEF UpstreamTimeout
<1>4. CASE EndThread(c)
  BY <1>4 DEF EndThread
<1>5. QED
  BY <1>1, <1>2, <1>3, <1>4 DEF Broker

\* So do the connections that come and go.
LEMMA ConnectionWay ==
  ASSUME Types, Way, NEW x \in Call \cup Stranger,
         Accept(x) \/ TurnAway(x) \/ ReadDeadline(x) \/ (x \in Stranger /\ StrangerConnects(x))
  PROVE  Way'
<1> USE NamesAssumption DEF Types, Way, NothingBeforeTheCall, OnlyByBroker, PassedOn, RepliesEnd,
            callVars, backendVars, Send, Unsent, Ended
<1>1. CASE Accept(x)
  BY <1>1 DEF Accept
<1>2. CASE TurnAway(x)
  BY <1>2 DEF TurnAway
<1>3. CASE ReadDeadline(x)
  BY <1>3 DEF ReadDeadline
<1>4. CASE x \in Stranger /\ StrangerConnects(x)
  BY <1>4 DEF StrangerConnects
<1>5. QED
  BY <1>1, <1>2, <1>3, <1>4

\* What a step of the backend does to the request of a call: it goes on or ends with a reply.
JobMoves(c) ==
  /\ job[c] \in {"arrived", "checked", "changed"}
  /\ UNCHANGED <<callVars, brokerVars, stops>>
  /\ \/ job[c] # "changed" /\ \E where \in {"checked", "changed"} : Goes(c, where)
     \/ \E s \in {200, 404, 500} : Replies(c, s)

LEMMA BackendMoves ==
  ASSUME NEW c \in Call, Backend(c)
  PROVE  JobMoves(c)
<1> USE DEF JobMoves, KeepsAll
<1>1. CASE Add(c) \/ ReadScope(c) \/ Check(c) \/ ReadOne(c)
  BY <1>1 DEF Add, ReadScope, Check, ReadOne
<1>2. CASE Update(c) \/ Delete(c)
  BY <1>2 DEF Update, Delete, Changes
<1>3. CASE Done(c) \/ Fails(c)
  BY <1>3 DEF Done, Fails
<1>4. QED
  BY <1>1, <1>2, <1>3 DEF Backend

\* A step of the backend keeps the calls on their way.
LEMMA BackendWay ==
  ASSUME Types, Way, NEW c \in Call, Backend(c)
  PROVE  Way'
<1> USE DEF Types, Way, NothingBeforeTheCall, OnlyByBroker, PassedOn, RepliesEnd, callVars, brokerVars
<1>1. JobMoves(c) /\ at[c] # "idle" /\ reply[c] = NoStatus
  BY BackendMoves DEF JobMoves
<1>2. CASE job[c] # "changed" /\ \E where \in {"checked", "changed"} : Goes(c, where)
  BY <1>1, <1>2 DEF JobMoves, Goes
<1>3. CASE \E s \in {200, 404, 500} : Replies(c, s)
  BY <1>1, <1>3 DEF JobMoves, Replies, Unsent, Send
<1>4. QED
  BY <1>1, <1>2, <1>3 DEF JobMoves

\* Every step keeps the calls on their way.
LEMMA WayStep ==
  ASSUME Types, Way, [Next]_vars
  PROVE  Way'
<1> USE DEF Types, Way, NothingBeforeTheCall, OnlyByBroker, PassedOn, RepliesEnd
<1>1. CASE BrokerRestart
  BY <1>1 DEF BrokerRestart, Ended, callVars, backendVars, Threads
<1>2. CASE BackendRestart
  BY <1>2 DEF BackendRestart, callVars, brokerVars
<1>3. CASE UNCHANGED vars
  BY <1>3 DEF vars, callVars, brokerVars, backendVars
<1>4. QED
  BY <1>1, <1>2, <1>3, CallerWay, BrokerWay, ConnectionWay, BackendWay DEF Next

----
(* The store *)

\* A step outside the backend leaves the store alone, and at most hands a request to it or ends one.
Elsewhere ==
  /\ UNCHANGED <<memories, changes>>
  /\ \A c \in Call :
       \/ job'[c] = job[c]
       \/ job[c] = "none" /\ job'[c] = "arrived"
       \/ job[c] \in {"arrived", "checked", "changed"} /\ job'[c] = "over"

LEMMA StepsElsewhere ==
  ASSUME Types, Way, [Next]_vars, \A c \in Call : ~Backend(c)
  PROVE  Elsewhere
<1> USE DEF Elsewhere, Types
<1>1. ASSUME NEW c \in Call, Invoke(c) \/ Discover(c) PROVE Elsewhere
  <2>1. PICK r \in Requests[c] : Calls(c, r.by, r.asks) /\ (Refuse(c, r.asks) \/ Fetch(c, r.by))
    BY <1>1 DEF Invoke, Discover
  <2>2. job[c] = "none"
    BY <2>1 DEF Calls, Way, NothingBeforeTheCall
  <2>3. CASE Refuse(c, r.asks)
    BY <2>3 DEF Refuse, backendVars
  <2>4. CASE Fetch(c, r.by)
    <3>1. UNCHANGED <<memories, changes>> /\ (job' = job \/ job' = [job EXCEPT ![c] = "arrived"])
      BY <2>4 DEF Fetch
    <3>2. QED
      BY <2>2, <3>1
  <2>5. QED
    BY <2>1, <2>3, <2>4
<1>2. ASSUME NEW c \in Call, Handle(c) PROVE Elsewhere
  <2>1. job[c] = "none"
    BY <1>2 DEF Handle, Way, OnlyByBroker, PassedOn
  <2>2. QED
    BY <1>2, <2>1 DEF Handle
<1>3. ASSUME NEW c \in Call, Receive(c) \/ ReceiveHealth(c) \/ Timeout(c) \/ Relay(c)
                             \/ UpstreamTimeout(c) \/ EndThread(c)
      PROVE  Elsewhere
  BY <1>3 DEF Receive, ReceiveHealth, Timeout, Relay, UpstreamTimeout, EndThread, backendVars
<1>4. ASSUME NEW x \in Call \cup Stranger, StrangerConnects(x) \/ Accept(x) \/ TurnAway(x) \/ ReadDeadline(x)
      PROVE  Elsewhere
  BY <1>4 DEF StrangerConnects, Accept, TurnAway, ReadDeadline, backendVars
<1>5. CASE BrokerRestart \/ UNCHANGED vars
  BY <1>5 DEF BrokerRestart, vars, backendVars
<1>6. CASE BackendRestart
  BY <1>6 DEF BackendRestart
<1>7. QED
  BY <1>1, <1>2, <1>3, <1>4, <1>5, <1>6 DEF Next, Broker

\* A new memory of a call.
Adds(c) ==
  /\ job[c] = "arrived" /\ args[c].op = "add"
  /\ Goes(c, "changed")
  /\ \E i \in Id \ DOMAIN memories :
       memories' = [j \in DOMAIN memories \cup {i} |->
                      IF j = i THEN [scope |-> Scope(c), by |-> c, gone |-> FALSE] ELSE memories[j]]
  /\ changes' = changes \cup {[call |-> c, scope |-> Scope(c)]}

\* A memory that was there gets the mark of a call.
Marks(c) ==
  /\ job[c] = "checked" /\ args[c].op \in {"update"} \cup Deletions
  /\ There(c)
  /\ Goes(c, "changed")
  /\ \E gone \in BOOLEAN : Changes(c, gone) /\ (gone <=> args[c].op \in Deletions)

\* A step of the backend adds a memory, marks one, or leaves the store alone.
LEMMA BackendStore ==
  ASSUME Records, NEW c \in Call, Backend(c)
  PROVE  Adds(c) \/ Marks(c) \/ UNCHANGED <<memories, changes>>
<1>1. CASE Add(c)
  BY <1>1 DEF Add, Adds
<1>3. CASE Update(c)
  BY <1>3 DEF Update, Marks, Changes, Deletions
<1>4. CASE Delete(c)
  BY <1>4 DEF Delete, Marks, Changes
<1>5. CASE ReadScope(c) \/ Check(c) \/ ReadOne(c) \/ Done(c) \/ Fails(c)
  BY <1>5 DEF ReadScope, Check, ReadOne, Done, Fails
<1>6. QED
  BY <1>1, <1>3, <1>4, <1>5 DEF Backend

\* No memory is lost or changes its scope, a deletion is final, and so is the record of a change.
Grows ==
  /\ \A i \in DOMAIN memories :
       /\ i \in DOMAIN memories'
       /\ memories'[i].scope = memories[i].scope
       /\ memories[i].gone => memories'[i] = memories[i]
  /\ changes \subseteq changes'

LEMMA StoreGrows ==
  ASSUME Types, Way, Records, [Next]_vars
  PROVE  Grows /\ Records'
<1>1. CASE UNCHANGED <<memories, changes>>
  BY <1>1 DEF Grows, Records
<1>2. ASSUME NEW c \in Call, Adds(c) PROVE Grows /\ Records'
  <2> DEFINE new == [scope |-> Scope(c), by |-> c, gone |-> FALSE]
  <2>1. PICK i : /\ i \notin DOMAIN memories
                 /\ memories' = [j \in DOMAIN memories \cup {i} |-> IF j = i THEN new ELSE memories[j]]
    BY <1>2 DEF Adds
  <2>2. new = [scope |-> new.scope, by |-> new.by, gone |-> new.gone] /\ new.gone \in BOOLEAN
    OBVIOUS
  <2> HIDE DEF new
  <2>3. DOMAIN memories' = DOMAIN memories \cup {i} /\ memories'[i] = new
        /\ \A j \in DOMAIN memories : memories'[j] = memories[j]
    BY <2>1
  <2>4. QED
    BY <1>2, <2>2, <2>3 DEF Adds, Grows, Records
<1>3. ASSUME NEW c \in Call, Marks(c) PROVE Grows /\ Records'
  <2> DEFINE m == args[c].memory
  <2>1. PICK gone \in BOOLEAN :
          memories' = [memories EXCEPT ![m] = [scope |-> memories[m].scope, by |-> c, gone |-> gone]]
    BY <1>3 DEF Marks, Changes, Memory
  <2>2. m \in DOMAIN memories /\ ~memories[m].gone /\ changes \subseteq changes'
    BY <1>3 DEF Marks, Changes, There, Memory
  <2> HIDE DEF m
  <2>3. /\ DOMAIN memories' = DOMAIN memories
        /\ memories'[m] = [scope |-> memories[m].scope, by |-> c, gone |-> gone]
        /\ \A i \in DOMAIN memories : i # m => memories'[i] = memories[i]
    BY <2>1, <2>2
  <2>4. Grows
    BY <2>2, <2>3 DEF Grows
  <2>5. Records'
    BY <2>2, <2>3 DEF Records
  <2>6. QED
    BY <2>4, <2>5
<1>4. QED
  BY <1>1, <1>2, <1>3, StepsElsewhere, BackendStore DEF Elsewhere

\* What is true of a call in the store stays true.
LEMMA CallsKeepEffects ==
  ASSUME Types, Way, Records, [Next]_vars, NEW c \in Call, at[c] # "idle"
  PROVE  /\ Scope(c)' = Scope(c)
         /\ Exists(c) => Exists(c)' /\ Memory(c)'.scope = Memory(c).scope
         /\ Effect(c) => Effect(c)'
<1>1. client'[c] = client[c] /\ args'[c] = args[c] /\ Grows
  BY CallsStay, StoreGrows
<1>2. Scope(c)' = Scope(c)
  BY <1>1 DEF Scope
<1>3. Exists(c) => Exists(c)' /\ Memory(c)'.scope = Memory(c).scope
  BY <1>1 DEF Exists, Memory, Grows
<1>4. Changed(c) => Changed(c)'
  BY <1>1 DEF Changed, Grows
<1>5. Gone(c) => Gone(c)'
  BY <1>1 DEF Gone, Exists, Memory, Grows
<1>6. QED
  BY <1>1, <1>2, <1>3, <1>4, <1>5 DEF Effect

\* A step of the backend on behalf of another call leaves the job of a call alone.
LEMMA OtherJobs ==
  ASSUME Types, NEW c \in Call, Backend(c), NEW d \in Call, d # c
  PROVE  job'[d] = job[d] /\ reply'[d] = reply[d] /\ status'[d] = status[d]
<1>1. JobMoves(c)
  BY BackendMoves
<1>2. QED
  BY <1>1 DEF JobMoves, Goes, Replies, Unsent, Send, Types

\* A memory that a call has checked or changed is there, and in its scope.
LEMMA StoreStep ==
  ASSUME Types, Records, Way, Store, [Next]_vars
  PROVE  Store'
<1> USE DEF Store
<1>1. \A c \in Call : job[c] # "none" => at[c] # "idle"
  BY DEF Way, NothingBeforeTheCall
<1>2. CASE Elsewhere
  <2>1. CheckedIsInScope'
    <3> SUFFICES ASSUME NEW c \in Call, job'[c] = "checked"
                 PROVE  args'[c].op \in ById /\ Exists(c)' /\ Memory(c)'.scope = Scope(c)'
      BY DEF CheckedIsInScope
    <3>1. job[c] = "checked"
      BY <1>2 DEF Elsewhere
    <3>2. QED
      BY <1>1, <3>1, CallsStay, CallsKeepEffects DEF CheckedIsInScope
  <2>2. ChangedHasEffect'
    <3> SUFFICES ASSUME NEW c \in Call, job'[c] = "changed"
                 PROVE  /\ args'[c].op \in Mutations
                        /\ Effect(c)'
                        /\ args'[c].op = "update" => Exists(c)' /\ Memory(c)'.scope = Scope(c)'
      BY DEF ChangedHasEffect
    <3>1. job[c] = "changed"
      BY <1>2 DEF Elsewhere
    <3>2. QED
      BY <1>1, <3>1, CallsStay, CallsKeepEffects DEF ChangedHasEffect
  <2>3. MarksAreOfChanges'
    <3> SUFFICES ASSUME NEW i \in DOMAIN memories, NEW by, by = memories[i].by
                 PROVE  /\ by \in Call \cup {Nobody}
                        /\ by \in Call =>
                             /\ job'[by] \in {"changed", "over"}
                             /\ args'[by].op \in Mutations
                             /\ args'[by].op # "add" => i = args'[by].memory
                        /\ memories[i].gone => by \in Call /\ args'[by].op \in Deletions
      BY <1>2 DEF MarksAreOfChanges, Elsewhere
    <3>1. by \in Call => job[by] \in {"changed", "over"} /\ job'[by] \in {"changed", "over"}
      BY <1>2 DEF MarksAreOfChanges, Elsewhere
    <3>2. by \in Call => args'[by] = args[by]
      BY <1>1, <3>1, CallsStay
    <3>3. QED
      BY <3>1, <3>2 DEF MarksAreOfChanges
  <2>4. QED
    BY <2>1, <2>2, <2>3
<1>3. ASSUME NEW c \in Call, Backend(c) PROVE Store'
  <2>1. JobMoves(c) /\ at[c] # "idle" /\ UNCHANGED <<client, args>>
    BY <1>1, <1>3, BackendMoves DEF JobMoves, callVars
  <2>2. \A d \in Call : d # c => job'[d] = job[d]
    BY <1>3, OtherJobs
  <2>3. job'[c] = "checked" => Check(c) /\ Scoped(c) /\ args[c].op \in ById
    BY <1>3 DEF Backend, Add, ReadScope, Check, ReadOne, Update, Delete, Done, Fails, Goes, Replies,
                Changes, Types
  <2>4. CheckedIsInScope'
    <3> SUFFICES ASSUME NEW d \in Call, job'[d] = "checked"
                 PROVE  args[d].op \in ById /\ Exists(d)' /\ Memory(d)'.scope = Scope(d)'
      BY <2>1 DEF CheckedIsInScope
    <3>1. args[d].op \in ById /\ Exists(d) /\ Memory(d).scope = Scope(d) /\ at[d] # "idle"
      BY <1>1, <2>1, <2>2, <2>3 DEF CheckedIsInScope, Scoped, There, Exists
    <3>2. QED
      BY <3>1, CallsKeepEffects
  <2>5. job'[c] = "changed" => args[c].op = "add" \/ Marks(c)
    <3>1. CASE Update(c)
      <4>1. CASE There(c)
        BY <3>1, <4>1 DEF Update, Marks, Changes, Deletions
      <4>2. CASE ~There(c)
        BY <3>1, <4>2 DEF Update, Replies, Types
      <4>3. QED
        BY <4>1, <4>2
    <3>2. CASE Delete(c)
      <4>1. CASE There(c)
        BY <3>2, <4>1 DEF Delete, Marks, Changes, Deletions
      <4>2. CASE ~There(c)
        BY <3>2, <4>2 DEF Delete, Replies, Types
      <4>3. QED
        BY <4>1, <4>2
    <3>3. CASE Add(c) \/ Check(c)
      BY <3>3 DEF Add, Check, Goes, Replies, Types
    <3>4. CASE ReadScope(c) \/ ReadOne(c) \/ Done(c) \/ Fails(c)
      BY <3>4 DEF ReadScope, ReadOne, Done, Fails, Replies, Types
    <3>5. QED
      BY <1>3, <3>1, <3>2, <3>3, <3>4 DEF Backend
  <2>6. Marks(c) => Effect(c)' /\ Exists(c)' /\ Memory(c)'.scope = Scope(c)'
    <3> SUFFICES ASSUME Marks(c)
                 PROVE  Effect(c)' /\ Exists(c)' /\ Memory(c)'.scope = Scope(c)'
      OBVIOUS
    <3> DEFINE m == args[c].memory
    <3>1. PICK gone \in BOOLEAN :
            /\ memories' = [memories EXCEPT ![m] = [scope |-> memories[m].scope, by |-> c, gone |-> gone]]
            /\ changes' = changes \cup {[call |-> c, scope |-> memories[m].scope]}
            /\ gone <=> args[c].op \in Deletions
      BY DEF Marks, Changes, Memory
    <3>2. m \in DOMAIN memories /\ job[c] = "checked" /\ args[c].op \in {"update"} \cup Deletions
      BY DEF Marks, There
    <3>3. memories'[m].gone = gone /\ memories'[m].scope = memories[m].scope /\ m \in DOMAIN memories'
      BY <3>1, <3>2
    <3>4. Changed(c)'
      <4> DEFINE s == [call |-> c, scope |-> memories[m].scope]
      <4>1. s \in changes' /\ s.call = c
        BY <3>1
      <4>2. QED
        BY <4>1 DEF Changed
    <3>5. memories[m].scope = Scope(c)
      BY <3>2 DEF CheckedIsInScope, Memory
    <3>6. Exists(c)' /\ Memory(c)'.scope = Scope(c)'
      BY <2>1, <3>3, <3>5, CallsKeepEffects DEF Exists, Memory
    <3>7. args'[c].op \in Deletions => Gone(c)'
      BY <2>1, <3>1, <3>3, <3>6 DEF Gone, Memory
    <3>8. QED
      BY <3>4, <3>6, <3>7 DEF Effect
  <2>7. ChangedHasEffect'
    <3> SUFFICES ASSUME NEW d \in Call, job'[d] = "changed"
                 PROVE  /\ args[d].op \in Mutations
                        /\ Effect(d)'
                        /\ args[d].op = "update" => Exists(d)' /\ Memory(d)'.scope = Scope(d)'
      BY <2>1 DEF ChangedHasEffect
    <3>1. CASE d # c
      BY <1>1, <2>2, <3>1, CallsKeepEffects DEF ChangedHasEffect
    <3>2. CASE d = c /\ args[c].op = "add"
      BY <2>1, <3>2 DEF Mutations, Effect, Deletions
    <3>3. CASE d = c /\ Marks(c)
      BY <2>6, <3>3 DEF Marks, Mutations, Deletions
    <3>4. QED
      BY <2>5, <3>1, <3>2, <3>3
  <2>8. MarksAreOfChanges'
    <3>1. \A d \in Call : job[d] \in {"changed", "over"} => job'[d] \in {"changed", "over"}
      BY <2>1, <2>2 DEF JobMoves, Goes, Replies, Types
    <3>2. CASE UNCHANGED <<memories, changes>>
      BY <2>1, <3>1, <3>2 DEF MarksAreOfChanges
    <3>3. CASE Adds(c)
      <4> DEFINE new == [scope |-> Scope(c), by |-> c, gone |-> FALSE]
      <4>1. PICK i : /\ i \notin DOMAIN memories
                     /\ memories' = [j \in DOMAIN memories \cup {i} |-> IF j = i THEN new ELSE memories[j]]
        BY <3>3 DEF Adds
      <4>2. new.by = c /\ ~new.gone
        OBVIOUS
      <4> HIDE DEF new
      <4>3. DOMAIN memories' = DOMAIN memories \cup {i} /\ memories'[i] = new
            /\ \A j \in DOMAIN memories : memories'[j] = memories[j]
        BY <4>1
      <4>4. job'[c] = "changed" /\ args[c].op = "add"
        BY <3>3 DEF Adds, Goes, Types
      <4>5. QED
        BY <2>1, <3>1, <4>2, <4>3, <4>4 DEF MarksAreOfChanges, Mutations
    <3>4. CASE Marks(c)
      <4> DEFINE m == args[c].memory
      <4>1. PICK gone \in BOOLEAN :
              /\ memories' = [memories EXCEPT ![m] = [scope |-> memories[m].scope, by |-> c, gone |-> gone]]
              /\ gone <=> args[c].op \in Deletions
        BY <3>4 DEF Marks, Changes, Memory
      <4>2. m \in DOMAIN memories /\ job'[c] = "changed" /\ args[c].op \in {"update"} \cup Deletions
        BY <3>4 DEF Marks, There, Goes, Types
      <4>3. /\ DOMAIN memories' = DOMAIN memories
            /\ memories'[m].by = c /\ (memories'[m].gone <=> args[c].op \in Deletions)
            /\ \A i \in DOMAIN memories : i # m => memories'[i] = memories[i]
        BY <4>1, <4>2
      <4>4. QED
        BY <2>1, <3>1, <4>2, <4>3 DEF MarksAreOfChanges, Mutations, Deletions
    <3>5. QED
      BY <1>3, <3>2, <3>3, <3>4, BackendStore
  <2>9. QED
    BY <2>4, <2>7, <2>8
<1>4. QED
  BY <1>2, <1>3, StepsElsewhere

----
(* What was granted *)

\* Who asks the backend directly works in the scope of its own configuration.
LEMMA DirectIsGranted ==
  ASSUME NEW k, NEW a, ~k.broker, a.op \notin {"capabilities", "list_targets"}
  PROVE  ScopeOf(k, a) \in (IF a.op \in Mutations THEN Writable(k, a) ELSE Readable(k, a))
<1>1. ScopeOf(k, a) = DirectScope(k, a)
  BY DEF ScopeOf
<1>2. QED
  BY <1>1 DEF DirectScope, Readable, Writable

\* What the broker does not refuse is granted.
LEMMA PassedIsGranted ==
  ASSUME NEW c \in Call, client[c].broker, Refusal(client[c], args[c]) = NoStatus,
         args[c].op \notin {"capabilities", "list_targets"}
  PROVE  Granted(c)
<1> DEFINE k == client[c]  a == args[c]  p == Policy[k.principal]
<1>1. Scope(c) # NoScope
  BY DEF Refusal, Scope, NoStatus
<1>2. CASE a.op \in AdminOps
  <2>1. Scope(c) = Administers(k.principal, a.target, a.op = "admin_delete")
    BY <1>2 DEF Scope, ScopeOf
  <2>2. a.target \in DOMAIN p.admin /\ Scope(c) = p.admin[a.target].scope
        /\ IF a.op = "admin_delete" THEN p.admin[a.target].delete ELSE p.admin[a.target].read
    BY <1>1, <2>1 DEF Administers
  <2>3. CASE a.op = "admin_delete"
    BY <2>2, <2>3 DEF Granted, Mutations, Writable
  <2>4. CASE a.op # "admin_delete"
    BY <1>2, <2>2, <2>4 DEF Granted, Mutations, AdminOps, Readable
  <2>5. QED
    BY <2>3, <2>4
<1>3. CASE a.op \notin AdminOps
  <2>1. Scope(c) = Resolve(k.principal, a.target, a.op \in Mutations)
    BY <1>3 DEF Scope, ScopeOf
  <2>2. \/ Scope(c) = p.private
        \/ /\ a.target \in DOMAIN p.shared /\ Scope(c) = p.shared[a.target].scope
           /\ IF a.op \in Mutations THEN p.shared[a.target].write ELSE p.shared[a.target].read
    BY <1>1, <2>1 DEF Resolve
  <2>3. CASE a.op \in Mutations
    BY <1>3, <2>2, <2>3 DEF Granted, Writable, AdminOps
  <2>4. CASE a.op \notin Mutations
    BY <1>3, <2>2, <2>4 DEF Granted, Readable
  <2>5. QED
    BY <2>3, <2>4
<1>4. QED
  BY <1>2, <1>3

\* A principal may always be told of its own targets.
LEMMA DisclosedIsReadable ==
  ASSUME NEW c \in Call, client[c].broker, args[c].op \in {"capabilities", "list_targets"},
         NEW s \in Disclosed(c)
  PROVE  s.call = c /\ s.scope \in Readable(client[c], args[c])
<1> DEFINE p == Policy[client[c].principal]
<1>1. PICK scope \in {p.private} \cup {p.shared[t].scope : t \in DOMAIN p.shared} :
        s = [call |-> c, scope |-> scope]
  BY DEF Disclosed
<1>2. s.call = c /\ s.scope = scope
  BY <1>1
<1>3. QED
  BY <1>1, <1>2 DEF Readable

\* A step takes up a request at the backend only when it is granted.
LEMMA WorksInGrantedScopeStep ==
  ASSUME Types, Way, Records, WorksInGrantedScope, [Next]_vars
  PROVE  WorksInGrantedScope'
<1> SUFFICES ASSUME NEW c \in Call, job'[c] # "none", args'[c].op \notin {"capabilities", "list_targets"}
             PROVE  Granted(c)'
  BY DEF WorksInGrantedScope
<1>1. CASE job[c] # "none"
  <2>1. at[c] # "idle"
    BY <1>1 DEF Way, NothingBeforeTheCall
  <2>2. client'[c] = client[c] /\ args'[c] = args[c] /\ Scope(c)' = Scope(c)
    BY <2>1, CallsStay, CallsKeepEffects
  <2>3. QED
    BY <1>1, <2>2 DEF WorksInGrantedScope, Granted
<1>2. CASE job[c] = "none"
  <2>1. ~Backend(c) /\ \A d \in Call : Backend(d) => d = c
    BY <1>2, BackendMoves, OtherJobs DEF JobMoves
  <2>2. ASSUME NEW d \in Call, NEW r \in Requests[d], Calls(d, r.by, r.asks), Refuse(d, r.asks) \/ Fetch(d, r.by)
        PROVE  Granted(c)'
    <3>1. job' # job /\ Fetch(d, r.by)
      BY <1>2, <2>2 DEF Refuse, backendVars
    <3>2. ~r.by.broker /\ job' = [job EXCEPT ![d] = "arrived"]
      BY <3>1 DEF Fetch
    <3>3. d = c
      BY <1>2, <3>2 DEF Types
    <3>4. client'[c] = r.by /\ args'[c] = r.asks
      BY <2>2, <3>3 DEF Calls, Types
    <3>5. QED
      BY <3>2, <3>4, DirectIsGranted DEF Granted, Scope
  <2>3. ASSUME NEW d \in Call, Handle(d) PROVE Granted(c)'
    <3>1. /\ d = c /\ conn[c] = "open" /\ Refusal(client[c], args[c]) = NoStatus
          /\ UNCHANGED <<client, args>>
      BY <1>2, <2>3 DEF Handle, callVars, Types
    <3>2. client[c].broker
      BY <3>1 DEF Way, OnlyByBroker, Types
    <3>3. QED
      BY <3>1, <3>2, PassedIsGranted DEF Granted, Scope
  <2>4. ASSUME NEW d \in Call, Receive(d) \/ ReceiveHealth(d) \/ Timeout(d) \/ Relay(d)
                               \/ UpstreamTimeout(d) \/ EndThread(d)
        PROVE  job' = job
    BY <2>4 DEF Receive, ReceiveHealth, Timeout, Relay, UpstreamTimeout, EndThread, backendVars
  <2>5. ASSUME NEW x \in Call \cup Stranger, StrangerConnects(x) \/ Accept(x) \/ TurnAway(x) \/ ReadDeadline(x)
        PROVE  job' = job
    BY <2>5 DEF StrangerConnects, Accept, TurnAway, ReadDeadline, backendVars
  <2>6. CASE BrokerRestart \/ UNCHANGED vars
    BY <1>2, <2>6 DEF BrokerRestart, vars, backendVars
  <2>7. CASE BackendRestart
    BY <1>2, <2>7 DEF BackendRestart
  <2>8. ASSUME NEW d \in Call, Invoke(d) \/ Discover(d) PROVE Granted(c)'
    BY <2>2, <2>8 DEF Invoke, Discover
  <2>9. QED
    BY <1>2, <2>1, <2>3, <2>4, <2>5, <2>6, <2>7, <2>8 DEF Next, Broker
<1>3. QED
  BY <1>1, <1>2

\* A step changes only what may be written.
LEMMA ChangesAreGrantedStep ==
  ASSUME Types, Records, Way, Store, Grants, [Next]_vars
  PROVE  ChangesAreGranted'
<1> SUFFICES ASSUME NEW s \in changes'
             PROVE  /\ s.call \in Call /\ job'[s.call] \in {"changed", "over"}
                    /\ s.scope \in Writable(client'[s.call], args'[s.call])
  BY DEF ChangesAreGranted
<1>1. \A c \in Call : job[c] # "none" =>
        at[c] # "idle" /\ client'[c] = client[c] /\ args'[c] = args[c]
  BY CallsStay DEF Way, NothingBeforeTheCall
<1>2. ASSUME NEW c \in Call, job[c] \in {"changed", "over"} PROVE job'[c] \in {"changed", "over"}
  <2>1. CASE Elsewhere
    BY <1>2, <2>1 DEF Elsewhere
  <2>2. ASSUME NEW d \in Call, Backend(d) PROVE job'[c] \in {"changed", "over"}
    <3>1. CASE d = c
      BY <1>2, <2>2, <3>1, BackendMoves DEF JobMoves, Goes, Replies, Types
    <3>2. CASE d # c
      BY <1>2, <2>2, <3>2, OtherJobs
    <3>3. QED
      BY <3>1, <3>2
  <2>3. QED
    BY <2>1, <2>2, StepsElsewhere
<1>3. CASE s \in changes
  BY <1>1, <1>2, <1>3 DEF Grants, ChangesAreGranted
<1>4. CASE s \notin changes
  <2>1. PICK c \in Call : Backend(c) /\ (Adds(c) \/ Marks(c))
    BY <1>4, StepsElsewhere, BackendStore DEF Elsewhere
  <2>2. /\ job[c] \in {"arrived", "checked"} /\ job'[c] = "changed"
        /\ args[c].op \in Mutations /\ s = [call |-> c, scope |-> Scope(c)]
    <3>1. CASE Adds(c)
      BY <1>4, <3>1 DEF Adds, Goes, Mutations, Types
    <3>2. CASE Marks(c)
      <4>1. job[c] = "checked" /\ args[c].op \in {"update"} \cup Deletions
            /\ changes' = changes \cup {[call |-> c, scope |-> Memory(c).scope]}
            /\ job'[c] = "changed"
        BY <3>2 DEF Marks, Changes, Goes, Types
      <4>2. Memory(c).scope = Scope(c)
        BY <4>1 DEF Store, CheckedIsInScope
      <4>3. QED
        BY <1>4, <4>1, <4>2 DEF Mutations, Deletions
    <3>3. QED
      BY <2>1, <3>1, <3>2
  <2>3. Scope(c) \in Writable(client[c], args[c])
    BY <2>2 DEF Grants, WorksInGrantedScope, Granted, Mutations
  <2>4. s.call = c /\ s.scope = Scope(c)
    BY <2>2
  <2>5. QED
    BY <1>1, <2>2, <2>3, <2>4
<1>5. QED
  BY <1>3, <1>4

\* A step discloses only what may be read.
LEMMA ReadsAreGrantedStep ==
  ASSUME Types, Way, Store, Grants, [Next]_vars
  PROVE  ReadsAreGranted'
<1> SUFFICES ASSUME NEW s \in seen'
             PROVE  /\ s.call \in Call /\ at'[s.call] # "idle"
                    /\ s.scope \in Readable(client'[s.call], args'[s.call])
  BY DEF ReadsAreGranted
<1>1. CASE s \in seen
  BY <1>1, CallsStay DEF Grants, ReadsAreGranted
<1>2. ASSUME NEW c \in Call, at[c] # "idle", s.call = c, s.scope \in Readable(client[c], args[c])
      PROVE  /\ s.call \in Call /\ at'[s.call] # "idle"
             /\ s.scope \in Readable(client'[s.call], args'[s.call])
  BY <1>2, CallsStay
<1>3. ASSUME NEW c \in Call, Handle(c) \/ Relay(c), s \notin seen
      PROVE  s.call = c /\ at[c] # "idle" /\ s.scope \in Readable(client[c], args[c])
  <2>1. conn[c] # "none" /\ s \in Disclosed(c) /\ args[c].op \in {"capabilities", "list_targets"}
    BY <1>3 DEF Handle, Relay
  <2>2. client[c].broker /\ at[c] # "idle"
    BY <2>1 DEF Way, OnlyByBroker, NothingBeforeTheCall
  <2>3. QED
    BY <2>1, <2>2, DisclosedIsReadable
<1>4. ASSUME NEW c \in Call, ReadScope(c) \/ ReadOne(c), s \notin seen
      PROVE  s.call = c /\ at[c] # "idle" /\ s.scope \in Readable(client[c], args[c])
  <2>1. /\ job[c] \in {"arrived", "checked"}
        /\ args[c].op \notin {"capabilities", "list_targets"} \cup Mutations
        /\ s = [call |-> c, scope |-> Scope(c)]
    <3>1. CASE ReadScope(c)
      BY <1>4, <3>1 DEF ReadScope, Mutations
    <3>2. CASE ReadOne(c)
      BY <1>4, <3>2 DEF ReadOne, Mutations, Store, CheckedIsInScope
    <3>3. QED
      BY <1>4, <3>1, <3>2
  <2>2. s.call = c /\ s.scope = Scope(c)
    BY <2>1
  <2>3. QED
    BY <2>1, <2>2 DEF Way, NothingBeforeTheCall, Grants, WorksInGrantedScope, Granted
<1>5. ASSUME NEW c \in Call, Invoke(c) \/ Discover(c) PROVE seen' = seen
  BY <1>5 DEF Invoke, Discover, Refuse, Fetch, backendVars
<1>6. ASSUME NEW c \in Call, Receive(c) \/ ReceiveHealth(c) \/ Timeout(c) \/ UpstreamTimeout(c) \/ EndThread(c)
      PROVE  seen' = seen
  BY <1>6 DEF Receive, ReceiveHealth, Timeout, UpstreamTimeout, EndThread, backendVars
<1>7. ASSUME NEW c \in Call, Add(c) \/ Check(c) \/ Update(c) \/ Delete(c) \/ Done(c) \/ Fails(c)
      PROVE  seen' = seen
  BY <1>7 DEF Add, Check, Update, Delete, Done, Fails
<1>8. ASSUME NEW x \in Call \cup Stranger, StrangerConnects(x) \/ Accept(x) \/ TurnAway(x) \/ ReadDeadline(x)
      PROVE  seen' = seen
  BY <1>8 DEF StrangerConnects, Accept, TurnAway, ReadDeadline, backendVars
<1>9. CASE BrokerRestart \/ BackendRestart \/ UNCHANGED vars
  BY <1>1, <1>9 DEF BrokerRestart, BackendRestart, vars, backendVars
<1>10. QED
  BY <1>1, <1>2, <1>3, <1>4, <1>5, <1>6, <1>7, <1>8, <1>9 DEF Next, Broker, Backend

----
(* What is said of the store *)

\* A call that leaves no mark and never will stays so: its job has ended, or it has none and is
\* never handed to the backend.
LEMMA HopelessStays ==
  ASSUME Types, Records, Way, Store, [Next]_vars, NEW c \in Call, Hopeless(c)
  PROVE  Hopeless(c)'
<1> USE DEF Hopeless
<1>1. at'[c] # "idle"
  BY CallsStay
<1>2. job'[c] = job[c]
  <2>1. ASSUME NEW d \in Call, Backend(d) PROVE job'[c] = job[c]
    <3>1. d # c
      BY <2>1, BackendMoves DEF JobMoves
    <3>2. QED
      BY <2>1, <3>1, OtherJobs
  <2>2. CASE \A d \in Call : ~Backend(d)
    <3>1. Elsewhere
      BY <2>2, StepsElsewhere
    <3>2. CASE job[c] = "over"
      BY <3>1, <3>2 DEF Elsewhere
    <3>3. CASE job[c] = "none"
      <4>1. ASSUME NEW d \in Call, Invoke(d) \/ Discover(d) PROVE job'[c] = job[c]
        <5>1. PICK r \in Requests[d] : Calls(d, r.by, r.asks) /\ (Refuse(d, r.asks) \/ Fetch(d, r.by))
          BY <4>1 DEF Invoke, Discover
        <5>2. d # c
          BY <5>1 DEF Calls
        <5>3. job' = job \/ job' = [job EXCEPT ![d] = "arrived"]
          BY <5>1 DEF Refuse, Fetch, backendVars
        <5>4. QED
          BY <5>2, <5>3 DEF Types
      <4>2. ASSUME NEW d \in Call, Handle(d) PROVE job'[c] = job[c]
        BY <3>3, <4>2 DEF Handle, Types
      <4>3. ASSUME NEW d \in Call, Receive(d) \/ ReceiveHealth(d) \/ Timeout(d) \/ Relay(d)
                                   \/ UpstreamTimeout(d) \/ EndThread(d)
            PROVE  job' = job
        BY <4>3 DEF Receive, ReceiveHealth, Timeout, Relay, UpstreamTimeout, EndThread, backendVars
      <4>4. ASSUME NEW x \in Call \cup Stranger,
                   StrangerConnects(x) \/ Accept(x) \/ TurnAway(x) \/ ReadDeadline(x)
            PROVE  job' = job
        BY <4>4 DEF StrangerConnects, Accept, TurnAway, ReadDeadline, backendVars
      <4>5. CASE BrokerRestart \/ UNCHANGED vars
        BY <4>5 DEF BrokerRestart, vars, backendVars
      <4>6. CASE BackendRestart
        BY <3>3, <4>6 DEF BackendRestart
      <4>7. QED
        BY <2>2, <4>1, <4>2, <4>3, <4>4, <4>5, <4>6 DEF Next, Broker
    <3>4. QED
      BY <3>2, <3>3
  <2>3. QED
    BY <2>1, <2>2
<1>3. ~Mark(c)'
  <2>1. CASE UNCHANGED <<memories, changes>>
    BY <2>1 DEF Mark
  <2>2. ASSUME NEW d \in Call, Backend(d), Adds(d) \/ Marks(d) PROVE ~Mark(c)'
    <3>1. d # c
      BY <2>2 DEF Adds, Marks
    <3>2. CASE Adds(d)
      <4> DEFINE new == [scope |-> Scope(d), by |-> d, gone |-> FALSE]
      <4>1. PICK i : memories' = [j \in DOMAIN memories \cup {i} |-> IF j = i THEN new ELSE memories[j]]
        BY <3>2 DEF Adds
      <4>2. new.by = d
        OBVIOUS
      <4> HIDE DEF new
      <4>3. QED
        BY <3>1, <4>1, <4>2 DEF Mark
    <3>3. CASE Marks(d)
      <4>1. PICK s, gone : memories' = [memories EXCEPT ![args[d].memory] = [scope |-> s, by |-> d, gone |-> gone]]
        BY <3>3 DEF Marks, Changes
      <4>2. QED
        BY <3>1, <4>1 DEF Mark
    <3>4. QED
      BY <2>2, <3>2, <3>3
  <2>3. QED
    BY <2>1, <2>2, StepsElsewhere, BackendStore DEF Elsewhere
<1>4. CASE job[c] = "over"
  BY <1>1, <1>2, <1>3, <1>4
<1>5. CASE job[c] = "none" /\ conn[c] \in {"none", "closing", "over"}
  <2>1. ASSUME NEW d \in Call, Invoke(d) \/ Discover(d) PROVE conn'[c] = conn[c]
    <3>1. PICK r \in Requests[d] : Calls(d, r.by, r.asks) /\ (Refuse(d, r.asks) \/ Fetch(d, r.by))
      BY <2>1 DEF Invoke, Discover
    <3>2. d # c
      BY <3>1 DEF Calls
    <3>3. conn' = conn \/ conn' = [conn EXCEPT ![d] = "queued"]
      BY <3>1 DEF Refuse, Fetch, brokerVars
    <3>4. QED
      BY <3>2, <3>3 DEF Types
  <2>2. ASSUME NEW d \in Call, Broker(d) PROVE conn'[c] \in {"none", "closing", "over"}
    BY <1>5, <2>2 DEF Broker, Handle, Relay, UpstreamTimeout, EndThread, Types
  <2>3. ASSUME NEW d \in Call, Receive(d) \/ ReceiveHealth(d) \/ Timeout(d) \/ Backend(d)
        PROVE  conn' = conn
    BY <2>3, BackendMoves DEF Receive, ReceiveHealth, Timeout, JobMoves, brokerVars
  <2>4. ASSUME NEW x \in Call \cup Stranger, Accept(x) \/ TurnAway(x) \/ ReadDeadline(x)
        PROVE  conn'[c] = conn[c]
    BY <1>5, <2>4 DEF Accept, TurnAway, ReadDeadline, Types
  <2>5. ASSUME NEW x \in Stranger, StrangerConnects(x) PROVE conn'[c] = conn[c]
    BY <1>5, <2>5, NamesAssumption DEF StrangerConnects, Types
  <2>6. ASSUME BrokerRestart PROVE conn'[c] \in {"none", "over"}
    BY <1>5, <2>6 DEF BrokerRestart, Ended
  <2>7. ASSUME BackendRestart \/ UNCHANGED vars PROVE conn' = conn
    BY <2>7 DEF BackendRestart, vars, brokerVars
  <2>8. conn'[c] \in {"none", "closing", "over"}
    BY <1>5, <2>1, <2>2, <2>3, <2>4, <2>5, <2>6, <2>7 DEF Next
  <2>9. QED
    BY <1>1, <1>2, <1>3, <1>5, <2>8
<1>6. QED
  BY <1>4, <1>5

\* A call without a job, or whose job has only arrived, has left no mark.
LEMMA NoMarkYet ==
  ASSUME Store, NEW c \in Call, job[c] \notin {"changed", "over"}
  PROVE  ~Mark(c)
  BY DEF Store, MarksAreOfChanges, Mark

\* What the backend replies with is true of the store.
LEMMA RepliesAreTrue ==
  ASSUME Types, Records, Way, Store, [Next]_vars, NEW c \in Call, Backend(c),
         NEW s \in {200, 404, 500}, Replies(c, s)
  PROVE  /\ job'[c] = "over" /\ UNCHANGED <<memories, changes>>
         /\ s = 200 => Effect(c)
         /\ s = 404 => ~Mark(c)
<1>1. job' = [job EXCEPT ![c] = "over"] /\ reply' = [reply EXCEPT ![c] = s]
  BY DEF Replies
<1>2. job'[c] = "over" /\ reply'[c] = s
  BY <1>1 DEF Types
<1>3. UNCHANGED <<memories, changes>>
  BY <1>2, BackendStore DEF Adds, Marks, Goes, Types
<1>4. CASE s = 500
  BY <1>2, <1>3, <1>4
<1>5. CASE ReadScope(c) \/ ReadOne(c)
  <2>1. s = 200 /\ args[c].op \notin Mutations
    BY <1>2, <1>5 DEF ReadScope, ReadOne, Replies, Types, Mutations
  <2>2. QED
    BY <1>2, <1>3, <2>1 DEF Effect, Mutations, Deletions
<1>6. CASE Check(c)
  <2>1. job[c] = "arrived" /\ s = 404
    BY <1>2, <1>6 DEF Check, Goes, Replies, Types
  <2>2. QED
    BY <1>2, <1>3, <2>1, NoMarkYet
<1>7. CASE Delete(c)
  <2>1. job[c] = "checked" /\ args[c].op \in Deletions /\ ~There(c) /\ s \in {200, 500}
    <3>1. There(c) => Goes(c, "changed")
      BY <1>7 DEF Delete, Changes
    <3>2. ~There(c)
      BY <1>2, <3>1 DEF Goes, Types
    <3>3. Replies(c, 200) \/ Replies(c, 500)
      BY <1>7, <3>2 DEF Delete
    <3>4. QED
      BY <1>2, <1>7, <3>2, <3>3 DEF Delete, Replies, Types
  <2>2. Gone(c)
    BY <2>1 DEF There, Gone, Exists, Store, CheckedIsInScope
  <2>3. QED
    BY <1>2, <1>3, <2>1, <2>2 DEF Effect, Deletions
<1>8. CASE Done(c)
  <2>1. job[c] = "changed" /\ s = IF args[c].op = "update" /\ ~Scoped(c) THEN 404 ELSE 200
    BY <1>2, <1>8 DEF Done, Replies, Types
  <2>2. Effect(c)
    BY <2>1 DEF Store, ChangedHasEffect
  <2>3. ASSUME s = 404 PROVE ~Mark(c)
    <3>1. args[c].op = "update" /\ ~Scoped(c)
      BY <2>1, <2>3
    <3>2. Exists(c) /\ Memory(c).scope = Scope(c)
      BY <2>1, <3>1 DEF Store, ChangedHasEffect
    <3>3. Memory(c).gone
      BY <3>1, <3>2 DEF Scoped, There, Exists
    <3>4. ASSUME NEW i \in DOMAIN memories, memories[i].by = c PROVE FALSE
      <4>1. i = args[c].memory
        BY <3>1, <3>4 DEF Store, MarksAreOfChanges
      <4>2. args[c].op \in Deletions
        BY <3>3, <3>4, <4>1 DEF Store, MarksAreOfChanges, Memory
      <4>3. QED
        BY <3>1, <4>2 DEF Deletions
    <3>5. QED
      BY <3>4 DEF Mark
  <2>4. QED
    BY <1>2, <1>3, <2>2, <2>3
<1>9. CASE Update(c) \/ Add(c) \/ Fails(c)
  <2>1. s = 500
    <3>1. CASE Update(c)
      <4>1. Replies(c, 500) \/ Goes(c, "changed")
        BY <3>1 DEF Update
      <4>2. QED
        BY <1>2, <4>1 DEF Goes, Replies, Types
    <3>2. CASE Add(c) \/ Fails(c)
      BY <1>2, <3>2 DEF Add, Fails, Goes, Replies, Types
    <3>3. QED
      BY <1>9, <3>1, <3>2
  <2>2. QED
    BY <1>4, <2>1
<1>10. QED
  BY <1>5, <1>6, <1>7, <1>8, <1>9 DEF Backend

\* What a step makes of the status and the reply of a call: it leaves them, or says something
\* that is true of the store.
Says(c) ==
  \/ status'[c] \in {status[c], NoStatus, Broken, 500, 502, 503}
  \/ status'[c] = 200 /\ Effect(c)'
  \/ status'[c] \in ClientError /\ (args'[c].op \in Mutations => Hopeless(c)')

RepliesTruly(c) ==
  \/ reply'[c] \in {reply[c], NoStatus, Broken, 500}
  \/ reply'[c] = 200 /\ Effect(c)'
  \/ reply'[c] = 404 /\ ~Mark(c)'

LEMMA BackendSays ==
  ASSUME Types, Records, Way, Store, [Next]_vars, NEW d \in Call, Backend(d), NEW c \in Call
  PROVE  Says(c) /\ RepliesTruly(c)
<1> USE DEF Says, RepliesTruly
<1>1. CASE c # d
  BY <1>1, OtherJobs
<1>2. CASE c = d
  <2>1. CASE \E where \in {"checked", "changed"} : Goes(c, where)
    BY <2>1 DEF Goes
  <2>2. ASSUME NEW s \in {200, 404, 500}, Replies(c, s) PROVE Says(c) /\ RepliesTruly(c)
    <3>1. /\ job'[c] = "over" /\ UNCHANGED <<memories, changes>>
          /\ s = 200 => Effect(c)
          /\ s = 404 => ~Mark(c)
      BY <1>2, <2>2, RepliesAreTrue
    <3>2. reply'[c] = s /\ status'[c] \in {status[c], s}
      BY <2>2 DEF Replies, Unsent, Send, Types
    <3>3. at[c] # "idle" /\ at'[c] # "idle"
      BY <1>2, BackendMoves, CallsStay DEF JobMoves, Way, NothingBeforeTheCall
    <3>4. s = 200 => Effect(c)'
      BY <3>1, <3>3, CallsKeepEffects
    <3>5. s = 404 => ~Mark(c)' /\ Hopeless(c)'
      BY <3>1, <3>3 DEF Mark, Hopeless
    <3>6. QED
      BY <3>2, <3>4, <3>5 DEF ClientError
  <2>3. QED
    BY <1>2, <2>1, <2>2, BackendMoves DEF JobMoves
<1>3. QED
  BY <1>1, <1>2

\* The broker and the MCP server say nothing that is not true either.
LEMMA StepSays ==
  ASSUME Types, Records, Way, Store, Truth, [Next]_vars, NEW c \in Call
  PROVE  Says(c) /\ RepliesTruly(c)
<1> USE DEF Says, RepliesTruly
<1>1. ASSUME NEW d \in Call, Handle(d) PROVE Says(c) /\ RepliesTruly(c)
  <2> DEFINE refusal == Refusal(client[d], args[d])
  <2>1. reply' = reply /\ UNCHANGED <<memories, changes, at, client, args>>
    BY <1>1 DEF Handle, callVars
  <2>2. CASE c # d \/ status' = status
    BY <1>1, <2>1, <2>2 DEF Handle, Send, Types
  <2>3. CASE c = d /\ status' # status
    <3>1. job[c] = "none" /\ at[c] # "idle" /\ job' = job /\ conn'[c] = "closing"
          /\ \/ refusal # NoStatus /\ status'[c] = refusal
             \/ args[c].op = "list_targets" /\ status'[c] = 200
      BY <1>1, <2>3 DEF Handle, Send, Way, OnlyByBroker, PassedOn, NothingBeforeTheCall, Types
    <3>2. Hopeless(c)'
      <4>1. ~Mark(c)
        BY <3>1, NoMarkYet
      <4>2. QED
        BY <2>1, <3>1, <4>1 DEF Hopeless, Mark
    <3>3. CASE refusal # NoStatus /\ status'[c] = refusal
      BY <2>1, <3>2, <3>3, RefusalCodes DEF ClientError
    <3>4. CASE args[c].op = "list_targets" /\ status'[c] = 200
      BY <2>1, <3>4 DEF Effect, Deletions
    <3>5. QED
      BY <3>1, <3>3, <3>4
  <2>4. QED
    BY <2>2, <2>3
<1>2. ASSUME NEW d \in Call, Relay(d) PROVE Says(c) /\ RepliesTruly(c)
  <2>1. reply' = reply /\ UNCHANGED <<job, memories, changes, at, client, args>>
    BY <1>2 DEF Relay, callVars
  <2>2. CASE c # d
    BY <1>2, <2>1, <2>2 DEF Relay, Send, Types
  <2>3. CASE c = d
    <3>1. /\ status'[c] \in {IF reply[c] = Broken THEN 503 ELSE reply[c], 502}
          /\ reply[c] # NoStatus /\ conn[c] = "asked"
      BY <1>2, <2>3 DEF Relay, Send, Types
    <3>2. job[c] = "over" /\ at[c] # "idle"
      BY <3>1 DEF Way, RepliesEnd, NothingBeforeTheCall
    <3>3. CASE status'[c] = 200
      <4>1. reply[c] = 200
        BY <3>1, <3>3 DEF Broken
      <4>2. Effect(c)
        BY <4>1 DEF Truth, SuccessHasEffect
      <4>3. QED
        BY <2>1, <3>2, <3>3, <4>2, CallsKeepEffects
    <3>4. CASE status'[c] = 404
      <4>1. reply[c] = 404
        BY <3>1, <3>4 DEF Broken
      <4>2. args[c].op \in Mutations => ~Mark(c)
        BY <3>2, <4>1 DEF Truth, ErrorIsFinal
      <4>3. args'[c].op \in Mutations => Hopeless(c)'
        BY <2>1, <3>2, <4>2 DEF Hopeless, Mark
      <4>4. QED
        BY <2>1, <3>4, <4>3 DEF ClientError
    <3>5. CASE status'[c] \notin {200, 404}
      BY <2>1, <3>1, <3>5 DEF Types
    <3>6. QED
      BY <3>3, <3>4, <3>5
  <2>4. QED
    BY <2>2, <2>3
<1>3. ASSUME NEW d \in Call, Invoke(d) \/ Discover(d) PROVE UNCHANGED <<status, reply>>
  BY <1>3 DEF Invoke, Discover, Refuse, Fetch, backendVars
<1>4. ASSUME NEW d \in Call, Receive(d) \/ ReceiveHealth(d) \/ Timeout(d) \/ EndThread(d)
      PROVE  UNCHANGED <<status, reply>>
  BY <1>4 DEF Receive, ReceiveHealth, Timeout, EndThread, backendVars
<1>5. ASSUME NEW d \in Call, UpstreamTimeout(d) PROVE Says(c) /\ RepliesTruly(c)
  BY <1>5 DEF UpstreamTimeout, Send, backendVars, Types
<1>6. ASSUME NEW x \in Call \cup Stranger, StrangerConnects(x) \/ Accept(x) \/ TurnAway(x) \/ ReadDeadline(x)
      PROVE  Says(c) /\ RepliesTruly(c)
  BY <1>6 DEF StrangerConnects, Accept, TurnAway, ReadDeadline, Send, Unsent, backendVars, Types
<1>7. CASE BrokerRestart
  BY <1>7 DEF BrokerRestart, backendVars
<1>8. CASE BackendRestart
  BY <1>8 DEF BackendRestart
<1>9. CASE UNCHANGED vars
  BY <1>9 DEF vars, backendVars
<1>10. QED
  BY <1>1, <1>2, <1>3, <1>4, <1>5, <1>6, <1>7, <1>8, <1>9, BackendSays DEF Next, Broker

\* What returns to the caller: nothing, or an answer of its tool.
Answers(c) ==
  \/ at'[c] = "returned" => at[c] = "returned" /\ answer'[c] = answer[c]
  \/ /\ at'[c] = "returned"
     /\ answer'[c].ok => status[c] = 200
     /\ args'[c].op \in Mutations /\ ~answer'[c].ok /\ ~answer'[c].uncertain =>
          \/ status[c] \in ClientError
          \/ conn'[c] = "none" /\ job'[c] = "none"

LEMMA ReturnAnswers ==
  ASSUME Types, NEW c \in Call, NEW a, NEW ok, NEW u, NEW r,
         ok \in BOOLEAN, u \in BOOLEAN, r \in BOOLEAN,
         Return(c, a, ok, u, r), NEW d \in Call
  PROVE  /\ d # c => at'[d] = at[d] /\ answer'[d] = answer[d]
         /\ at'[c] = "returned"
         /\ answer'[c].ok => ok
         /\ a.op \in Mutations /\ ~answer'[c].ok /\ ~answer'[c].uncertain => ~ok /\ ~u
<1> DEFINE m == a.op \in Mutations
           said == [ok |-> ok, uncertain |-> m /\ u, retryable |-> ~m /\ r]
           unsaid == [ok |-> FALSE, uncertain |-> m /\ (u \/ ok), retryable |-> FALSE]
<1>1. /\ answer' = [answer EXCEPT ![c] = said] \/ answer' = [answer EXCEPT ![c] = unsaid]
      /\ at' = [at EXCEPT ![c] = "returned"]
  BY DEF Return
<1>2. said.ok = ok /\ (said.uncertain <=> m /\ u) /\ ~unsaid.ok /\ (unsaid.uncertain <=> m /\ (u \/ ok))
  OBVIOUS
<1> HIDE DEF said, unsaid
<1>3. /\ answer'[c] \in {said, unsaid}
      /\ d # c => answer'[d] = answer[d]
      /\ at'[c] = "returned" /\ (d # c => at'[d] = at[d])
  BY <1>1 DEF Types
<1>4. QED
  BY <1>2, <1>3

LEMMA StepAnswers ==
  ASSUME Types, Way, [Next]_vars, NEW c \in Call
  PROVE  Answers(c)
<1> USE DEF Answers
<1>1. ASSUME NEW d \in Call, NEW r \in Requests[d], Calls(d, r.by, r.asks),
             Refuse(d, r.asks) \/ Fetch(d, r.by)
      PROVE  Answers(c)
  <2>1. CASE Fetch(d, r.by)
    BY <2>1 DEF Fetch, Types
  <2>2. CASE Refuse(d, r.asks)
    <3>1. Return(d, r.asks, FALSE, FALSE, FALSE) /\ UNCHANGED <<conn, job>>
      BY <2>2 DEF Refuse, brokerVars, backendVars
    <3>2. /\ c # d => at'[c] = at[c] /\ answer'[c] = answer[c]
          /\ ~answer'[d].ok
      BY <3>1, ReturnAnswers
    <3>3. conn[d] = "none" /\ job[d] = "none"
      BY <1>1 DEF Calls, Way, NothingBeforeTheCall
    <3>4. at'[d] = "returned"
      BY <3>1 DEF Return, Types
    <3>5. QED
      BY <3>1, <3>2, <3>3, <3>4
  <2>3. QED
    BY <1>1, <2>1, <2>2
<1>2. ASSUME NEW d \in Call, NEW ok \in BOOLEAN, NEW u \in BOOLEAN, NEW r \in BOOLEAN,
             Return(d, args[d], ok, u, r), UNCHANGED <<client, args, conn, job>>,
             ok => status[d] = 200,
             args[d].op \in Mutations /\ ~ok /\ ~u => status[d] \in ClientError
      PROVE  Answers(c)
  <2>1. /\ c # d => at'[c] = at[c] /\ answer'[c] = answer[c]
        /\ at'[d] = "returned"
        /\ answer'[d].ok => ok
        /\ args[d].op \in Mutations /\ ~answer'[d].ok /\ ~answer'[d].uncertain => ~ok /\ ~u
    BY <1>2, ReturnAnswers
  <2>2. QED
    BY <1>2, <2>1
<1>3. ASSUME NEW d \in Call, Receive(d) PROVE Answers(c)
  <2>1. UNCHANGED <<client, args, conn, job>>
    BY <1>3 DEF Receive, brokerVars, backendVars
  <2>2. /\ OutcomeUncertain(Broken) /\ OutcomeUncertain(status[d]) \in BOOLEAN
        /\ Retryable(status[d]) \in BOOLEAN /\ OutcomeUncertain(Broken) \in BOOLEAN
    BY DEF Retryable, OutcomeUncertain
  <2>3. status[d] >= 400 /\ ~OutcomeUncertain(status[d]) => status[d] \in ClientError
    BY DEF Types, OutcomeUncertain, NoStatus, Broken, ClientError
  <2>4. QED
    BY <1>2, <1>3, <2>1, <2>2, <2>3 DEF Receive
<1>4. ASSUME NEW d \in Call, ReceiveHealth(d) PROVE Answers(c)
  <2>1. UNCHANGED <<client, args, conn, job>> /\ args[d].op \notin Mutations
    BY <1>4 DEF ReceiveHealth, brokerVars, backendVars, Mutations
  <2>2. (status[d] = 200) \in BOOLEAN /\ (status[d] = Broken \/ Retryable(status[d])) \in BOOLEAN
    OBVIOUS
  <2>3. QED
    BY <1>2, <1>4, <2>1, <2>2 DEF ReceiveHealth
<1>5. ASSUME NEW d \in Call, Timeout(d) PROVE Answers(c)
  <2>1. UNCHANGED <<client, args, conn, job>>
    BY <1>5 DEF Timeout, brokerVars, backendVars
  <2>2. QED
    BY <1>2, <1>5, <2>1 DEF Timeout
<1>6. ASSUME UNCHANGED <<at, answer>> PROVE Answers(c)
  BY <1>6
<1>7. ASSUME NEW d \in Call, Broker(d) PROVE UNCHANGED <<at, answer>>
  BY <1>7 DEF Broker, Handle, Relay, UpstreamTimeout, EndThread, callVars
<1>8. ASSUME NEW d \in Call, Backend(d) PROVE UNCHANGED <<at, answer>>
  BY <1>8, BackendMoves DEF JobMoves, callVars
<1>9. ASSUME NEW x \in Call \cup Stranger, StrangerConnects(x) \/ Accept(x) \/ TurnAway(x) \/ ReadDeadline(x)
      PROVE  UNCHANGED <<at, answer>>
  BY <1>9 DEF StrangerConnects, Accept, TurnAway, ReadDeadline, callVars
<1>10. CASE BrokerRestart \/ BackendRestart \/ UNCHANGED vars
  BY <1>6, <1>10 DEF BrokerRestart, BackendRestart, vars, callVars
<1>11. ASSUME NEW d \in Call, Invoke(d) \/ Discover(d) PROVE Answers(c)
  BY <1>1, <1>11 DEF Invoke, Discover
<1>12. QED
  BY <1>3, <1>4, <1>5, <1>6, <1>7, <1>8, <1>9, <1>10, <1>11 DEF Next

\* Every step keeps what is said true.
LEMMA TruthStep ==
  ASSUME Types, Records, Way, Store, Truth, [Next]_vars
  PROVE  Truth'
<1>1. \A c \in Call : status[c] # NoStatus \/ reply[c] # NoStatus => at[c] # "idle"
  BY DEF Way, NothingBeforeTheCall
<1>2. SuccessHasEffect'
  <2> SUFFICES ASSUME NEW c \in Call, 200 \in {status'[c], reply'[c]}
               PROVE  Effect(c)'
    BY DEF SuccessHasEffect
  <2>1. Says(c) /\ RepliesTruly(c)
    BY StepSays
  <2>2. Effect(c)' \/ 200 \in {status[c], reply[c]}
    BY <2>1 DEF Says, RepliesTruly, NoStatus, Broken, ClientError
  <2>3. CASE 200 \in {status[c], reply[c]}
    <3>1. at[c] # "idle" /\ Effect(c)
      BY <1>1, <2>3 DEF Truth, SuccessHasEffect, NoStatus
    <3>2. QED
      BY <3>1, CallsKeepEffects
  <2>4. QED
    BY <2>2, <2>3
<1>3. ErrorIsFinal'
  <2> SUFFICES ASSUME NEW c \in Call, at'[c] # "idle", args'[c].op \in Mutations
               PROVE  /\ status'[c] \in ClientError => Hopeless(c)'
                      /\ reply'[c] = 404 => ~Mark(c)'
    BY DEF ErrorIsFinal
  <2>1. Says(c) /\ RepliesTruly(c)
    BY StepSays
  <2>2. ASSUME status'[c] \in ClientError, ~Hopeless(c)' PROVE FALSE
    <3>1. status[c] \in ClientError
      BY <2>1, <2>2 DEF Says, NoStatus, Broken, ClientError
    <3>2. at[c] # "idle" /\ args'[c] = args[c]
      BY <1>1, <3>1, CallsStay DEF NoStatus, ClientError
    <3>3. Hopeless(c)
      BY <3>1, <3>2 DEF Truth, ErrorIsFinal
    <3>4. QED
      BY <2>2, <3>3, HopelessStays
  <2>3. ASSUME reply'[c] = 404, Mark(c)' PROVE FALSE
    <3>1. reply[c] = 404
      BY <2>1, <2>3 DEF RepliesTruly, NoStatus, Broken
    <3>2. at[c] # "idle" /\ args'[c] = args[c] /\ job[c] = "over"
      BY <1>1, <3>1, CallsStay DEF NoStatus, Way, RepliesEnd
    <3>3. Hopeless(c)
      BY <3>1, <3>2 DEF Truth, ErrorIsFinal, Hopeless
    <3>4. QED
      BY <2>3, <3>3, HopelessStays DEF Hopeless
  <2>4. QED
    BY <2>2, <2>3
<1>4. AnswersHold'
  <2> SUFFICES ASSUME NEW c \in Call, at'[c] = "returned", args'[c].op \in Mutations
               PROVE  /\ answer'[c].ok => Effect(c)'
                      /\ ~answer'[c].ok /\ ~answer'[c].uncertain => Hopeless(c)'
    BY DEF AnswersHold
  <2>1. CASE at[c] = "returned" /\ answer'[c] = answer[c]
    <3>1. args'[c] = args[c]
      BY <2>1, CallsStay
    <3>2. QED
      BY <2>1, <3>1, CallsKeepEffects, HopelessStays DEF Truth, AnswersHold
  <2>2. CASE /\ answer'[c].ok => status[c] = 200
             /\ ~answer'[c].ok /\ ~answer'[c].uncertain =>
                  \/ status[c] \in ClientError
                  \/ conn'[c] = "none" /\ job'[c] = "none"
    <3>1. ASSUME status[c] = 200 PROVE Effect(c)'
      BY <1>1, <3>1, CallsKeepEffects DEF Truth, SuccessHasEffect, NoStatus
    <3>2. ASSUME status[c] \in ClientError PROVE Hopeless(c)'
      <4>1. at[c] # "idle" /\ args'[c] = args[c]
        BY <1>1, <3>2, CallsStay DEF NoStatus, ClientError
      <4>2. QED
        BY <3>2, <4>1, HopelessStays DEF Truth, ErrorIsFinal
    <3>3. ASSUME conn'[c] = "none", job'[c] = "none" PROVE Hopeless(c)'
      <4>1. Store'
        BY StoreStep
      <4>2. ~Mark(c)'
        BY <3>3, <4>1 DEF Store, MarksAreOfChanges, Mark
      <4>3. QED
        BY <3>3, <4>2 DEF Hopeless
    <3>4. QED
      BY <2>2, <3>1, <3>2, <3>3
  <2>3. QED
    BY <2>1, <2>2, StepAnswers DEF Answers
<1>5. QED
  BY <1>2, <1>3, <1>4 DEF Truth

\* Every step keeps the invariant.
LEMMA StepKeeps == IInv /\ [Next]_vars => IInv'
<1> SUFFICES ASSUME IInv, [Next]_vars PROVE IInv'
  OBVIOUS
<1>1. Types' /\ Chosen' /\ Records' /\ Way'
  BY TypesStep, ChosenStep, StoreGrows, WayStep DEF IInv
<1>2. Store'
  BY StoreStep DEF IInv
<1>3. Grants'
  BY WorksInGrantedScopeStep, ChangesAreGrantedStep, ReadsAreGrantedStep DEF IInv, Grants
<1>4. Truth'
  BY TruthStep DEF IInv
<1>5. QED
  BY <1>1, <1>2, <1>3, <1>4 DEF IInv

----
\* The inductive invariant holds in every reachable state.
THEOREM Invariant == Spec => []IInv
<1>1. QED
  BY InitEstablishes, StepKeeps, PTL DEF Spec

\* A success of a mutation was done, and a failure that is not called uncertain has left nothing
\* behind (service.js:20-29, backend.js:32-38).
THEOREM AnswersAreTrue == Spec => []MutationAnswersAreTrue
<1>1. IInv => MutationAnswersAreTrue
  BY DEF IInv, Truth, AnswersHold, Effect, Changed, Gone, Hopeless, Mark, MutationAnswersAreTrue
<1>2. QED
  BY <1>1, Invariant, PTL

\* Nobody reads or changes a memory outside the granted scopes (server.py:303-313, scoped()).
THEOREM ScopesAreKept == Spec => []OnlyGrantedScopes
<1>1. IInv => OnlyGrantedScopes
  BY DEF IInv, Grants, ChangesAreGranted, ReadsAreGranted, OnlyGrantedScopes
<1>2. QED
  BY <1>1, Invariant, PTL

\* Every change that came through the broker is in its log (server.py:316-328).
THEOREM ChangesAreOnRecord == Spec => []EveryChangeOnRecord
<1>1. IInv => EveryChangeOnRecord
  BY DEF IInv, Grants, ChangesAreGranted, Way, PassedOn, EveryChangeOnRecord
<1>2. QED
  BY <1>1, Invariant, PTL

----
(* The connection slots of the broker *)

\* One more element, or one less, of a finite set.
LEMMA OneMore ==
  ASSUME NEW S, NEW x, IsFiniteSet(S), x \notin S
  PROVE  IsFiniteSet(S \cup {x}) /\ Cardinality(S \cup {x}) = Cardinality(S) + 1
  BY FS_AddElement

LEMMA OneLess ==
  ASSUME NEW S, NEW x, IsFiniteSet(S), x \in S
  PROVE  /\ IsFiniteSet(S \ {x}) /\ Cardinality(S \ {x}) = Cardinality(S) - 1
         /\ Cardinality(S) \in Nat /\ Cardinality(S \ {x}) \in Nat
  BY FS_RemoveElement, FS_CardinalityType

\* A slot is taken for a thread that starts.
LEMMA SlotTaken ==
  ASSUME SlotsAreCounted, NEW x, Threads' = Threads \cup {x}, x \notin Threads,
         slots > 0, slots' = slots - 1
  PROVE  SlotsAreCounted'
<1>1. IsFiniteSet(Threads') /\ Cardinality(Threads') = Cardinality(Threads) + 1
  BY OneMore DEF SlotsAreCounted
<1>2. Cardinality(Threads) \in Nat
  BY FS_CardinalityType DEF SlotsAreCounted
<1>3. QED
  BY <1>1, <1>2, NamesAssumption DEF SlotsAreCounted

\* It is given back when the thread ends.
LEMMA SlotGivenBack ==
  ASSUME SlotsAreCounted, NEW x, x \in Threads, Threads' = Threads \ {x}, slots' = slots + 1
  PROVE  SlotsAreCounted'
<1>1. /\ IsFiniteSet(Threads') /\ Cardinality(Threads') = Cardinality(Threads) - 1
      /\ Cardinality(Threads) \in Nat /\ Cardinality(Threads') \in Nat
  BY OneLess DEF SlotsAreCounted
<1>2. QED
  BY <1>1, NamesAssumption DEF SlotsAreCounted

LEMMA SlotsInit == Init => SlotsAreCounted
<1> SUFFICES ASSUME Init PROVE SlotsAreCounted
  OBVIOUS
<1>1. Threads = {}
  BY DEF Init, Threads
<1>2. IsFiniteSet({}) /\ Cardinality({}) = 0
  BY FS_EmptySet
<1>3. QED
  BY <1>1, <1>2, NamesAssumption DEF Init, SlotsAreCounted

\* Every step keeps the count, whatever way a thread ends.
LEMMA SlotsStep ==
  ASSUME Types, Way, SlotsAreCounted, [Next]_vars
  PROVE  SlotsAreCounted'
<1> USE DEF Types
<1>1. ASSUME Threads' = Threads, slots' = slots PROVE SlotsAreCounted'
  BY <1>1 DEF SlotsAreCounted
<1>2. ASSUME NEW x \in Call \cup Stranger, Accept(x) PROVE SlotsAreCounted'
  <2>1. conn[x] = "queued" /\ conn' = [conn EXCEPT ![x] = "open"] /\ slots > 0 /\ slots' = slots - 1
    BY <1>2 DEF Accept
  <2>2. Threads' = Threads \cup {x} /\ x \notin Threads
    BY <2>1 DEF Threads
  <2>3. QED
    BY <2>1, <2>2, SlotTaken
<1>3. ASSUME NEW x \in Call \cup Stranger, ReadDeadline(x) \/ (x \in Call /\ EndThread(x)) PROVE SlotsAreCounted'
  <2>1. /\ conn[x] \in {"open", "closing"} /\ slots' = slots + 1
        /\ conn' = [conn EXCEPT ![x] = "none"] \/ conn' = [conn EXCEPT ![x] = "over"]
    BY <1>3 DEF ReadDeadline, EndThread, Ended
  <2>2. Threads' = Threads \ {x} /\ x \in Threads
    BY <2>1 DEF Threads
  <2>3. QED
    BY <2>1, <2>2, SlotGivenBack
<1>4. ASSUME NEW x \in Call \cup Stranger, TurnAway(x) \/ StrangerConnects(x) PROVE SlotsAreCounted'
  <2>1. Threads' = Threads /\ slots' = slots
    BY <1>4 DEF TurnAway, StrangerConnects, Ended, Threads
  <2>2. QED
    BY <1>1, <2>1
<1>5. ASSUME NEW c \in Call, Handle(c) \/ Relay(c) \/ UpstreamTimeout(c) PROVE SlotsAreCounted'
  <2>1. /\ conn[c] \in {"open", "asked"} /\ slots' = slots
        /\ conn' = [conn EXCEPT ![c] = "asked"] \/ conn' = [conn EXCEPT ![c] = "closing"]
    BY <1>5 DEF Handle, Relay, UpstreamTimeout
  <2>2. Threads' = Threads
    BY <2>1 DEF Threads
  <2>3. QED
    BY <1>1, <2>1, <2>2
<1>6. ASSUME NEW c \in Call, Invoke(c) \/ Discover(c) PROVE SlotsAreCounted'
  <2>1. PICK r \in Requests[c] : Calls(c, r.by, r.asks) /\ (Refuse(c, r.asks) \/ Fetch(c, r.by))
    BY <1>6 DEF Invoke, Discover
  <2>2. conn[c] = "none" /\ slots' = slots /\ (conn' = conn \/ conn' = [conn EXCEPT ![c] = "queued"])
    BY <2>1 DEF Calls, Refuse, Fetch, brokerVars, Way, NothingBeforeTheCall
  <2>3. Threads' = Threads
    BY <2>2 DEF Threads
  <2>4. QED
    BY <1>1, <2>2, <2>3
<1>7. ASSUME UNCHANGED <<conn, slots>> PROVE SlotsAreCounted'
  <2>1. Threads' = Threads
    BY <1>7 DEF Threads
  <2>2. QED
    BY <1>1, <1>7, <2>1
<1>8. ASSUME NEW c \in Call, Receive(c) \/ ReceiveHealth(c) \/ Timeout(c) \/ Backend(c)
      PROVE  UNCHANGED <<conn, slots>>
  BY <1>8, BackendMoves DEF Receive, ReceiveHealth, Timeout, JobMoves, brokerVars
<1>9. CASE BackendRestart \/ UNCHANGED vars
  BY <1>7, <1>9 DEF BackendRestart, vars, brokerVars
<1>10. CASE BrokerRestart
  <2>1. Threads' = {} /\ slots' = MaxConnections
    BY <1>10 DEF BrokerRestart, Threads, Ended
  <2>2. IsFiniteSet({}) /\ Cardinality({}) = 0
    BY FS_EmptySet
  <2>3. QED
    BY <2>1, <2>2, NamesAssumption DEF SlotsAreCounted
<1>11. QED
  BY <1>2, <1>3, <1>4, <1>5, <1>6, <1>7, <1>8, <1>9, <1>10 DEF Next, Broker

\* The slots that are not free are those of the threads that run: none is lost or given back
\* twice by a refusal, a deadline or a restart (server.py:97-111).
THEOREM NoSlotIsLost == Spec => []SlotsAreCounted
<1>1. IInv /\ SlotsAreCounted /\ [Next]_vars => SlotsAreCounted'
  BY SlotsStep DEF IInv
<1>2. QED
  BY <1>1, SlotsInit, Invariant, PTL DEF Spec

\* Every variable has its type.
THEOREM TypeCorrect == Spec => []TypeOK
<1>1. IInv /\ SlotsAreCounted => TypeOK
  <2> SUFFICES ASSUME IInv, SlotsAreCounted PROVE TypeOK
    OBVIOUS
  <2>1. slots \in 0 .. MaxConnections
    <3>1. Cardinality(Threads) \in Nat
      BY FS_CardinalityType DEF SlotsAreCounted
    <3>2. QED
      BY <3>1, NamesAssumption DEF SlotsAreCounted
  <2>2. \A i \in DOMAIN memories : memories[i].by \in Call \cup {Nobody}
    BY DEF IInv, Store, MarksAreOfChanges
  <2>3. QED
    BY <2>1, <2>2 DEF IInv, Types, Chosen, TypeOK
<1>2. QED
  BY <1>1, NoSlotIsLost, Invariant, PTL

====
