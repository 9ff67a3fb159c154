---- MODULE ChatAdmission ----
(***************************************************************************)
(* What POST /chat decides before a run starts, gateway/src/chat.js: the   *)
(* settings the run has, the authority it runs under and whether it may    *)
(* continue the session it names; and the binding of the session when the  *)
(* run has ended.  The settings, the configuration and the bindings        *)
(* outlive the gateway process, the runs do not.                           *)
(***************************************************************************)
EXTENDS Settings, ExecutionAuthority

CONSTANTS Request,
          Override,    \* settings a request may bring
          Authority    \* profile and boundary a request may ask for

\* What stands for no session and no binding is neither.
ASSUME NamesAssumption ==
  /\ NoSession \notin Session
  /\ \A cfg \in Config : \A chat \in Configured(cfg) :
       \A runtime \in {"opencode", "codex", "unknown"} : Tuple(cfg, chat, runtime) # NoBinding

VARIABLES run,         \* the life of each request
          served       \* the tuples under which each session was continued, or named in a result

chatVars == <<run, served>>
vars == <<settingsVars, authorityVars, chatVars>>

NewRun == [state |-> "new", session |-> NoSession, resumed |-> FALSE, tuple |-> NoBinding]
OverRun == [NewRun EXCEPT !.state = "over"]
RunState == {"new", "running", "over"}

TypeOK ==
  /\ \A document \in onDisk \cup {store} :
       /\ document.file_revision \in 0 .. MaxRevision
       /\ \A w \in Where : document.scope[w].revision \in 0 .. document.file_revision
  /\ writing # NoWrite => writing.by \in Client
  /\ \A c \in Client : client[c].state \in {"new", "ready", "acked", "failed"}
  /\ lost \subseteq Session
  /\ \A r \in Request : run[r].state \in RunState /\ run[r].session \in Session \cup {NoSession}

Init ==
  /\ SettingsInit
  /\ AuthorityInit
  /\ run = [r \in Request |-> NewRun]
  /\ served = [s \in Session |-> {}]

Running == {r \in Request : run[r].state = "running"}

\* concurrency.js: the lock of a session is that of a session in a chat.
Busy(chat, s) == \E r \in Running : run[r].resumed /\ run[r].session = s /\ run[r].tuple.chat = chat

Refused(r) == run' = [run EXCEPT ![r] = OverRun] /\ UNCHANGED served

Values(chat, overrides) == RawEffective(config, store, chat, overrides)
RuntimeOf(chat, overrides) == NormalizeRuntime(Values(chat, overrides).runtime)

\* What is asked before the session is looked at: settings that can run, an authority that is there.
Entitled(chat, overrides, asked) ==
  /\ ValidTuple(config, Values(chat, overrides))
  /\ Authorized(config.policy, config.chats[chat].policy, asked, RuntimeOf(chat, overrides))

\* The checks in the order of chat.js: settings, authority, session.  The last checks
\* (availability, destination_dir, the idempotency key, the lock of the session, the files) may
\* refuse any request, after a session of an earlier release has been adopted.
Chat_(r, chat, s, overrides, asked) ==
  /\ Free
  /\ run[r].state = "new"
  /\ chat \in Configured(config)
  /\ UNCHANGED <<settingsVars, lost>>
  /\ LET tuple == Tuple(config, chat, RuntimeOf(chat, overrides))
         legacy == Legacy(config, chat)
     IN IF ~Entitled(chat, overrides, asked)
        THEN Refused(r) /\ UNCHANGED binding
        ELSE IF s = NoSession
        THEN /\ UNCHANGED binding
             /\ \/ Refused(r)
                \/ /\ run' = [run EXCEPT ![r].state = "running", ![r].tuple = tuple]
                   /\ UNCHANGED served
        ELSE /\ binding' = Bound(s, tuple, legacy)
             /\ \/ Refused(r)
                \/ /\ Accepts(s, tuple, legacy)
                   /\ ~Busy(chat, s)
                   /\ run' = [run EXCEPT ![r] = [state |-> "running", session |-> s,
                                                 resumed |-> TRUE, tuple |-> tuple]]
                   /\ served' = [served EXCEPT ![s] = @ \cup {tuple}]

Chat_any(r) ==
  \E chat \in Chat, s \in Session \cup {NoSession}, overrides \in Override, asked \in Authority :
    Chat_(r, chat, s, overrides, asked)

\* An agent that was given no session opens one; its identifier is new.
OpenSession(r) ==
  /\ r \in Running
  /\ run[r].session = NoSession
  /\ \E s \in Session :
       /\ binding[s] = NoBinding
       /\ s \notin lost
       /\ \A q \in Running : run[q].session # s
       /\ run' = [run EXCEPT ![r].session = s]
  /\ UNCHANGED <<settingsVars, authorityVars, served>>

\* The session of a result is bound first; a result that names a session of somebody else is
\* replaced by an error.
BindResult(r) ==
  /\ binding' = Bound(run[r].session, run[r].tuple, TRUE)
  /\ served' = IF Accepts(run[r].session, run[r].tuple, TRUE)
               THEN [served EXCEPT ![run[r].session] = @ \cup {run[r].tuple}] ELSE served

Settle(r) ==
  /\ Free
  /\ r \in Running
  /\ run' = [run EXCEPT ![r] = OverRun]
  /\ IF run[r].session = NoSession THEN UNCHANGED <<binding, served>> ELSE BindResult(r)
  /\ UNCHANGED <<settingsVars, lost>>

\* The service manager kills what the gateway has started along with it.
RunsKilled ==
  /\ run' = [r \in Request |-> IF r \in Running THEN OverRun ELSE run[r]]
  /\ UNCHANGED served

KilledAnyTime == Crash /\ RunsKilled /\ UNCHANGED authorityVars

\* The session of a result is about to be bound, or one that a request names to be adopted.
BindsNext(s) ==
  \/ \E r \in Running : run[r].session = s
  \/ /\ \E r \in Request : run[r].state = "new"
     /\ \E chat \in Configured(config), overrides \in Override, asked \in Authority :
          Entitled(chat, overrides, asked) /\ Legacy(config, chat)

KilledWhileBinding ==
  /\ Free
  /\ Crash
  /\ RunsKilled
  /\ \E s \in Session : BindsNext(s) /\ Tear(s)

\* A loss of power that takes nothing away is like KilledAnyTime.
PowerFails ==
  /\ PowerLoss
  /\ RunsKilled
  /\ LoseBindings
  /\ onDisk # {store} \/ binding' # binding

Next ==
  \/ \E c \in Client :
       /\ \E where \in Where : Describe(c, where) \/ BeginUpdate(c, where) \/ Refuse(c, where)
       /\ UNCHANGED <<authorityVars, chatVars>>
  \/ Write /\ UNCHANGED <<authorityVars, chatVars>>
  \/ \E r \in Request : Chat_any(r) \/ OpenSession(r) \/ Settle(r)
  \/ KilledAnyTime
  \/ KilledWhileBinding
  \/ PowerFails

Spec == Init /\ [][Next]_vars

----
(* Properties *)

\* However settings, configuration and runs change, and across crashes, a session is continued, and
\* named in a result, under one tuple of chat, workspace, runtime and authority only
\* (execution-session.js:14-26): whoever binds it first has it.  Only a loss of power, which can
\* take the file away, makes a session adoptable again.
OneAuthorityPerSession ==
  \A s \in Session \ lost : Cardinality(served[s]) <= 1

\* The lock on a session is one of the session in its chat (concurrency.js:16-18), and it is the
\* binding that keeps other chats away: two runs are never in one session, but where the
\* configuration never speaks of authority.  A session with no binding yet is then taken for one
\* of an earlier release and adopted, also one the run of which has only just opened it and goes on.
NoSharedSession ==
  \A q, r \in Running :
    /\ q # r
    /\ run[q].session = run[r].session
    /\ run[q].session # NoSession
    => /\ ~(run[q].resumed /\ run[r].resumed)
       /\ \E t \in {q, r} : run[t].resumed /\ Legacy(config, run[t].tuple.chat)
====
