---- MODULE SendChat ----
(***************************************************************************)
(* A call of the send-chat tool from its arguments to the end of its run:  *)
(* the MCP server stages the files and calls the gateway                   *)
(* (mcp-server/src/tools/send-chat.ts, file-utils.ts, gateway-client.ts),  *)
(* the gateway copies them and starts the run (gateway/src/chat.js), the   *)
(* user follows it with session-status, session-output and cancel-request. *)
(* Either server may be restarted at any time, and the MCP server gives    *)
(* up on an answer that takes too long.                                    *)
(***************************************************************************)
EXTENDS FileTransfer, FiniteSetsExt

CONSTANTS NoKey, NoSession, NotLaunched,
          Malformed,                               \* lists of files a user may send by mistake
          MaxFiles, MaxFileBytes, MaxTotalBytes,   \* limits of file-utils.ts
          MaxCalls, MaxRestarts                    \* bounds on calls made and restarts of the gateway

ASSUME NamesAssumption ==
  /\ MaxCalls \in Nat /\ MaxRestarts \in Nat
  /\ \A c \in Call : \A names \in SUBSET {FilesOf(c)[i].name : i \in DOMAIN FilesOf(c)} : names # NotLaunched

VARIABLES tool,        \* where the handler of each call is
          outcome,     \* what the call returned, or will
          request,     \* the HTTP request of each call
          answer,      \* what the gateway has answered to it, until it is read
          slot,        \* the gateway's table of requests, lost when it ends
          launched,    \* the files each call had in place when its agent was started
          ranHere,     \* history: the calls launched since the gateway was last started
          told,        \* what session-status or session-output last said of each call
          restarts

callVars == <<tool, outcome, request, answer>>
gatewayVars == <<slot, launched, ranHere, told, restarts>>
vars == <<transferVars, callVars, gatewayVars>>

\* "refused" is an error that names the gateway's status (GatewayError); "failed" is any other, which
\* says nothing of the gateway: a bad argument, no staging directory, a timer, a broken connection,
\* the end of the MCP server.
Outcome == {"none", "accepted", "busy", "completed", "refused", "failed"}
Key(c) == Args[c].key
Session(c) == Args[c].session
NamesIn(files) == {files[i].name : i \in DOMAIN files}
Launched == {c \in Call : launched[c] # NotLaunched}

TypeOK ==
  /\ staged \in [Call -> SUBSET FileName]
  /\ copying \in Copies \cup {NoCopy}
  /\ workspace \in [Path -> Content]
  /\ unflushed \subseteq Path
  /\ tool \in [Call -> {"idle", "staging", "calling", "cleaning", "returned"}]
  /\ outcome \in [Call -> Outcome]
  /\ request \in [Call -> {"none", "sent", "taken"}]
  /\ answer \in [Call -> Outcome]
  /\ slot \in [Call -> {"none", "copying", "running", "cancelling", "completed"}]
  /\ launched \in [Call -> {NotLaunched} \cup SUBSET FileName]
  /\ ranHere \subseteq Call
  /\ told \in [Call -> {"nothing", "busy", "cancelling", "completed", "unknown"}]
  /\ restarts \in 0 .. MaxRestarts

Init ==
  /\ TransferInit
  /\ tool = [c \in Call |-> "idle"]
  /\ outcome = [c \in Call |-> "none"]
  /\ request = [c \in Call |-> "none"]
  /\ answer = [c \in Call |-> "none"]
  /\ slot = [c \in Call |-> "none"]
  /\ launched = [c \in Call |-> NotLaunched]
  /\ ranHere = {}
  /\ told = [c \in Call |-> "nothing"]
  /\ restarts = 0

----
(* The MCP server *)

\* The limits of file-utils.ts; names and directories that leave the workspace are refused there
\* and by the gateway, and do not occur below.
ValidFiles(files) ==
  /\ Len(files) <= MaxFiles
  /\ Cardinality(NamesIn(files)) = Len(files)
  /\ \A i \in DOMAIN files : files[i].size \in 1 .. MaxFileBytes
  /\ MapThenSumSet(LAMBDA i : files[i].size, DOMAIN files) <= MaxTotalBytes

Return(c, what) ==
  /\ tool' = [tool EXCEPT ![c] = "returned"]
  /\ outcome' = [outcome EXCEPT ![c] = what]

Comes(c) == tool[c] = "idle" /\ Cardinality({d \in Call : tool[d] # "idle"}) < MaxCalls

Reject(c) ==
  /\ Comes(c)
  /\ \E files \in Malformed : ~ValidFiles(files)
  /\ Return(c, "failed")
  /\ UNCHANGED <<transferVars, request, answer, gatewayVars>>

Begin(c) ==
  /\ Comes(c)
  /\ ValidFiles(FilesOf(c))
  /\ tool' = [tool EXCEPT ![c] = "staging"]
  /\ UNCHANGED <<transferVars, outcome, request, answer, gatewayVars>>

\* decodeFilesToTemp
NextToStage(c) == FilesOf(c)[Cardinality(staged[c]) + 1].name
AllStaged(c) == Cardinality(staged[c]) = Len(FilesOf(c))

StageFile(c) ==
  /\ tool[c] = "staging"
  /\ ~AllStaged(c)
  /\ staged' = [staged EXCEPT ![c] = @ \cup {NextToStage(c)}]
  /\ UNCHANGED <<copying, workspace, unflushed, callVars, gatewayVars>>

StagingFails(c) ==
  /\ tool[c] = "staging"
  /\ ~AllStaged(c)
  /\ staged' = [staged EXCEPT ![c] = {}]
  /\ Return(c, "failed")
  /\ UNCHANGED <<copying, workspace, unflushed, request, answer, gatewayVars>>

Send(c) ==
  /\ tool[c] = "staging"
  /\ AllStaged(c)
  /\ tool' = [tool EXCEPT ![c] = "calling"]
  /\ request' = [request EXCEPT ![c] = "sent"]
  /\ UNCHANGED <<transferVars, outcome, answer, gatewayVars>>

CleanUp(c, what) ==
  /\ tool' = [tool EXCEPT ![c] = "cleaning"]
  /\ outcome' = [outcome EXCEPT ![c] = what]

AnswerArrives(c) ==
  /\ tool[c] = "calling"
  /\ answer[c] # "none"
  /\ CleanUp(c, answer[c])
  /\ answer' = [answer EXCEPT ![c] = "none"]
  /\ UNCHANGED <<transferVars, request, gatewayVars>>

\* The timer of the gateway client, a broken connection or an answer that ends too early.  The
\* gateway is not told.
Abort(c) ==
  /\ tool[c] = "calling"
  /\ CleanUp(c, "failed")
  /\ answer' = [answer EXCEPT ![c] = "none"]
  /\ UNCHANGED <<transferVars, request, gatewayVars>>

\* cleanupTempDir removes the files one by one, whatever the gateway does with them meanwhile.
RemoveStaged(c) ==
  /\ tool[c] = "cleaning"
  /\ \E name \in staged[c] : staged' = [staged EXCEPT ![c] = @ \ {name}]
  /\ UNCHANGED <<copying, workspace, unflushed, callVars, gatewayVars>>

\* Cleaning up is best effort.
Finish(c) ==
  /\ tool[c] = "cleaning"
  /\ Return(c, outcome[c])
  /\ UNCHANGED <<transferVars, request, answer, gatewayVars>>

Tool(c) ==
  \/ Reject(c) \/ Begin(c) \/ StageFile(c) \/ StagingFails(c) \/ Send(c)
  \/ AnswerArrives(c) \/ Abort(c) \/ RemoveStaged(c) \/ Finish(c)

----
(* The gateway: one handler at a time, from its request to its answer *)

Idle == copying = NoCopy

Twins(c) == {d \in Call \ {c} : Key(c) # NoKey /\ Key(d) = Key(c)}
SessionMates(c) == {d \in Call \ {c} : Session(c) # NoSession /\ Session(d) = Session(c)}
Active(d) == slot[d] \in {"running", "cancelling"}
ActiveTwins(c) == {d \in Twins(c) : Active(d)}
FinishedTwins(c) == {d \in Twins(c) : slot[d] = "completed"}

\* Nobody reads the answer to a call that has given up.
Answers(c, what) == answer' = IF tool[c] = "calling" THEN [answer EXCEPT ![c] = what] ELSE answer

Takes(c) ==
  /\ Idle
  /\ request[c] = "sent"
  /\ request' = [request EXCEPT ![c] = "taken"]

\* The key comes before anything is copied.
AnswerTwin(c) ==
  /\ Takes(c)
  /\ \/ ActiveTwins(c) # {} /\ Answers(c, "busy")
     \/ ActiveTwins(c) = {} /\ FinishedTwins(c) # {} /\ Answers(c, "completed")
  /\ UNCHANGED <<transferVars, tool, outcome, gatewayVars>>

\* The body, settings, authority, session or directory are refused, before the key is looked at.
RefuseRequest(c) ==
  /\ Takes(c)
  /\ Answers(c, "refused")
  /\ UNCHANGED <<transferVars, tool, outcome, gatewayVars>>

NewWorkUnlessActive(c) == ActiveTwins(c) = {}
NewWork(c) == ActiveTwins(c) \cup FinishedTwins(c) = {}

\* Another run has the session.  The tool says of it what it says of an active twin.
SessionBusy(c) == \E d \in SessionMates(c) : Active(d)

RefuseBusySession(c) ==
  /\ Takes(c)
  /\ NewWork(c)
  /\ SessionBusy(c)
  /\ Answers(c, "busy")
  /\ UNCHANGED <<transferVars, tool, outcome, gatewayVars>>

TakeSlot(c) ==
  /\ Takes(c)
  /\ NewWork(c)
  /\ ~SessionBusy(c)
  /\ slot' = [slot EXCEPT ![c] = "copying"]
  /\ StartCopy(c)
  /\ UNCHANGED <<staged, workspace, unflushed, tool, outcome, launched, ranHere, told, restarts>>

AcquireAnswersFirst(c) == TakeSlot(c) /\ Answers(c, "accepted")
Acquire(c) == TakeSlot(c) /\ UNCHANGED answer

CopyStep == Copy /\ UNCHANGED <<callVars, gatewayVars>>

FileTransferError ==
  /\ FailCopy
  /\ slot' = [slot EXCEPT ![copying.call] = "none"]
  /\ Answers(copying.call, "refused")
  /\ UNCHANGED <<tool, outcome, request, launched, ranHere, told, restarts>>

Launch ==
  /\ AllCopied
  /\ slot' = [slot EXCEPT ![copying.call] = "running"]
  /\ launched' = [launched EXCEPT ![copying.call] = copying.placed]
  /\ ranHere' = ranHere \cup {copying.call}
  /\ Answers(copying.call, "accepted")
  /\ EndCopy
  /\ UNCHANGED <<staged, workspace, unflushed, tool, outcome, request, told, restarts>>

Settle(c) ==
  /\ Idle
  /\ Active(c)
  /\ slot' = [slot EXCEPT ![c] = "completed"]
  /\ UNCHANGED <<transferVars, callVars, launched, ranHere, told, restarts>>

----
(* The tools that follow a request by its identifier *)

Follows(c) == Idle /\ outcome[c] = "accepted" /\ tool[c] = "returned"

\* A cancelled request whose agent is still being stopped.
StatusForgetsCancelling(c) ==
  CASE slot[c] \in {"none", "cancelling"} -> "unknown"
    [] slot[c] = "running" -> "busy"
    [] OTHER -> slot[c]

StatusOf(c) ==
  CASE slot[c] = "none" -> "unknown"
    [] slot[c] = "running" -> "busy"
    [] OTHER -> slot[c]

\* session-status, until it has an answer that stays; session-output gives the same answers before.
Poll(c) ==
  /\ Follows(c)
  /\ told[c] \notin {"completed", "unknown"}
  /\ told' = [told EXCEPT ![c] = StatusOf(c)]
  /\ UNCHANGED <<transferVars, callVars, slot, launched, ranHere, restarts>>

\* cancel-request
Cancel(c) ==
  /\ Follows(c)
  /\ slot[c] = "running"
  /\ slot' = [slot EXCEPT ![c] = "cancelling"]
  /\ UNCHANGED <<transferVars, callVars, launched, ranHere, told, restarts>>

----
(* Restarts *)

McpStopped ==
  /\ tool' = [c \in Call |-> IF tool[c] = "idle" THEN "idle" ELSE "returned"]
  /\ outcome' = [c \in Call |-> IF tool[c] \in {"staging", "calling"} THEN "failed" ELSE outcome[c]]
  /\ answer' = [c \in Call |-> "none"]
  /\ UNCHANGED staged

\* What was running is killed with the gateway, and its table is gone.
GatewayStopped ==
  /\ restarts < MaxRestarts
  /\ restarts' = restarts + 1
  /\ slot' = [c \in Call |-> "none"]
  /\ ranHere' = {}
  /\ request' = [c \in Call |-> IF request[c] = "sent" THEN "taken" ELSE request[c]]
  /\ UNCHANGED <<launched, told>>

McpRestart ==
  /\ \E c \in Call : tool[c] \notin {"idle", "returned"}
  /\ McpStopped
  /\ UNCHANGED <<copying, workspace, unflushed, request, gatewayVars>>
GatewayRestart == GatewayStopped /\ CopyCrash /\ UNCHANGED <<staged, tool, outcome, answer>>
PowerLoss == GatewayStopped /\ McpStopped /\ CopyPowerLoss

Serve(c) == AnswerTwin(c) \/ RefuseBusySession(c) \/ Acquire(c)

Next ==
  \/ \E c \in Call : Tool(c) \/ Serve(c) \/ RefuseRequest(c) \/ Settle(c) \/ Poll(c) \/ Cancel(c)
  \/ CopyStep \/ FileTransferError \/ Launch
  \/ AgentTouches /\ UNCHANGED <<callVars, gatewayVars>>
  \/ McpRestart \/ GatewayRestart \/ PowerLoss

Spec == Init /\ [][Next]_vars

\* The gateway goes on with what it has begun, the supervisor ends every run, tools return, and
\* the user polls.
FairSpec ==
  /\ Spec
  /\ \A c \in Call : WF_vars(Settle(c)) /\ WF_vars(Poll(c)) /\ WF_vars(Finish(c))
  /\ WF_vars(CopyStep) /\ WF_vars(FileTransferError) /\ WF_vars(Launch)

----
(* Properties *)

\* An agent is started only when each of its files has been put in place (chat.js:203-246), though
\* the staging directory can vanish under the copy when the MCP server has given up.
LaunchedWithItsFiles ==
  \A c \in Launched : launched[c] = NamesIn(FilesOf(c))

\* What an agent or another request has put under a path is replaced only by a file that may
\* overwrite (file-transfer.js:155-171), also when both appear at once.
KeepsWhatIsThere ==
  [][\A p \in Path :
       workspace[p] # Absent /\ workspace'[p] # workspace[p] /\ workspace'[p] \in Call =>
         \E i \in DOMAIN FilesOf(workspace'[p]) :
           LET file == FilesOf(workspace'[p])[i] IN <<file.dir, file.name>> = p /\ file.overwrite]_workspace

\* No destination ever holds a part of a file, whatever the copy was doing when the process ended
\* or the power went (file-transfer.js:145-168).
FilesAreWhole == \A p \in Path : workspace[p] # Partial

\* A retry under a key starts no agent and puts no file into the workspace when a run of that key was
\* started since the gateway was last started, however that run went on: the agent may still be at
\* work on the files, or the user have gone on from what it did (chat.js:144-182 before 184 and 203).
\* After a restart of the gateway the key is forgotten and a retry runs again.
RetryStartsNothing ==
  [][\A c \in Call : Twins(c) \cap ranHere # {} =>
       /\ c \in Launched' => c \in Launched
       /\ \A p \in Path : workspace'[p] = c => workspace[p] = c]_vars

\* What the tool returns is so: an accepted request has been started; one that the gateway refused,
\* with a failed copy too, never will be; one called busy has a run of its key or of its session to
\* wait for, and one called completed a run of its key (chat.js:144-219, send-chat.ts:176-250).
AnswersAreTrue ==
  \A c \in Call :
    /\ outcome[c] = "accepted" => c \in Launched
    /\ outcome[c] = "refused" => c \notin Launched
    /\ outcome[c] = "busy" => (Twins(c) \cup SessionMates(c)) \cap Launched # {}
    /\ outcome[c] = "completed" => Twins(c) \cap Launched # {}

\* A user who polls an accepted request hears of its end, cancelled or not; only a gateway that was
\* restarted may say that it does not know the request.
EndIsTold ==
  \A c \in Call :
    (outcome[c] = "accepted" /\ tool[c] = "returned")
      ~> (told[c] = "completed" \/ (told[c] = "unknown" /\ restarts > 0))
====
