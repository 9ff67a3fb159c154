---- MODULE SendChat_proofs ----
(***************************************************************************)
(* Theorems about SendChat and FileTransfer, for any number of calls, any  *)
(* files and keys, and any number of restarts.                             *)
(***************************************************************************)
EXTENDS SendChat, FiniteSetTheorems, TLAPS

Done(c, n) == {FilesOf(c)[i].name : i \in 1 .. n}

\* The copy is at one of the files, or past the last; those before it are in place.
CopyInOrder ==
  copying # NoCopy =>
    /\ copying \in Copies
    /\ copying.index <= Len(FilesOf(copying.call)) + 1
    /\ copying.step # "open" => copying.index <= Len(FilesOf(copying.call))
    /\ copying.placed = Done(copying.call, IF copying.step = "placed" THEN copying.index ELSE copying.index - 1)
    /\ copying.step = "flushed" => copying.flushed

\* What is in the workspace was flushed before it got there.
WorkspaceIsFlushed == unflushed = {}

\* A call stages the names of its files, which are valid.
StagesItsFiles ==
  \A c \in Call :
    /\ staged[c] \subseteq NamesIn(FilesOf(c))
    /\ tool[c] = "staging" => ValidFiles(FilesOf(c))

\* The gateway copies for a request it has taken, whose key nobody has worked for.
CopiesNewWork ==
  /\ copying # NoCopy =>
       request[copying.call] = "taken" /\ copying.call \notin Launched /\ NewWork(copying.call)
  /\ \A c \in Call : slot[c] = "copying" => copying # NoCopy /\ copying.call = c

\* A request is sent once, when its files are staged.
SentOnce == \A c \in Call : tool[c] \in {"idle", "staging"} => request[c] = "none"

LaunchedWereTaken == \A c \in Launched : request[c] = "taken"

SlotsAreLaunched ==
  \A c \in Call : slot[c] \in {"running", "cancelling", "completed"} => c \in Launched

\* What was launched since the gateway was last started has kept its slot.
RanHereHoldsSlots ==
  \A c \in ranHere : c \in Launched /\ slot[c] \in {"running", "cancelling", "completed"}

\* A call that was not launched, and never will be: its request is not on the way.
Refused(c) ==
  /\ c \notin Launched
  /\ request[c] # "sent"
  /\ copying # NoCopy => copying.call # c

TrueOf(c, what) ==
  /\ what = "accepted" => c \in Launched
  /\ what = "refused" => Refused(c)
  /\ what = "busy" => (Twins(c) \cup SessionMates(c)) \cap Launched # {}
  /\ what = "completed" => Twins(c) \cap Launched # {}

OutcomesHold ==
  \A c \in Call :
    /\ TrueOf(c, outcome[c]) /\ TrueOf(c, answer[c])
    /\ outcome[c] # "none" => tool[c] \in {"cleaning", "returned"}
    /\ answer[c] # "none" => tool[c] = "calling"

IInv ==
  /\ TypeOK
  /\ CopyInOrder /\ WorkspaceIsFlushed /\ StagesItsFiles
  /\ CopiesNewWork /\ SentOnce /\ LaunchedWereTaken /\ SlotsAreLaunched
  /\ RanHereHoldsSlots /\ OutcomesHold
  /\ LaunchedWithItsFiles /\ FilesAreWhole

----
\* The names of the files of a call are names.
LEMMA NamesOfFiles ==
  ASSUME NEW c \in Call
  PROVE  /\ NamesIn(FilesOf(c)) \subseteq FileName
         /\ \A i \in 1 .. Len(FilesOf(c)) :
              /\ FilesOf(c)[i].name \in NamesIn(FilesOf(c))
              /\ <<FilesOf(c)[i].dir, FilesOf(c)[i].name>> \in Path
<1>1. ASSUME NEW i \in DOMAIN FilesOf(c) PROVE FilesOf(c)[i].name \in FileName
  <2> DEFINE p == <<FilesOf(c)[i].dir, FilesOf(c)[i].name>>
  <2>1. p \in Path /\ p[2] = FilesOf(c)[i].name
    BY DEF Path
  <2>2. QED
    BY <2>1 DEF FileName
<1>2. NamesIn(FilesOf(c)) \subseteq FileName
  BY <1>1 DEF NamesIn
<1>3. ASSUME NEW i \in 1 .. Len(FilesOf(c))
      PROVE  /\ FilesOf(c)[i].name \in NamesIn(FilesOf(c))
             /\ <<FilesOf(c)[i].dir, FilesOf(c)[i].name>> \in Path
  BY FilesAssumption DEF NamesIn, Path
<1>4. QED
  BY <1>2, <1>3

\* There are as many files as there are indexes, or fewer.
LEMMA NamesAreFinite == ASSUME NEW c \in Call PROVE IsFiniteSet(NamesIn(FilesOf(c)))
<1>1. IsFiniteSet(1 .. Len(FilesOf(c)))
  BY FilesAssumption, FS_Interval
<1> DEFINE f == [i \in 1 .. Len(FilesOf(c)) |-> FilesOf(c)[i].name]
<1>2. f \in Surjection(1 .. Len(FilesOf(c)), NamesIn(FilesOf(c)))
  BY FilesAssumption DEF Surjection, NamesIn
<1>3. QED
  BY <1>1, <1>2, FS_Surjection

\* The set of the first files grows by one.
LEMMA DoneGrows ==
  ASSUME NEW c \in Call, NEW n \in Nat
  PROVE  /\ Done(c, 0) = {}
         /\ Done(c, n + 1) = Done(c, n) \cup {FilesOf(c)[n + 1].name}
<1>1. 1 .. (n + 1) = (1 .. n) \cup {n + 1} /\ 1 .. 0 = {}
  OBVIOUS
<1>2. QED
  BY <1>1 DEF Done

----
(* The copy *)

TransferInv == CopyInOrder /\ WorkspaceIsFlushed /\ FilesAreWhole /\ workspace \in [Path -> Content]

\* Where the copy is when it handles a file.
LEMMA CopyIsAtFile ==
  ASSUME CopyInOrder, copying # NoCopy, copying.index <= Len(FilesOf(copying.call))
  PROVE  /\ copying.call \in Call /\ copying.index \in DOMAIN FilesOf(copying.call)
         /\ Current.name \in FileName /\ Target \in Path
  BY NamesOfFiles, FilesAssumption DEF CopyInOrder, Copies, Current, Target

\* A file that was flushed takes its place.
LEMMA PutInPlaceKeeps ==
  ASSUME TransferInv, copying # NoCopy, copying.step = "flushed", PutInPlace
  PROVE  (WorkspaceIsFlushed /\ FilesAreWhole)' /\ workspace' \in [Path -> Content]
<1>1. copying.flushed /\ copying.call \in Call /\ Target \in Path
  BY CopyIsAtFile DEF TransferInv, CopyInOrder
<1>2. QED
  BY <1>1, ContentAssumption DEF PutInPlace, TransferInv, WorkspaceIsFlushed, FilesAreWhole, Content

\* The copy goes on to the next file.
LEMMA NextFile ==
  ASSUME NEW r \in Copies
  PROVE  /\ AfterFile(r) \in Copies /\ AfterFile(r).call = r.call /\ AfterFile(r).index = r.index + 1
         /\ AfterFile(r).step = "open" /\ AfterFile(r).placed = r.placed
  BY DEF AfterFile, Copies

\* The copy goes on in the order of the files.
LEMMA CopyKeeps ==
  ASSUME TransferInv, Copy
  PROVE  /\ TransferInv'
         /\ copying # NoCopy /\ copying' \in Copies /\ copying'.call = copying.call
<1>1. /\ copying # NoCopy /\ copying \in Copies
      /\ copying.index <= Len(FilesOf(copying.call))
      /\ Current.name \in FileName
  <2>1. copying # NoCopy
    BY DEF Copy, CopySource, Flush, Rename, Link, Unlink, At
  <2>2. copying \in Copies /\ copying.index <= Len(FilesOf(copying.call))
    BY <2>1 DEF TransferInv, CopyInOrder, Copy, CopySource, Flush, Rename, Link, Unlink, At, HasNext
  <2>3. QED
    BY <2>1, <2>2, CopyIsAtFile DEF TransferInv
<1>2. CASE CopySource \/ Flush
  <2>1. /\ copying' \in Copies /\ copying'.call = copying.call /\ copying'.index = copying.index
        /\ copying'.placed = copying.placed /\ copying.step \in {"open", "copied"}
        /\ copying'.step \in {"copied", "flushed"}
        /\ copying'.step = "flushed" => copying'.flushed
    BY <1>1, <1>2 DEF CopySource, Flush, At, Copies
  <2>2. UNCHANGED <<workspace, unflushed>>
    BY <1>2 DEF CopySource, Flush
  <2>3. QED
    BY <1>1, <2>1, <2>2 DEF TransferInv, CopyInOrder, WorkspaceIsFlushed, FilesAreWhole
<1>3. CASE Rename \/ Link
  <2>1. copying.step = "flushed" /\ PutInPlace
    BY <1>3 DEF Rename, Link, At
  <2>2. (WorkspaceIsFlushed /\ FilesAreWhole)' /\ workspace' \in [Path -> Content]
    BY <1>1, <2>1, PutInPlaceKeeps
  <2>3. copying.placed = Done(copying.call, copying.index - 1)
    BY <1>1, <2>1 DEF TransferInv, CopyInOrder
  <2>4. copying.placed \cup {Current.name} = Done(copying.call, copying.index)
    <3> DEFINE n == copying.index - 1
    <3>1. n \in Nat /\ n + 1 = copying.index /\ copying.call \in Call
      BY <1>1 DEF Copies
    <3>2. Done(copying.call, n + 1) = Done(copying.call, n) \cup {FilesOf(copying.call)[n + 1].name}
      BY <3>1, DoneGrows
    <3>3. QED
      BY <2>3, <3>1, <3>2 DEF Current
  <2>5. Placed \in Copies /\ Placed.call = copying.call /\ Placed.index = copying.index
        /\ Placed.step = "placed" /\ Placed.placed = Done(copying.call, copying.index)
    BY <1>1, <2>4 DEF Placed, Copies
  <2>6. CASE Link
    BY <1>1, <2>2, <2>5, <2>6 DEF Link, TransferInv, CopyInOrder
  <2>7. CASE Rename
    <3> DEFINE after == AfterFile(Placed)
    <3>1. /\ after \in Copies /\ after.call = copying.call /\ after.index = copying.index + 1
          /\ after.step = "open" /\ after.placed = Done(copying.call, copying.index)
      BY <1>1, <2>5, NextFile
    <3>2. copying' = after
      BY <2>7 DEF Rename
    <3> HIDE DEF after
    <3>3. QED
      BY <1>1, <2>2, <3>1, <3>2 DEF TransferInv, CopyInOrder, Copies
  <2>8. QED
    BY <1>3, <2>6, <2>7
<1>4. CASE Unlink
  <2>1. copying.step = "placed" /\ copying.placed = Done(copying.call, copying.index)
    BY <1>1, <1>4 DEF Unlink, At, TransferInv, CopyInOrder
  <2> DEFINE after == AfterFile(copying)
  <2>2. /\ after \in Copies /\ after.call = copying.call /\ after.index = copying.index + 1
        /\ after.step = "open" /\ after.placed = copying.placed
    BY <1>1, NextFile
  <2>3. copying' = after /\ UNCHANGED <<workspace, unflushed>>
    BY <1>4 DEF Unlink
  <2> HIDE DEF after
  <2>4. CopyInOrder'
    BY <1>1, <2>1, <2>2, <2>3 DEF CopyInOrder, Copies
  <2>5. QED
    BY <1>1, <2>2, <2>3, <2>4 DEF TransferInv, WorkspaceIsFlushed, FilesAreWhole
<1>5. QED
  BY <1>2, <1>3, <1>4 DEF Copy

\* The copy begins at the first file.
LEMMA StartCopyKeeps ==
  ASSUME TransferInv, NEW c \in Call, StartCopy(c), UNCHANGED <<workspace, unflushed>>
  PROVE  TransferInv' /\ copying'.call = c
<1> DEFINE start == [call |-> c, index |-> 1, step |-> "open", flushed |-> FALSE, placed |-> {}]
<1>1. /\ start \in Copies /\ start.call = c /\ start.index = 1 /\ start.step = "open" /\ start.placed = {}
  BY DEF Copies
<1>2. copying' = start
  BY DEF StartCopy
<1> HIDE DEF start
<1>3. Done(c, 0) = {} /\ Len(FilesOf(c)) \in Nat
  BY DoneGrows, FilesAssumption
<1>4. CopyInOrder'
  <2>1. copying'.index - 1 = 0 /\ copying'.index <= Len(FilesOf(c)) + 1
    BY <1>1, <1>2, <1>3
  <2>2. QED
    BY <1>1, <1>2, <1>3, <2>1 DEF CopyInOrder
<1>5. QED
  BY <1>1, <1>2, <1>4 DEF TransferInv, WorkspaceIsFlushed, FilesAreWhole

\* The copy ends, with all files in place, with an error, or with the gateway.
LEMMA EndCopyKeeps ==
  ASSUME TransferInv, EndCopy,
         UNCHANGED <<workspace, unflushed>> \/ CopyPowerLoss
  PROVE  TransferInv'
<1>1. CopyInOrder'
  BY DEF EndCopy, CopyInOrder
<1>2. CASE UNCHANGED <<workspace, unflushed>>
  BY <1>1, <1>2 DEF TransferInv, WorkspaceIsFlushed, FilesAreWhole
<1>3. CASE CopyPowerLoss
  <2>1. PICK gone \in SUBSET Path, torn \in SUBSET unflushed :
          workspace' = [p \in Path |-> IF p \in gone THEN Absent ELSE IF p \in torn THEN Partial ELSE workspace[p]]
    BY <1>3 DEF CopyPowerLoss
  <2>2. torn = {} /\ unflushed' = {}
    BY <1>3 DEF CopyPowerLoss, TransferInv, WorkspaceIsFlushed
  <2>3. QED
    BY <1>1, <2>1, <2>2, ContentAssumption DEF TransferInv, WorkspaceIsFlushed, FilesAreWhole, Content
<1>4. QED
  BY <1>2, <1>3

\* Agents leave nothing in part.
LEMMA AgentKeeps ==
  ASSUME TransferInv, AgentTouches
  PROVE  TransferInv'
<1>1. PICK p \in Path, content \in {Absent, Agent} :
        /\ workspace' = [workspace EXCEPT ![p] = content]
        /\ unflushed' = IF content = Absent THEN unflushed \ {p} ELSE unflushed
  BY DEF AgentTouches
<1>2. UNCHANGED copying
  BY DEF AgentTouches
<1>3. QED
  BY <1>1, <1>2, ContentAssumption DEF TransferInv, CopyInOrder, WorkspaceIsFlushed, FilesAreWhole, Content

LEMMA TransferUnchanged ==
  ASSUME TransferInv, UNCHANGED <<copying, workspace, unflushed>>
  PROVE  TransferInv'
  BY DEF TransferInv, CopyInOrder, WorkspaceIsFlushed, FilesAreWhole

----
(* Types and staging *)

\* The steps of the MCP server keep the types.
LEMMA ToolTypes ==
  ASSUME TypeOK, StagesItsFiles, NEW c \in Call, Tool(c)
  PROVE  TypeOK' /\ StagesItsFiles'
<1>1. CASE StageFile(c)
  <2> DEFINE n == Cardinality(staged[c])
  <2>1. /\ ValidFiles(FilesOf(c)) /\ staged[c] \subseteq NamesIn(FilesOf(c)) /\ n # Len(FilesOf(c))
        /\ staged' = [staged EXCEPT ![c] = @ \cup {NextToStage(c)}]
        /\ UNCHANGED <<workspace, unflushed, tool, outcome, request, answer, slot, launched, ranHere, told, restarts>>
    BY <1>1 DEF StageFile, AllStaged, StagesItsFiles, callVars, gatewayVars
  <2>2. n \in Nat /\ n <= Cardinality(NamesIn(FilesOf(c)))
    BY <2>1, NamesAreFinite, FS_Subset, FS_CardinalityType
  <2>3. Cardinality(NamesIn(FilesOf(c))) = Len(FilesOf(c))
    BY <2>1 DEF ValidFiles
  <2>4. n + 1 \in 1 .. Len(FilesOf(c))
    BY <2>1, <2>2, <2>3, FilesAssumption
  <2>5. NextToStage(c) \in NamesIn(FilesOf(c)) /\ NamesIn(FilesOf(c)) \subseteq FileName
    BY <2>4, NamesOfFiles DEF NextToStage
  <2>6. QED
    BY <1>1, <2>1, <2>5 DEF StageFile, TypeOK, StagesItsFiles
<1>2. CASE StagingFails(c)
  BY <1>2 DEF StagingFails, Return, gatewayVars, TypeOK, StagesItsFiles, Outcome
<1>3. CASE RemoveStaged(c)
  BY <1>3 DEF RemoveStaged, callVars, gatewayVars, TypeOK, StagesItsFiles
<1>4. CASE Reject(c) \/ Finish(c)
  BY <1>4 DEF Reject, Comes, Finish, Return, transferVars, gatewayVars, TypeOK, StagesItsFiles, Outcome
<1>5. CASE Begin(c)
  BY <1>5 DEF Begin, Comes, transferVars, gatewayVars, TypeOK, StagesItsFiles
<1>6. CASE Send(c)
  BY <1>6 DEF Send, transferVars, gatewayVars, TypeOK, StagesItsFiles
<1>7. CASE AnswerArrives(c) \/ Abort(c)
  BY <1>7 DEF AnswerArrives, Abort, CleanUp, transferVars, gatewayVars, TypeOK, StagesItsFiles, Outcome
<1>8. QED
  BY <1>1, <1>2, <1>3, <1>4, <1>5, <1>6, <1>7 DEF Tool

\* An answer of the gateway is one of the outcomes.
LEMMA AnswerTypes ==
  ASSUME TypeOK, NEW c \in Call, NEW what \in Outcome, Answers(c, what)
  PROVE  answer' \in [Call -> Outcome]
  BY DEF TypeOK, Answers

\* The steps of the gateway for one request keep the types.
LEMMA ServeTypes ==
  ASSUME TypeOK, StagesItsFiles, CopiesNewWork, NEW c \in Call,
         Serve(c) \/ RefuseRequest(c) \/ Settle(c) \/ Poll(c) \/ Cancel(c)
  PROVE  TypeOK' /\ StagesItsFiles'
<1>1. CASE AnswerTwin(c) \/ RefuseBusySession(c) \/ RefuseRequest(c)
  <2>1. PICK what \in Outcome : Answers(c, what)
    BY <1>1 DEF AnswerTwin, RefuseBusySession, RefuseRequest, Outcome
  <2>2. answer' \in [Call -> Outcome]
    BY <2>1, AnswerTypes
  <2>3. QED
    BY <1>1, <2>2 DEF AnswerTwin, RefuseBusySession, RefuseRequest, Takes, transferVars, gatewayVars, TypeOK, StagesItsFiles
<1>2. CASE Acquire(c)
  <2>1. copying' \in Copies
    BY <1>2 DEF Acquire, TakeSlot, StartCopy, Copies
  <2>2. QED
    BY <1>2, <2>1 DEF Acquire, TakeSlot, Takes, TypeOK, StagesItsFiles
<1>3. CASE Settle(c) \/ Cancel(c)
  BY <1>3 DEF Settle, Cancel, Active, transferVars, callVars, TypeOK, StagesItsFiles
<1>4. CASE Poll(c)
  <2>1. StatusOf(c) \in {"busy", "cancelling", "completed", "unknown"}
    BY <1>4 DEF TypeOK, CopiesNewWork, StatusOf, Poll, Follows, Idle
  <2>2. QED
    BY <1>4, <2>1 DEF Poll, transferVars, callVars, TypeOK, StagesItsFiles
<1>5. QED
  BY <1>1, <1>2, <1>3, <1>4 DEF Serve

\* Launching, and the failure of a copy, keep the types.
LEMMA EndTypes ==
  ASSUME TypeOK, StagesItsFiles, TransferInv, FileTransferError \/ Launch
  PROVE  TypeOK' /\ StagesItsFiles'
<1> DEFINE c == copying.call
<1>1. copying # NoCopy
  BY DEF FileTransferError, Launch, FailCopy, AllCopied, HasNext, At
<1>2. c \in Call /\ copying.placed \in SUBSET FileName
  BY <1>1 DEF TypeOK, Copies
<1>3. PICK what \in Outcome : Answers(c, what)
  BY DEF FileTransferError, Launch, Outcome
<1>4. answer' \in [Call -> Outcome]
  BY <1>2, <1>3, AnswerTypes
<1>5. CASE FileTransferError
  BY <1>2, <1>4, <1>5 DEF FileTransferError, FailCopy, EndCopy, TypeOK, StagesItsFiles
<1>6. CASE Launch
  BY <1>2, <1>4, <1>6 DEF Launch, EndCopy, TypeOK, StagesItsFiles
<1>7. QED
  BY <1>5, <1>6

\* The steps of the copy and of the agents keep the types.
LEMMA FileTypes ==
  ASSUME TypeOK, StagesItsFiles, TransferInv,
         CopyStep \/ (AgentTouches /\ UNCHANGED <<callVars, gatewayVars>>)
  PROVE  TypeOK' /\ StagesItsFiles'
<1>1. /\ TransferInv' /\ UNCHANGED <<staged, tool, outcome, request, answer, slot, launched, ranHere, told, restarts>>
      /\ copying' \in Copies \cup {NoCopy}
  <2>1. CASE CopyStep
    <3>1. TransferInv'
      BY <2>1, CopyKeeps DEF CopyStep
    <3>2. UNCHANGED staged
      BY <2>1 DEF CopyStep, Copy, CopySource, Flush, Rename, Link, Unlink
    <3>3. QED
      BY <2>1, <3>1, <3>2 DEF CopyStep, callVars, gatewayVars, TransferInv, CopyInOrder
  <2>2. CASE AgentTouches /\ UNCHANGED <<callVars, gatewayVars>>
    BY <2>2, AgentKeeps DEF AgentTouches, callVars, gatewayVars, TypeOK
  <2>3. QED
    BY <2>1, <2>2
<1>2. workspace' \in [Path -> Content] /\ unflushed' = {}
  BY <1>1 DEF TransferInv, WorkspaceIsFlushed
<1>3. QED
  BY <1>1, <1>2 DEF TypeOK, StagesItsFiles

\* Restarts keep the types.
LEMMA RestartTypes ==
  ASSUME TypeOK, StagesItsFiles, TransferInv, McpRestart \/ GatewayRestart \/ PowerLoss
  PROVE  TypeOK' /\ StagesItsFiles' /\ TransferInv'
<1>1. CASE McpRestart
  BY <1>1, TransferUnchanged DEF McpRestart, McpStopped, gatewayVars, TypeOK, StagesItsFiles, Outcome
<1>2. ASSUME GatewayStopped
      PROVE  /\ slot' \in [Call -> {"none", "copying", "running", "cancelling", "completed"}]
             /\ request' \in [Call -> {"none", "sent", "taken"}]
             /\ restarts' \in 0 .. MaxRestarts /\ ranHere' = {}
             /\ UNCHANGED <<launched, told>>
  BY <1>2, NamesAssumption DEF GatewayStopped, TypeOK
<1>3. CASE GatewayRestart
  <2>1. TransferInv'
    BY <1>3, EndCopyKeeps DEF GatewayRestart, CopyCrash
  <2>2. QED
    BY <1>2, <1>3, <2>1 DEF GatewayRestart, CopyCrash, EndCopy, TypeOK, StagesItsFiles
<1>4. CASE PowerLoss
  <2>1. TransferInv'
    BY <1>4, EndCopyKeeps DEF PowerLoss, CopyPowerLoss
  <2>2. copying' = NoCopy /\ unflushed' = {}
    BY <1>4 DEF PowerLoss, CopyPowerLoss, EndCopy
  <2>3. /\ tool' \in [Call -> {"idle", "staging", "calling", "cleaning", "returned"}]
        /\ outcome' \in [Call -> Outcome] /\ answer' \in [Call -> Outcome] /\ UNCHANGED staged
        /\ \A c \in Call : tool'[c] # "staging"
    BY <1>4 DEF PowerLoss, McpStopped, TypeOK, Outcome
  <2>4. QED
    BY <1>2, <1>4, <2>1, <2>2, <2>3 DEF PowerLoss, TransferInv, TypeOK, StagesItsFiles
<1>5. QED
  BY <1>1, <1>3, <1>4

----
(* What the tool says *)

WorkInv ==
  /\ CopiesNewWork /\ SentOnce /\ LaunchedWereTaken /\ SlotsAreLaunched /\ RanHereHoldsSlots
  /\ LaunchedWithItsFiles

\* What was true of a call stays true, and what is said anew has to be.
LEMMA TruthIsKept ==
  ASSUME OutcomesHold, Launched \subseteq Launched',
         \A c \in Call : Refused(c) => Refused(c)' \/ tool[c] = "staging",
         \A c \in Call : \A what :
           what \in {outcome'[c], answer'[c]} => what \in {outcome[c], answer[c]} \/ TrueOf(c, what)',
         \A c \in Call : /\ outcome'[c] # "none" => tool'[c] \in {"cleaning", "returned"}
                         /\ answer'[c] # "none" => tool'[c] = "calling"
  PROVE  OutcomesHold'
<1>1. ASSUME NEW c \in Call, NEW what, TrueOf(c, what), what # "none" => tool[c] # "staging"
      PROVE  TrueOf(c, what)'
  BY <1>1 DEF TrueOf, Twins, SessionMates
<1>2. ASSUME NEW c \in Call, NEW what \in {outcome[c], answer[c]} PROVE TrueOf(c, what)'
  BY <1>1, <1>2 DEF OutcomesHold
<1>3. ASSUME NEW c \in Call, NEW what, what \in {outcome'[c], answer'[c]} PROVE TrueOf(c, what)'
  BY <1>2, <1>3
<1>4. QED
  BY <1>3 DEF OutcomesHold, TrueOf

\* The gateway does nothing in a step of the MCP server.
LEMMA ToolKeeps ==
  ASSUME TypeOK, WorkInv, OutcomesHold, NEW c \in Call, Tool(c)
  PROVE  WorkInv' /\ OutcomesHold'
<1>1. /\ UNCHANGED <<copying, slot, launched, ranHere>>
      /\ \A d \in Call : request'[d] = request[d] \/ (d = c /\ Send(c) /\ request'[d] = "sent")
      /\ \A d \in Call \ {c} : tool'[d] = tool[d] /\ outcome'[d] = outcome[d] /\ answer'[d] = answer[d]
  BY DEF Tool, Reject, Begin, Comes, StageFile, StagingFails, Send, AnswerArrives, Abort, RemoveStaged,
         Finish, Return, CleanUp, transferVars, callVars, gatewayVars, TypeOK
<1>2. Send(c) => tool[c] = "staging" /\ tool'[c] = "calling" /\ request[c] = "none"
  BY DEF Send, WorkInv, SentOnce, TypeOK
<1>3. /\ tool'[c] \in {"idle", "staging"} => tool[c] \in {"idle", "staging"} /\ ~Send(c)
      /\ tool[c] \in {"idle", "staging"} => outcome[c] = "none" /\ answer[c] = "none"
  BY <1>2 DEF Tool, Reject, Begin, Comes, StageFile, StagingFails, AnswerArrives, Abort, RemoveStaged, Finish,
         Return, CleanUp, callVars, OutcomesHold, TypeOK
<1>4. /\ outcome'[c] \in {outcome[c], answer[c], "failed"}
      /\ answer'[c] \in {answer[c], "none"}
      /\ outcome'[c] # "none" => tool'[c] \in {"cleaning", "returned"}
      /\ answer'[c] # "none" => tool'[c] = "calling"
  BY <1>3 DEF Tool, Reject, Begin, Comes, StageFile, StagingFails, Send, AnswerArrives, Abort, RemoveStaged,
         Finish, Return, CleanUp, callVars, OutcomesHold, TypeOK
<1>5. Launched' = Launched
  BY <1>1 DEF Launched
<1>6. WorkInv'
  <2>1. CopiesNewWork'
    <3>1. \A d \in Call : NewWork(d)' <=> NewWork(d)
      BY <1>1 DEF NewWork, ActiveTwins, FinishedTwins, Twins, Active
    <3>2. copying # NoCopy => copying.call \in Call
      BY DEF TypeOK, Copies
    <3>3. QED
      BY <1>1, <1>2, <1>5, <3>1, <3>2 DEF WorkInv, CopiesNewWork
  <2>2. SentOnce'
    BY <1>1, <1>3 DEF WorkInv, SentOnce
  <2>3. LaunchedWereTaken'
    BY <1>1, <1>2, <1>5 DEF WorkInv, LaunchedWereTaken, Launched
  <2>4. SlotsAreLaunched' /\ RanHereHoldsSlots' /\ LaunchedWithItsFiles'
    BY <1>1, <1>5 DEF WorkInv, SlotsAreLaunched, RanHereHoldsSlots, LaunchedWithItsFiles
  <2>5. QED
    BY <2>1, <2>2, <2>3, <2>4 DEF WorkInv
<1>7. \A d \in Call : Refused(d) => Refused(d)' \/ tool[d] = "staging"
  BY <1>1, <1>2, <1>5 DEF Refused
<1>8. ASSUME NEW d \in Call, NEW what, what \in {outcome'[d], answer'[d]}
      PROVE  what \in {outcome[d], answer[d]} \/ TrueOf(d, what)'
  BY <1>1, <1>4, <1>8 DEF TrueOf
<1>9. ASSUME NEW d \in Call
      PROVE  /\ outcome'[d] # "none" => tool'[d] \in {"cleaning", "returned"}
             /\ answer'[d] # "none" => tool'[d] = "calling"
  BY <1>1, <1>4, <1>9 DEF OutcomesHold
<1>10. QED
  BY <1>5, <1>6, <1>7, <1>8, <1>9, TruthIsKept

\* The answer of the gateway is all that changes in what is said.
LEMMA AnswerKeeps ==
  ASSUME TypeOK, OutcomesHold, Launched \subseteq Launched',
         \A c \in Call : Refused(c) => Refused(c)',
         NEW c \in Call, NEW what, answer' = answer \/ Answers(c, what), TrueOf(c, what)',
         UNCHANGED <<tool, outcome>>
  PROVE  OutcomesHold'
<1>1. \A d \in Call : answer'[d] = answer[d] \/ (d = c /\ answer'[d] = what /\ tool[d] = "calling")
  BY DEF Answers, TypeOK
<1>2. ASSUME NEW d \in Call, NEW said, said \in {outcome'[d], answer'[d]}
      PROVE  said \in {outcome[d], answer[d]} \/ TrueOf(d, said)'
  BY <1>1, <1>2
<1>3. ASSUME NEW d \in Call
      PROVE  /\ outcome'[d] # "none" => tool'[d] \in {"cleaning", "returned"}
             /\ answer'[d] # "none" => tool'[d] = "calling"
  BY <1>1, <1>3 DEF OutcomesHold
<1>4. QED
  BY <1>2, <1>3, TruthIsKept

\* A request the gateway takes up is answered, or its files are copied.
LEMMA TakeKeeps ==
  ASSUME TypeOK, WorkInv, OutcomesHold, NEW c \in Call, Serve(c) \/ RefuseRequest(c)
  PROVE  WorkInv' /\ OutcomesHold'
<1>1. /\ copying = NoCopy /\ request[c] = "sent" /\ request' = [request EXCEPT ![c] = "taken"]
      /\ c \notin Launched
      /\ UNCHANGED <<tool, outcome, launched, ranHere>>
  BY DEF Serve, AnswerTwin, RefuseBusySession, Acquire, TakeSlot, RefuseRequest, Takes, Idle, gatewayVars,
         WorkInv, LaunchedWereTaken
<1>2. /\ Launched' = Launched
      /\ \A d \in Call : request'[d] = IF d = c THEN "taken" ELSE request[d]
  BY <1>1 DEF Launched, TypeOK
<1>3. SentOnce' /\ LaunchedWereTaken' /\ LaunchedWithItsFiles'
  BY <1>1, <1>2 DEF WorkInv, SentOnce, LaunchedWereTaken, LaunchedWithItsFiles, Launched
<1>4. CASE AnswerTwin(c) \/ RefuseBusySession(c) \/ RefuseRequest(c)
  <2>1. UNCHANGED <<copying, slot>>
    BY <1>4 DEF AnswerTwin, RefuseBusySession, RefuseRequest, transferVars, gatewayVars
  <2>2. PICK what \in {"busy", "completed", "refused"} :
          /\ Answers(c, what)
          /\ what = "busy" => ActiveTwins(c) # {} \/ SessionBusy(c)
          /\ what = "completed" => FinishedTwins(c) # {}
    BY <1>4 DEF AnswerTwin, RefuseBusySession, RefuseRequest
  <2>3. /\ ActiveTwins(c) \cup FinishedTwins(c) \subseteq Twins(c) \cap Launched
        /\ SessionBusy(c) => SessionMates(c) \cap Launched # {}
    BY DEF ActiveTwins, FinishedTwins, Twins, SessionBusy, SessionMates, Active, WorkInv, SlotsAreLaunched
  <2>4. \A d \in Call : Refused(d) => Refused(d)'
    BY <1>2, <2>1 DEF Refused
  <2>5. TrueOf(c, what)'
    BY <1>1, <1>2, <2>1, <2>2, <2>3 DEF TrueOf, Refused, Twins, SessionMates
  <2>6. CopiesNewWork' /\ SlotsAreLaunched' /\ RanHereHoldsSlots'
    BY <1>1, <1>2, <2>1 DEF WorkInv, CopiesNewWork, SlotsAreLaunched, RanHereHoldsSlots
  <2>7. QED
    BY <1>1, <1>2, <1>3, <2>2, <2>4, <2>5, <2>6, AnswerKeeps DEF WorkInv
<1>5. CASE Acquire(c)
  <2>1. /\ slot' = [slot EXCEPT ![c] = "copying"] /\ NewWork(c) /\ UNCHANGED answer
        /\ copying' \in Copies /\ copying'.call = c
    BY <1>5 DEF Acquire, TakeSlot, StartCopy, Copies
  <2>2. copying' # NoCopy
    BY <2>1, CopyAssumption
  <2>3. NewWork(c)'
    BY <2>1 DEF NewWork, ActiveTwins, FinishedTwins, Twins, Active, TypeOK
  <2>4. CopiesNewWork'
    BY <1>1, <1>2, <2>1, <2>2, <2>3 DEF WorkInv, CopiesNewWork, TypeOK
  <2>5. SlotsAreLaunched' /\ RanHereHoldsSlots'
    BY <1>1, <1>2, <2>1 DEF WorkInv, SlotsAreLaunched, RanHereHoldsSlots, TypeOK
  <2>6. \A d \in Call : Refused(d) => Refused(d)'
    BY <1>1, <1>2, <2>1 DEF Refused
  <2>7. OutcomesHold'
    BY <1>1, <1>2, <2>1, <2>6, TruthIsKept DEF OutcomesHold
  <2>8. QED
    BY <1>3, <2>4, <2>5, <2>7 DEF WorkInv
<1>6. QED
  BY <1>4, <1>5 DEF Serve

\* The copy ends: its call is launched with all its files, or never.
LEMMA EndKeeps ==
  ASSUME TypeOK, TransferInv, WorkInv, OutcomesHold, FileTransferError \/ Launch
  PROVE  WorkInv' /\ OutcomesHold'
<1>0. PICK c \in Call : c = copying.call
  BY DEF FileTransferError, Launch, FailCopy, AllCopied, HasNext, At, TypeOK, Copies
<1>1. /\ copying # NoCopy /\ request[c] = "taken" /\ c \notin Launched
      /\ copying \in Copies
  BY <1>0 DEF FileTransferError, Launch, FailCopy, AllCopied, HasNext, At, WorkInv, CopiesNewWork, TypeOK, Copies
<1>2. copying' = NoCopy /\ UNCHANGED <<request, tool, outcome>>
  BY DEF FileTransferError, Launch, FailCopy, EndCopy
<1>3. SentOnce'
  BY <1>2 DEF WorkInv, SentOnce
<1>4. CASE FileTransferError
  <2>1. slot' = [slot EXCEPT ![c] = "none"] /\ Answers(c, "refused") /\ UNCHANGED <<launched, ranHere>>
    BY <1>0, <1>4 DEF FileTransferError
  <2>2. Launched' = Launched
    BY <2>1 DEF Launched
  <2>3. WorkInv'
    BY <1>0, <1>1, <1>2, <1>3, <2>1, <2>2 DEF WorkInv, CopiesNewWork, LaunchedWereTaken, SlotsAreLaunched,
          RanHereHoldsSlots, LaunchedWithItsFiles, TypeOK
  <2>4. \A d \in Call : Refused(d) => Refused(d)'
    BY <1>2, <2>2 DEF Refused
  <2>5. TrueOf(c, "refused")'
    BY <1>1, <1>2, <2>2 DEF TrueOf, Refused
  <2>6. QED
    BY <1>1, <1>2, <2>1, <2>2, <2>3, <2>4, <2>5, AnswerKeeps
<1>5. CASE Launch
  <2>1. /\ slot' = [slot EXCEPT ![c] = "running"] /\ Answers(c, "accepted")
        /\ launched' = [launched EXCEPT ![c] = copying.placed] /\ ranHere' = ranHere \cup {c}
        /\ copying.step = "open" /\ copying.index > Len(FilesOf(c))
    BY <1>0, <1>5 DEF Launch, AllCopied, At
  <2>2. copying.placed = NamesIn(FilesOf(c))
    <3>1. copying.index - 1 = Len(FilesOf(c)) /\ copying.placed = Done(c, copying.index - 1)
      BY <1>0, <1>1, <2>1, FilesAssumption DEF TransferInv, CopyInOrder, Copies
    <3>2. QED
      BY <1>1, <3>1, FilesAssumption DEF Done, NamesIn
  <2>3. NamesIn(FilesOf(c)) # NotLaunched
    BY <1>1, NamesAssumption DEF NamesIn
  <2>4. Launched' = Launched \cup {c} /\ LaunchedWithItsFiles'
    BY <1>1, <2>1, <2>2, <2>3 DEF Launched, LaunchedWithItsFiles, WorkInv, TypeOK
  <2>5. CopiesNewWork' /\ LaunchedWereTaken' /\ SlotsAreLaunched' /\ RanHereHoldsSlots'
    BY <1>0, <1>1, <1>2, <2>1, <2>4 DEF WorkInv, CopiesNewWork, LaunchedWereTaken, SlotsAreLaunched,
       RanHereHoldsSlots, TypeOK
  <2>6. \A d \in Call : Refused(d) => Refused(d)'
    BY <1>0, <1>1, <1>2, <2>4 DEF Refused
  <2>7. TrueOf(c, "accepted")'
    BY <2>4 DEF TrueOf
  <2>8. OutcomesHold'
    BY <1>1, <1>2, <2>1, <2>4, <2>6, <2>7, AnswerKeeps
  <2>9. QED
    BY <1>3, <2>4, <2>5, <2>8 DEF WorkInv
<1>6. QED
  BY <1>4, <1>5

\* The runs end, are polled and cancelled; the copy and the agents go on.
LEMMA OthersKeep ==
  ASSUME TypeOK, TransferInv, WorkInv, OutcomesHold,
         \/ \E c \in Call : Settle(c) \/ Poll(c) \/ Cancel(c)
         \/ CopyStep
         \/ AgentTouches /\ UNCHANGED <<callVars, gatewayVars>>
  PROVE  WorkInv' /\ OutcomesHold'
<1>1. UNCHANGED <<tool, outcome, request, answer, launched, ranHere>>
  BY DEF Settle, Poll, Cancel, CopyStep, callVars, gatewayVars
<1>2. Launched' = Launched
  BY <1>1 DEF Launched
<1>3. \/ copying = NoCopy /\ UNCHANGED copying
      \/ UNCHANGED <<copying, slot>>
      \/ copying # NoCopy /\ copying' \in Copies /\ copying'.call = copying.call /\ UNCHANGED slot
  <2>1. CASE CopyStep
    <3>1. copying # NoCopy /\ copying' \in Copies /\ copying'.call = copying.call
      BY <2>1, CopyKeeps DEF CopyStep
    <3>2. QED
      BY <2>1, <3>1 DEF CopyStep, gatewayVars
  <2>2. CASE ~CopyStep
    BY <2>2 DEF Settle, Poll, Cancel, Follows, Idle, AgentTouches, transferVars, gatewayVars
  <2>3. QED
    BY <2>1, <2>2
<1>4. \A d \in Call : Refused(d) => Refused(d)'
  BY <1>1, <1>2, <1>3, CopyAssumption DEF Refused
<1>5. OutcomesHold'
  BY <1>1, <1>2, <1>4, TruthIsKept DEF OutcomesHold
<1>6. \A d \in Call : /\ slot'[d] \in {"running", "cancelling", "completed"} <=>
                          slot[d] \in {"running", "cancelling", "completed"}
                      /\ slot'[d] = "copying" => slot[d] = "copying"
  BY DEF Settle, Poll, Cancel, Active, CopyStep, gatewayVars, TypeOK
<1>7. CopiesNewWork'
  <2>1. CASE UNCHANGED slot
    <3>1. \A d \in Call : NewWork(d)' <=> NewWork(d)
      BY <2>1 DEF NewWork, ActiveTwins, FinishedTwins, Twins, Active
    <3>2. copying # NoCopy => copying.call \in Call
      BY DEF TypeOK, Copies
    <3>3. QED
      BY <1>1, <1>2, <1>3, <2>1, <3>1, <3>2, CopyAssumption DEF WorkInv, CopiesNewWork
  <2>2. CASE copying = NoCopy /\ UNCHANGED copying
    BY <1>6, <2>2 DEF WorkInv, CopiesNewWork
  <2>3. QED
    BY <1>3, <2>1, <2>2
<1>8. (SentOnce /\ LaunchedWereTaken /\ SlotsAreLaunched /\ RanHereHoldsSlots /\ LaunchedWithItsFiles)'
  <2>1. ranHere \subseteq Call
    BY DEF TypeOK
  <2>2. QED
    BY <1>1, <1>2, <1>6, <2>1 DEF WorkInv, SentOnce, LaunchedWereTaken, SlotsAreLaunched, RanHereHoldsSlots,
                                  LaunchedWithItsFiles
<1>9. QED
  BY <1>5, <1>7, <1>8 DEF WorkInv

\* A restart takes the copy and the table with it, and leaves what is not known unknown.
LEMMA RestartKeeps ==
  ASSUME TypeOK, WorkInv, OutcomesHold, McpRestart \/ GatewayRestart \/ PowerLoss
  PROVE  WorkInv' /\ OutcomesHold'
<1>1. /\ UNCHANGED launched
      /\ \/ UNCHANGED <<copying, slot, ranHere>>
         \/ copying' = NoCopy /\ slot' = [c \in Call |-> "none"] /\ ranHere' = {}
      /\ \A c \in Call : request'[c] = request[c] \/ (request[c] = "sent" /\ request'[c] = "taken")
  BY DEF McpRestart, GatewayRestart, PowerLoss, GatewayStopped, CopyCrash, CopyPowerLoss, EndCopy, gatewayVars
<1>2. \A c \in Call :
        /\ tool'[c] \in {tool[c], "returned"} /\ (tool[c] = "idle" => tool'[c] = "idle")
        /\ outcome'[c] \in {outcome[c], "failed"}
        /\ answer'[c] \in {answer[c], "none"}
        /\ outcome'[c] # "none" => tool'[c] \in {"cleaning", "returned"}
        /\ answer'[c] # "none" => tool'[c] = "calling"
        /\ tool'[c] \in {"idle", "staging"} => tool[c] \in {"idle", "staging"}
  <2>1. CASE GatewayRestart
    BY <2>1 DEF GatewayRestart, OutcomesHold
  <2>2. CASE McpStopped
    BY <2>2 DEF McpStopped, OutcomesHold, TypeOK
  <2>3. QED
    BY <2>1, <2>2 DEF McpRestart, PowerLoss
<1>3. Launched' = Launched
  BY <1>1 DEF Launched
<1>4. \A c \in Call : Refused(c) => Refused(c)'
  BY <1>1, <1>3 DEF Refused
<1>5. OutcomesHold'
  <2>1. ASSUME NEW c \in Call, NEW what, what \in {outcome'[c], answer'[c]}
        PROVE  what \in {outcome[c], answer[c]} \/ TrueOf(c, what)'
    BY <1>2, <2>1 DEF TrueOf
  <2>2. QED
    BY <1>2, <1>3, <1>4, <2>1, TruthIsKept
<1>6. CopiesNewWork'
  <2>1. CASE UNCHANGED <<copying, slot>>
    <3>1. \A d \in Call : NewWork(d)' <=> NewWork(d)
      BY <2>1 DEF NewWork, ActiveTwins, FinishedTwins, Twins, Active
    <3>2. copying # NoCopy => copying.call \in Call
      BY DEF TypeOK, Copies
    <3>3. QED
      BY <1>1, <1>3, <2>1, <3>1, <3>2 DEF WorkInv, CopiesNewWork
  <2>2. CASE copying' = NoCopy /\ slot' = [c \in Call |-> "none"]
    BY <2>2 DEF CopiesNewWork
  <2>3. QED
    BY <1>1, <2>1, <2>2
<1>7. SentOnce' /\ LaunchedWereTaken'
  BY <1>1, <1>2, <1>3 DEF WorkInv, SentOnce, LaunchedWereTaken, Launched
<1>8. SlotsAreLaunched' /\ RanHereHoldsSlots' /\ LaunchedWithItsFiles'
  BY <1>1, <1>3 DEF WorkInv, SlotsAreLaunched, RanHereHoldsSlots, LaunchedWithItsFiles
<1>9. QED
  BY <1>5, <1>6, <1>7, <1>8 DEF WorkInv

----
\* The initial state satisfies the invariant.
LEMMA InitEstablishes == Init => IInv
<1> SUFFICES ASSUME Init PROVE IInv
  OBVIOUS
<1> USE DEF Init, TransferInit
<1>1. TypeOK
  BY NamesAssumption DEF TypeOK, Content, Outcome
<1>2. CopyInOrder /\ WorkspaceIsFlushed /\ StagesItsFiles
  BY DEF CopyInOrder, WorkspaceIsFlushed, StagesItsFiles
<1>3. Launched = {}
  BY DEF Launched
<1>4. /\ CopiesNewWork /\ SentOnce /\ LaunchedWereTaken /\ SlotsAreLaunched /\ RanHereHoldsSlots
      /\ LaunchedWithItsFiles
  BY <1>3 DEF CopiesNewWork, SentOnce, LaunchedWereTaken, SlotsAreLaunched, RanHereHoldsSlots, LaunchedWithItsFiles
<1>5. OutcomesHold
  BY DEF OutcomesHold, TrueOf
<1>6. FilesAreWhole
  BY ContentAssumption DEF FilesAreWhole
<1>7. QED
  BY <1>1, <1>2, <1>4, <1>5, <1>6 DEF IInv

\* Every step keeps the invariant.
LEMMA NextKeeps == IInv /\ [Next]_vars => IInv'
<1> SUFFICES ASSUME IInv, [Next]_vars PROVE IInv'
  OBVIOUS
<1>1. TypeOK /\ StagesItsFiles /\ TransferInv /\ WorkInv /\ OutcomesHold
  BY DEF IInv, TransferInv, WorkInv, TypeOK
<1>2. ASSUME TypeOK', StagesItsFiles', TransferInv', WorkInv', OutcomesHold' PROVE IInv'
  BY <1>2 DEF IInv, TransferInv, WorkInv
<1>3. ASSUME NEW c \in Call, Tool(c) PROVE IInv'
  <2>1. UNCHANGED <<copying, workspace, unflushed>>
    BY <1>3 DEF Tool, Reject, Begin, StageFile, StagingFails, Send, AnswerArrives, Abort, RemoveStaged, Finish,
                transferVars
  <2>2. QED
    BY <1>1, <1>2, <1>3, <2>1, ToolTypes, TransferUnchanged, ToolKeeps
<1>4. ASSUME NEW c \in Call, Serve(c) \/ RefuseRequest(c) PROVE IInv'
  <2>1. TransferInv'
    <3>1. CASE Acquire(c)
      BY <1>1, <3>1, StartCopyKeeps DEF Acquire, TakeSlot
    <3>2. CASE AnswerTwin(c) \/ RefuseBusySession(c) \/ RefuseRequest(c)
      BY <1>1, <3>2, TransferUnchanged DEF AnswerTwin, RefuseBusySession, RefuseRequest, transferVars
    <3>3. QED
      BY <1>4, <3>1, <3>2 DEF Serve
  <2>2. CopiesNewWork
    BY <1>1 DEF WorkInv
  <2>3. QED
    BY <1>1, <1>2, <1>4, <2>1, <2>2, ServeTypes, TakeKeeps
<1>5. ASSUME NEW c \in Call, Settle(c) \/ Poll(c) \/ Cancel(c) PROVE IInv'
  <2>1. UNCHANGED <<copying, workspace, unflushed>> /\ CopiesNewWork
    BY <1>1, <1>5 DEF Settle, Poll, Cancel, transferVars, WorkInv
  <2>2. QED
    BY <1>1, <1>2, <1>5, <2>1, ServeTypes, TransferUnchanged, OthersKeep
<1>6. CASE CopyStep \/ (AgentTouches /\ UNCHANGED <<callVars, gatewayVars>>)
  <2>1. TransferInv'
    BY <1>1, <1>6, CopyKeeps, AgentKeeps DEF CopyStep
  <2>2. QED
    BY <1>1, <1>2, <1>6, <2>1, FileTypes, OthersKeep
<1>7. CASE FileTransferError \/ Launch
  <2>1. EndCopy /\ UNCHANGED <<workspace, unflushed>>
    BY <1>7 DEF FileTransferError, FailCopy, Launch
  <2>2. QED
    BY <1>1, <1>2, <1>7, <2>1, EndCopyKeeps, EndTypes, EndKeeps
<1>8. CASE McpRestart \/ GatewayRestart \/ PowerLoss
  BY <1>1, <1>2, <1>8, RestartTypes, RestartKeeps
<1>9. CASE UNCHANGED vars
  <2>1. TypeOK' /\ StagesItsFiles' /\ TransferInv'
    BY <1>1, <1>9, TransferUnchanged DEF vars, transferVars, callVars, gatewayVars, TypeOK, StagesItsFiles
  <2>2. Launched' = Launched /\ UNCHANGED <<tool, outcome, request, answer, slot, launched, ranHere, copying>>
    BY <1>9 DEF vars, transferVars, callVars, gatewayVars, Launched
  <2>3. WorkInv'
    BY <1>1, <2>2 DEF WorkInv, CopiesNewWork, NewWork, ActiveTwins, FinishedTwins, Twins, Active, SentOnce,
                      LaunchedWereTaken, SlotsAreLaunched, RanHereHoldsSlots, LaunchedWithItsFiles
  <2>4. \A d \in Call : Refused(d) => Refused(d)'
    BY <2>2 DEF Refused
  <2>5. OutcomesHold'
    BY <1>1, <2>2, <2>4, TruthIsKept DEF OutcomesHold
  <2>6. QED
    BY <1>2, <2>1, <2>3, <2>5
<1>10. QED
  BY <1>3, <1>4, <1>5, <1>6, <1>7, <1>8, <1>9 DEF Next

----
(* Theorems *)

\* What is invariant of send-chat.ts, chat.js and file-transfer.js, across crashes of either server
\* and losses of power.
THEOREM Invariant == Spec => []IInv
<1>1. QED
  BY InitEstablishes, NextKeeps, PTL DEF Spec

\* The variables keep their types.
THEOREM TypeCorrect == Spec => []TypeOK
<1>1. IInv => TypeOK
  BY DEF IInv
<1>2. QED
  BY <1>1, Invariant, PTL

\* An agent starts with all the files of its request in place, though the staging directory may
\* vanish under the copy (chat.js:203-246).
THEOREM AgentsHaveTheirFiles == Spec => []LaunchedWithItsFiles
<1>1. IInv => LaunchedWithItsFiles
  BY DEF IInv
<1>2. QED
  BY <1>1, Invariant, PTL

\* No destination holds a part of a file, whatever was lost when (file-transfer.js:145-168).
THEOREM NoFileInPart == Spec => []FilesAreWhole
<1>1. IInv => FilesAreWhole
  BY DEF IInv
<1>2. QED
  BY <1>1, Invariant, PTL

\* What send-chat returns of the gateway's answer is so, and stays so: accepted, refused, busy with the
\* key or the session, completed (chat.js:144-219, send-chat.ts:176-250).
THEOREM ReturnsAreTrue == Spec => []AnswersAreTrue
<1>1. IInv => AnswersAreTrue
  BY DEF IInv, OutcomesHold, TrueOf, Refused, AnswersAreTrue
<1>2. QED
  BY <1>1, Invariant, PTL

\* A file is put in place by the copy, when it may overwrite or nothing is there.
LEMMA PlacedByCopy ==
  ASSUME IInv, [Next]_vars, NEW p \in Path, workspace'[p] # workspace[p], workspace'[p] \in Call
  PROVE  /\ copying # NoCopy /\ copying.call \in Call /\ workspace'[p] = copying.call /\ p = Target
         /\ copying.index \in DOMAIN FilesOf(copying.call)
         /\ Current.overwrite \/ workspace[p] = Absent
<1>1. workspace \in [Path -> Content] /\ copying \in Copies \cup {NoCopy} /\ WorkspaceIsFlushed /\ CopyInOrder
  BY DEF IInv, TypeOK
<1>2. CASE Rename \/ Link
  <2>1. copying # NoCopy /\ copying.step = "flushed" /\ PutInPlace
    BY <1>2 DEF Rename, Link, At
  <2>2. copying.index <= Len(FilesOf(copying.call))
    BY <1>1, <2>1 DEF CopyInOrder
  <2>3. copying.call \in Call /\ Target \in Path /\ copying.index \in DOMAIN FilesOf(copying.call)
    BY <1>1, <2>1, <2>2, CopyIsAtFile DEF Copies
  <2>4. workspace'[p] = copying.call /\ p = Target
    BY <1>1, <2>1, <2>3 DEF PutInPlace
  <2>5. QED
    BY <1>2, <2>1, <2>3, <2>4 DEF Rename, Link
<1>3. CASE AgentTouches
  BY <1>1, <1>3, ContentAssumption DEF AgentTouches
<1>4. CASE PowerLoss
  BY <1>1, <1>4, ContentAssumption DEF PowerLoss, CopyPowerLoss
<1>5. ASSUME UNCHANGED workspace PROVE FALSE
  BY <1>5
<1>6. ASSUME NEW c \in Call, Tool(c) PROVE UNCHANGED workspace
  BY <1>6 DEF Tool, Reject, Begin, StageFile, StagingFails, Send, AnswerArrives, Abort, RemoveStaged, Finish,
              transferVars
<1>7. ASSUME NEW c \in Call, Serve(c) \/ RefuseRequest(c) \/ Settle(c) \/ Poll(c) \/ Cancel(c)
      PROVE  UNCHANGED workspace
  BY <1>7 DEF Serve, AnswerTwin, RefuseBusySession, Acquire, TakeSlot, RefuseRequest, Settle, Poll, Cancel,
              transferVars
<1>8. CASE CopySource \/ Flush \/ Unlink \/ FileTransferError \/ Launch \/ McpRestart \/ GatewayRestart
           \/ UNCHANGED vars
  BY <1>5, <1>8 DEF CopySource, Flush, Unlink, FileTransferError, FailCopy, Launch, McpRestart,
                    GatewayRestart, CopyCrash, vars, transferVars
<1>9. QED
  BY <1>2, <1>3, <1>4, <1>5, <1>6, <1>7, <1>8 DEF Next, CopyStep, Copy

\* Nothing that is in the workspace gives way to a file that may not overwrite
\* (file-transfer.js:155-171).
THEOREM NothingIsOverwritten == Spec => KeepsWhatIsThere
<1>1. ASSUME IInv, [Next]_vars, NEW p \in Path, workspace[p] # Absent, workspace'[p] # workspace[p],
             workspace'[p] \in Call
      PROVE  \E i \in DOMAIN FilesOf(workspace'[p]) :
               LET file == FilesOf(workspace'[p])[i] IN <<file.dir, file.name>> = p /\ file.overwrite
  <2>1. /\ workspace'[p] = copying.call /\ p = Target
        /\ copying.index \in DOMAIN FilesOf(copying.call)
        /\ Current.overwrite
    BY <1>1, PlacedByCopy
  <2>2. QED
    BY <2>1 DEF Current, Target
<1>2. IInv /\ [Next]_vars =>
        [\A p \in Path :
           workspace[p] # Absent /\ workspace'[p] # workspace[p] /\ workspace'[p] \in Call =>
             \E i \in DOMAIN FilesOf(workspace'[p]) :
               LET file == FilesOf(workspace'[p])[i] IN <<file.dir, file.name>> = p /\ file.overwrite]_workspace
  BY <1>1
<1>3. QED
  BY <1>2, Invariant, PTL DEF Spec, KeepsWhatIsThere

\* The only call a step launches is the one whose files were copied.
LEMMA LaunchedByCopy ==
  ASSUME IInv, [Next]_vars, NEW c \in Call, c \in Launched', c \notin Launched
  PROVE  copying # NoCopy /\ copying.call = c
<1>1. CASE Launch
  BY <1>1 DEF Launch, AllCopied, At, Launched, IInv, TypeOK, Copies
<1>2. CASE UNCHANGED launched
  BY <1>2 DEF Launched
<1>3. ASSUME NEW d \in Call, Tool(d) \/ Serve(d) \/ RefuseRequest(d) \/ Settle(d) \/ Poll(d) \/ Cancel(d)
      PROVE  UNCHANGED launched
  BY <1>3 DEF Tool, Reject, Begin, StageFile, StagingFails, Send, AnswerArrives, Abort, RemoveStaged, Finish,
              Serve, AnswerTwin, RefuseBusySession, Acquire, TakeSlot, RefuseRequest, Settle, Poll, Cancel,
              gatewayVars
<1>4. ASSUME \/ CopyStep \/ FileTransferError \/ McpRestart \/ GatewayRestart \/ PowerLoss \/ UNCHANGED vars
             \/ AgentTouches /\ UNCHANGED <<callVars, gatewayVars>>
      PROVE  UNCHANGED launched
  BY <1>4 DEF CopyStep, FileTransferError, McpRestart, GatewayRestart, PowerLoss, GatewayStopped, vars, gatewayVars
<1>5. QED
  BY <1>1, <1>2, <1>3, <1>4 DEF Next

\* While the gateway lives a key starts one run, and its retries touch no file (chat.js:144-182 before
\* 184 and 203).
THEOREM RetriesStartNothing == Spec => RetryStartsNothing
<1>1. ASSUME IInv, copying # NoCopy PROVE Twins(copying.call) \cap ranHere = {}
  BY <1>1 DEF IInv, CopiesNewWork, NewWork, ActiveTwins, FinishedTwins, Active, RanHereHoldsSlots
<1>2. ASSUME IInv, [Next]_vars, NEW c \in Call, Twins(c) \cap ranHere # {}
      PROVE  /\ c \in Launched' => c \in Launched
             /\ \A p \in Path : workspace'[p] = c => workspace[p] = c
  <2>1. c \in Launched' => c \in Launched
    BY <1>1, <1>2, LaunchedByCopy
  <2>2. ASSUME NEW p \in Path, workspace'[p] = c, workspace[p] # c PROVE FALSE
    <3>1. copying # NoCopy /\ workspace'[p] = copying.call
      BY <1>2, <2>2, PlacedByCopy
    <3>2. QED
      BY <1>1, <1>2, <2>2, <3>1
  <2>3. QED
    BY <2>1, <2>2
<1>3. IInv /\ [Next]_vars =>
        [\A c \in Call : Twins(c) \cap ranHere # {} =>
           /\ c \in Launched' => c \in Launched
           /\ \A p \in Path : workspace'[p] = c => workspace[p] = c]_vars
  BY <1>2
<1>4. QED
  BY <1>3, Invariant, PTL DEF Spec, RetryStartsNothing
====
