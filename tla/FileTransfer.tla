---- MODULE FileTransfer ----
(***************************************************************************)
(* How the files of a request reach the workspace,                         *)
(* gateway/src/file-transfer.js: one after the other, each written to a    *)
(* temporary file beside its destination, flushed, and then renamed over   *)
(* it or linked to it.  The copy does not yield to other requests of the   *)
(* gateway; agents that work in the workspace, the server that staged the  *)
(* files, and the end of the process do not wait for it.                   *)
(***************************************************************************)
EXTENDS Naturals, Sequences, FiniteSets

CONSTANTS Call,        \* calls of send-chat, each with a request to the gateway
          Args,        \* their arguments: files, key
          NoCopy, Absent, Agent, Partial

\* A file has a name, a size, a directory in the workspace (its own, that of the request, or one
\* made for the request), and may be allowed to overwrite.
FilesOf(c) == Args[c].files
Path == UNION {{<<FilesOf(c)[i].dir, FilesOf(c)[i].name>> : i \in DOMAIN FilesOf(c)} : c \in Call}

ASSUME FilesAssumption ==
  \A c \in Call : DOMAIN FilesOf(c) = 1 .. Len(FilesOf(c)) /\ Len(FilesOf(c)) \in Nat

\* What is found under a path is told apart.
ASSUME ContentAssumption == {Absent, Agent, Partial} \cap Call = {} /\ Partial \notin {Absent, Agent}

VARIABLES staged,      \* the files of each call that are in its staging directory
          copying,     \* the copy that is under way, if any
          workspace,   \* what is found under each path
          unflushed    \* paths whose contents are not known to be on the disk
transferVars == <<staged, copying, workspace, unflushed>>

FileName == {p[2] : p \in Path}

\* A copy: of which call, at which of its files, how far with it, and what is in place.
Copies ==
  [call : Call, index : Nat \ {0}, step : {"open", "copied", "flushed", "placed"}, flushed : BOOLEAN,
   placed : SUBSET FileName]

ASSUME CopyAssumption == NoCopy \notin Copies

Content == Call \cup {Absent, Agent, Partial}

TransferInit ==
  /\ staged = [c \in Call |-> {}]
  /\ copying = NoCopy
  /\ workspace = [p \in Path |-> Absent]
  /\ unflushed = {}

StartCopy(c) == copying' = [call |-> c, index |-> 1, step |-> "open", flushed |-> FALSE, placed |-> {}]

Current == FilesOf(copying.call)[copying.index]
Target == <<Current.dir, Current.name>>
At(step) == copying # NoCopy /\ copying.step = step

AllCopied == At("open") /\ copying.index > Len(FilesOf(copying.call))
HasNext == copying # NoCopy /\ copying.index <= Len(FilesOf(copying.call))

CopySourceIfThere ==
  /\ At("open")
  /\ HasNext
  /\ copying' = IF Current.name \in staged[copying.call] THEN [copying EXCEPT !.step = "copied"]
                ELSE [copying EXCEPT !.index = @ + 1]
  /\ UNCHANGED <<staged, workspace, unflushed>>

\* The temporary file is made and filled from the staged one.
CopySource ==
  /\ At("open")
  /\ HasNext
  /\ Current.name \in staged[copying.call]
  /\ copying' = [copying EXCEPT !.step = "copied"]
  /\ UNCHANGED <<staged, workspace, unflushed>>

FlushLeftOut ==
  /\ At("copied")
  /\ copying' = [copying EXCEPT !.step = "flushed", !.flushed = FALSE]
  /\ UNCHANGED <<staged, workspace, unflushed>>

Flush ==
  /\ At("copied")
  /\ copying' = [copying EXCEPT !.step = "flushed", !.flushed = TRUE]
  /\ UNCHANGED <<staged, workspace, unflushed>>

Placed == [copying EXCEPT !.step = "placed", !.placed = @ \cup {Current.name}]

PutInPlace ==
  /\ workspace' = [workspace EXCEPT ![Target] = copying.call]
  /\ unflushed' = IF copying.flushed THEN unflushed \ {Target} ELSE unflushed \cup {Target}

AfterFile(copy) ==
  [call |-> copy.call, index |-> copy.index + 1, step |-> "open", flushed |-> FALSE, placed |-> copy.placed]

RenameAnyway ==
  /\ At("flushed")
  /\ PutInPlace
  /\ copying' = AfterFile(Placed)
  /\ UNCHANGED staged

Rename ==
  /\ At("flushed")
  /\ Current.overwrite
  /\ PutInPlace
  /\ copying' = AfterFile(Placed)
  /\ UNCHANGED staged

\* Without leave to overwrite the file is linked, which fails if anything is there.
Link ==
  /\ At("flushed")
  /\ ~Current.overwrite
  /\ workspace[Target] = Absent
  /\ PutInPlace
  /\ copying' = Placed
  /\ UNCHANGED staged

Unlink ==
  /\ At("placed")
  /\ copying' = AfterFile(copying)
  /\ UNCHANGED <<staged, workspace, unflushed>>

Copy == CopySource \/ Flush \/ Rename \/ Link \/ Unlink

EndCopy == copying' = NoCopy

\* The source is gone, the destination exists, or the file system reports an error: the files
\* before this one stay where they are.
FailCopy ==
  /\ HasNext
  /\ EndCopy
  /\ UNCHANGED <<staged, workspace, unflushed>>

\* Agents write and delete in the workspace all the time.
AgentTouches ==
  /\ \E p \in Path, content \in {Absent, Agent} :
       /\ workspace' = [workspace EXCEPT ![p] = content]
       /\ unflushed' = IF content = Absent THEN unflushed \ {p} ELSE unflushed
  /\ UNCHANGED <<staged, copying>>

\* The gateway process ends in the middle of a copy.
CopyCrash ==
  /\ EndCopy
  /\ UNCHANGED <<workspace, unflushed>>

\* Directories are not flushed, so any entry may be missing afterwards; contents that were not
\* flushed may be there in part.
CopyPowerLoss ==
  /\ EndCopy
  /\ \E gone \in SUBSET Path, torn \in SUBSET unflushed :
       workspace' = [p \in Path |-> IF p \in gone THEN Absent ELSE IF p \in torn THEN Partial ELSE workspace[p]]
  /\ unflushed' = {}
====
