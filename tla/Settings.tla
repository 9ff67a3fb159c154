---- MODULE Settings ----
(***************************************************************************)
(* The settings store of the gateway, gateway/src/settings.js, with the    *)
(* routes and the MCP tool that reach it: a document of one global scope   *)
(* and one scope per chat, each with a revision, replaced as a whole by a  *)
(* file that is written beside it and renamed over it.                     *)
(*                                                                         *)
(* An update runs without interruption in its process, but the process can *)
(* be killed and the machine can lose power between two of its calls, so   *)
(* each call that changes the disk is a step.                              *)
(***************************************************************************)
EXTENDS GatewayConfig, FiniteSets

CONSTANTS Client, Global, NoWrite, Unchecked,
          Payload,      \* settings a client may set, functions from a set of names
          Reset,        \* sets of names a client may ask to reset
          MaxRevision   \* bound on file_revision

ASSUME MaxRevisionAssumption == MaxRevision \in Nat

VARIABLES config,      \* the configuration the process has loaded, once
          store,       \* the document in settings.json
          onDisk,      \* the documents one of which a loss of power leaves
          writing,     \* the update that is being written, if any
          client       \* what each client knows of its one update

settingsVars == <<config, store, onDisk, writing, client>>

Where == Chat \cup {Global}
Scope == [revision : Nat, settings : Payload]

EmptyDocument == [file_revision |-> 0, scope |-> [w \in Where |-> [revision |-> 0, settings |-> Nothing]]]

NewClient == [state |-> "new", where |-> Global, expected |-> Unchecked, revision |-> 0, settings |-> Nothing]
FailedClient == [NewClient EXCEPT !.state = "failed"]

----
(* What a request runs with *)

\* From the weakest layer to the strongest.
Inherited(cfg, document, chat) ==
  document.scope[chat].settings @@ document.scope[Global].settings
    @@ cfg.chats[chat].static @@ StaticValues(cfg) @@ DefaultValues

\* A request that changes the runtime does not take the model of the runtime it leaves.
AfterRuntimeChange(cfg, document, chat, overrides, values) ==
  IF /\ "runtime" \in DOMAIN overrides
     /\ "model" \notin DOMAIN overrides
     /\ NormalizeRuntime(values.runtime) # NormalizeRuntime(Inherited(cfg, document, chat).runtime)
  THEN [values EXCEPT !.model = DefaultModelForRuntime(cfg, values.runtime)]
  ELSE values

\* The configured default model is not meant for Codex.
AfterCodexDefault(values, layers) ==
  IF values.runtime = "codex" /\ \A layer \in layers : "model" \notin DOMAIN layer
  THEN [values EXCEPT !.model = Null]
  ELSE values

RawEffective(cfg, document, chat, overrides) ==
  LET values == overrides @@ Inherited(cfg, document, chat)
  IN AfterCodexDefault(AfterRuntimeChange(cfg, document, chat, overrides, values),
       {overrides, document.scope[chat].settings, document.scope[Global].settings, cfg.chats[chat].static})

GlobalRaw(cfg, document) ==
  AfterCodexDefault(document.scope[Global].settings @@ StaticValues(cfg) @@ DefaultValues,
                    {document.scope[Global].settings})

\* validateTuple() without its probes of availability.
ValidTuple(cfg, values) ==
  /\ IsRuntimeAllowed(cfg, NormalizeRuntime(values.runtime))
  /\ values.agent_timeout_sec \in ValidTimeout
  /\ values.model # Null => IsModelAllowed(cfg, values.model)
  /\ ValidModelOf(NormalizeRuntime(values.runtime), values.model)
  /\ values.codex_transport \in {"exec", "mcp"}

\* Only Codex is probed for, and the probe may fail at any time.
MayBeUnavailable(values) == NormalizeRuntime(values.runtime) = "codex"

Resolves(cfg, document, chat) == ValidTuple(cfg, RawEffective(cfg, document, chat, Nothing))

----
(* Updates *)

Normalized(payload) ==
  [name \in DOMAIN payload |-> IF name = "runtime" THEN NormalizeRuntime(payload[name]) ELSE payload[name]]

NormalPayload(payload) ==
  /\ "runtime" \in DOMAIN payload => NormalizeRuntime(payload.runtime) # "unknown"
  /\ "agent_timeout_sec" \in DOMAIN payload => payload.agent_timeout_sec \in ValidTimeout
  /\ "codex_transport" \in DOMAIN payload => payload.codex_transport \in {"exec", "mcp"}

SetSettings(settings, payload) == Normalized(payload) @@ settings
\* A client that names nothing resets everything.
NamesToReset(asked) == IF asked = {} THEN SettingName ELSE asked
ResetSettings(settings, names) == [name \in DOMAIN settings \ names |-> settings[name]]

\* The scope of the update with its next revision; the other scopes as they are.
Candidate(where, settings) ==
  [file_revision |-> store.file_revision + 1,
   scope |-> [store.scope EXCEPT ![where] = [revision |-> @.revision + 1, settings |-> settings]]]

\* The tuples an update has to keep valid: of its chat, or of the gateway and every chat.
ChecksOnlyItsScope(where, document) ==
  {IF where = Global THEN GlobalRaw(config, document) ELSE RawEffective(config, document, where, Nothing)}
Checked(where, document) ==
  IF where = Global
  THEN {GlobalRaw(config, document)} \cup {RawEffective(config, document, c, Nothing) : c \in Configured(config)}
  ELSE {RawEffective(config, document, where, Nothing)}

IgnoresExpectedRevision(c, where) == TRUE
RevisionMatches(c, where) ==
  client[c].expected \in {Unchecked, store.scope[where].revision}

Known(where) == where = Global \/ where \in Configured(config)

\* The gateway answers a request of its own accord only while it is not inside an update.
Free == writing = NoWrite

\* GET /settings: a client learns the revision of a scope.
Describe(c, where) ==
  /\ Free
  /\ client[c].state = "new"
  /\ Known(where)
  /\ where # Global => Resolves(config, store, where)
  /\ client' = [client EXCEPT ![c] = [state |-> "ready", where |-> where,
                                      expected |-> store.scope[where].revision,
                                      revision |-> 0, settings |-> Nothing]]
  /\ UNCHANGED <<config, store, onDisk, writing>>

\* The new settings of the scope under a POST of the client.
Posted(where) ==
  {SetSettings(store.scope[where].settings, p) : p \in {q \in Payload : NormalPayload(q)}}
    \cup {ResetSettings(store.scope[where].settings, NamesToReset(asked)) : asked \in Reset}

\* A client posts with the revision it has seen, or without one.
Posts(c, where) ==
  /\ Free
  /\ \/ client[c].state = "new"
     \/ client[c].state = "ready" /\ client[c].where = where
  /\ Known(where)

BeginUpdate(c, where) ==
  /\ Posts(c, where)
  /\ store.file_revision < MaxRevision
  /\ RevisionMatches(c, where)
  /\ \E settings \in Posted(where) :
       LET document == Candidate(where, settings) IN
       /\ \A values \in Checked(where, document) : ValidTuple(config, values)
       /\ writing' = [by |-> c, where |-> where, document |-> document, renamed |-> FALSE]
  /\ UNCHANGED <<config, store, onDisk, client>>

\* A conflict, a value or a tuple that is not valid, a failed probe.
Refuse(c, where) ==
  /\ Posts(c, where)
  /\ \/ ~RevisionMatches(c, where)
     \/ \E p \in Payload : ~NormalPayload(p)
     \/ \E settings \in Posted(where) : \E values \in Checked(where, Candidate(where, settings)) :
          ~ValidTuple(config, values) \/ MayBeUnavailable(values)
  /\ client' = [client EXCEPT ![c] = FailedClient]
  /\ UNCHANGED <<config, store, onDisk, writing>>

Acknowledge ==
  LET c == writing.by
      scope == writing.document.scope[writing.where]
  IN client' = [client EXCEPT ![c] = [state |-> "acked", where |-> writing.where, expected |-> @.expected,
                                      revision |-> scope.revision, settings |-> scope.settings]]
ReportFailure == client' = [client EXCEPT ![writing.by] = FailedClient]

\* The directory or the temporary file cannot be made, written or flushed.
WriteFails ==
  /\ writing # NoWrite
  /\ ~writing.renamed
  /\ ReportFailure
  /\ writing' = NoWrite
  /\ UNCHANGED <<config, store, onDisk>>

\* The new file is flushed before it is renamed; the rename itself may be lost until Sync.
Rename ==
  /\ writing # NoWrite
  /\ ~writing.renamed
  /\ store' = writing.document
  /\ onDisk' = onDisk \cup {writing.document}
  /\ writing' = [writing EXCEPT !.renamed = TRUE]
  /\ UNCHANGED <<config, client>>

SyncLeftOut ==
  /\ writing # NoWrite
  /\ writing.renamed
  /\ (Acknowledge \/ ReportFailure)
  /\ writing' = NoWrite
  /\ UNCHANGED <<config, store, onDisk>>

\* The directory is flushed.  The answer can still be an error: describe() probes again, and the
\* connection may be gone.
Sync ==
  /\ writing # NoWrite
  /\ writing.renamed
  /\ onDisk' = {store}
  /\ (Acknowledge \/ ReportFailure)
  /\ writing' = NoWrite
  /\ UNCHANGED <<config, store>>

\* The error of the directory is reported, but the rename is not taken back.
SyncFails ==
  /\ writing # NoWrite
  /\ writing.renamed
  /\ ReportFailure
  /\ writing' = NoWrite
  /\ UNCHANGED <<config, store, onDisk>>

Write == WriteFails \/ Rename \/ Sync \/ SyncFails

----
(* The gateway process is killed and started again.  It loads config.json when it starts, which
   may have been edited by then. *)

Restart ==
  /\ config' \in Config
  /\ IF writing = NoWrite THEN UNCHANGED client ELSE ReportFailure
  /\ writing' = NoWrite

Crash == Restart /\ UNCHANGED <<store, onDisk>>

\* Of the renames that were not flushed, the disk has kept the first few.
PowerLoss ==
  /\ Restart
  /\ store' \in onDisk
  /\ onDisk' = {store'}

SettingsInit ==
  /\ config \in Config
  /\ store = EmptyDocument
  /\ onDisk = {EmptyDocument}
  /\ writing = NoWrite
  /\ client = [c \in Client |-> NewClient]

----
(* Properties *)

\* An update that was acknowledged (settings.js:275-276, after the rename and the flush of
\* the directory) stays: whatever crash or loss of power follows, its scope is never found at an
\* earlier revision, and at its own revision it holds what the client set.
AckedUpdateSurvives ==
  \A c \in Client : client[c].state = "acked" =>
    \A document \in onDisk \cup {store} :
      LET scope == document.scope[client[c].where] IN
      /\ scope.revision >= client[c].revision
      /\ scope.revision = client[c].revision => scope.settings = client[c].settings

\* Of the clients that saw the same revision of a scope and say so (expected_revision,
\* settings.js:248), one at most is told that its update is done, also across crashes.
OneWinnerPerRevision ==
  \A c, d \in Client :
    /\ c # d
    /\ client[c].state = "acked" /\ client[d].state = "acked"
    /\ client[c].where = client[d].where
    /\ client[c].expected # Unchecked
    => client[c].expected # client[d].expected

\* An update of any scope leaves every chat that could run able to run (settings.js:267-274): a
\* global value is tried against the overrides and the static values of each chat.
UpdatesKeepChatsRunnable ==
  [][writing' # NoWrite => \A c \in Configured(config) :
       Resolves(config, store, c) => Resolves(config, store', c)]_store
====
