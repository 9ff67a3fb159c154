---- MODULE ChatAdmission_proofs ----
(***************************************************************************)
(* Theorems about ChatAdmission, Settings and ExecutionAuthority, for any  *)
(* number of clients, requests, chats and sessions, any settings, and any  *)
(* configurations the gateway may find when it starts.                     *)
(***************************************************************************)
EXTENDS ChatAdmission, FiniteSetTheorems, TLAPS

RuntimeName == {"opencode", "codex", "unknown"}
Tuples == UNION {{Tuple(cfg, chat, runtime) : chat \in Configured(cfg), runtime \in RuntimeName} : cfg \in Config}

----
(* Settings *)

Document(d) ==
  /\ d.file_revision \in 0 .. MaxRevision
  /\ DOMAIN d.scope = Where
  /\ \A w \in Where : d.scope[w].revision \in 0 .. d.file_revision

\* No scope of the one is ahead of the other's, and at the same revision it is the same.
NotAhead(d, e) ==
  \A w \in Where :
    /\ d.scope[w].revision <= e.scope[w].revision
    /\ d.scope[w].revision = e.scope[w].revision => d.scope[w].settings = e.scope[w].settings

DiskIsBehindStore ==
  /\ store \in onDisk
  /\ \A d \in onDisk : Document(d) /\ NotAhead(d, store)

ClientTypes ==
  /\ DOMAIN client = Client
  /\ \A c \in Client :
       /\ client[c] = [state |-> client[c].state, where |-> client[c].where, expected |-> client[c].expected,
                       revision |-> client[c].revision, settings |-> client[c].settings]
       /\ client[c].state \in {"new", "ready", "acked", "failed"}
       /\ client[c].where \in Where
       /\ client[c].expected \in Nat \cup {Unchecked}
       /\ client[c].revision \in Nat
       /\ client[c].state = "new" => client[c].expected = Unchecked

\* Who was told of success without giving up the check has written the next revision.
AckedIsNext ==
  \A c \in Client :
    client[c].state = "acked" /\ client[c].expected # Unchecked => client[c].revision = client[c].expected + 1

WritingTypes ==
  writing # NoWrite =>
    /\ writing = [by |-> writing.by, where |-> writing.where, document |-> writing.document,
                  renamed |-> writing.renamed]
    /\ writing.renamed \in BOOLEAN
    /\ writing.by \in Client
    /\ client[writing.by].state \in {"new", "ready"}
    /\ writing.where \in Where
    /\ Document(writing.document)

\* The new document is the successor of the store, until it is the store.
WritesSuccessor ==
  writing # NoWrite =>
    IF writing.renamed THEN store = writing.document ELSE NotAhead(store, writing.document)

\* It is ahead of what anybody was told, and the next of what the writer expected.
WritesNewRevision ==
  writing # NoWrite =>
    LET revision == writing.document.scope[writing.where].revision
        by == client[writing.by]
    IN /\ by.expected # Unchecked => by.where = writing.where /\ revision = by.expected + 1
       /\ \A c \in Client :
            client[c].state = "acked" /\ client[c].where = writing.where => client[c].revision < revision

WritesRunnable ==
  writing # NoWrite /\ ~writing.renamed =>
    \A c \in Configured(config) : Resolves(config, store, c) => Resolves(config, writing.document, c)

SettingsInv ==
  /\ config \in Config
  /\ DiskIsBehindStore
  /\ ClientTypes /\ AckedIsNext
  /\ WritingTypes /\ WritesSuccessor /\ WritesNewRevision /\ WritesRunnable
  /\ AckedUpdateSurvives
  /\ OneWinnerPerRevision

----
(* Sessions *)

RunRecord ==
  [state : RunState, session : Session \cup {NoSession}, resumed : BOOLEAN, tuple : Tuples \cup {NoBinding}]

SessionTypes ==
  /\ binding \in [Session -> Tuples \cup {NoBinding, Torn}]
  /\ lost \subseteq Session
  /\ run \in [Request -> RunRecord]
  /\ served \in [Session -> SUBSET Tuples]
  /\ \A r \in Request : run[r].state = "new" => run[r].session = NoSession /\ ~run[r].resumed

\* What a session was served under is what it is bound to.
ServedIsBound ==
  \A s \in Session \ lost : \A t \in served[s] : t = binding[s]

RunsAreBound ==
  \A r \in Running :
    /\ run[r].tuple # NoBinding
    /\ run[r].resumed => run[r].session # NoSession /\ binding[run[r].session] = run[r].tuple

\* While the run that opened a session goes on, only an adoption binds it.
OpenedOrAdopted ==
  \A r \in Running : run[r].session # NoSession /\ ~run[r].resumed =>
    \/ binding[run[r].session] = NoBinding
    \/ binding[run[r].session] \in Tuples /\ Legacy(config, binding[run[r].session].chat)

SessionInv == SessionTypes /\ ServedIsBound /\ RunsAreBound /\ OpenedOrAdopted /\ NoSharedSession

IInv == SettingsInv /\ SessionInv

----
\* Runtime names have a canonical form.
LEMMA RuntimeNames == \A v : NormalizeRuntime(v) \in RuntimeName
  BY DEF NormalizeRuntime, Lookup, Spelling, RuntimeName

\* What an authority is computed for is a tuple.
LEMMA TupleInTuples ==
  ASSUME NEW cfg \in Config, NEW chat \in Configured(cfg), NEW v
  PROVE  /\ Tuple(cfg, chat, NormalizeRuntime(v)) \in Tuples
         /\ Tuple(cfg, chat, NormalizeRuntime(v)) # NoBinding
         /\ Tuple(cfg, chat, NormalizeRuntime(v)).chat = chat
<1>1. NormalizeRuntime(v) \in RuntimeName
  BY RuntimeNames
<1>2. Tuple(cfg, chat, NormalizeRuntime(v)) \in Tuples
  BY <1>1 DEF Tuples
<1>3. Tuple(cfg, chat, NormalizeRuntime(v)) # NoBinding
  BY <1>1, NamesAssumption DEF RuntimeName
<1>4. Tuple(cfg, chat, NormalizeRuntime(v)).chat = chat
  BY DEF Tuple
<1>5. QED
  BY <1>2, <1>3, <1>4

\* The settings of a chat depend on its own scope and on the global one only.
LEMMA SameScopesSameSettings ==
  ASSUME NEW cfg, NEW d, NEW e, NEW c,
         d.scope[c] = e.scope[c], d.scope[Global] = e.scope[Global]
  PROVE  Resolves(cfg, d, c) <=> Resolves(cfg, e, c)
<1>1. RawEffective(cfg, d, c, Nothing) = RawEffective(cfg, e, c, Nothing)
  BY DEF RawEffective, AfterRuntimeChange, Inherited
<1>2. QED
  BY <1>1 DEF Resolves

\* The order of documents.
LEMMA NotAheadIsTransitive ==
  ASSUME NEW d, NEW e, NEW f, Document(d), Document(e), Document(f), NotAhead(d, e), NotAhead(e, f)
  PROVE  NotAhead(d, f)
  BY MaxRevisionAssumption DEF Document, NotAhead

LEMMA NotAheadIsReflexive == ASSUME NEW d, Document(d) PROVE NotAhead(d, d)
  BY MaxRevisionAssumption DEF Document, NotAhead

\* What an update writes.
LEMMA CandidateIsSuccessor ==
  ASSUME NEW where \in Where, NEW settings, Document(store), store.file_revision < MaxRevision
  PROVE  LET d == Candidate(where, settings) IN
         /\ Document(d)
         /\ NotAhead(store, d)
         /\ d.scope[where].revision = store.scope[where].revision + 1
         /\ \A w \in Where \ {where} : d.scope[w] = store.scope[w]
<1> DEFINE d == Candidate(where, settings)
           new == [revision |-> store.scope[where].revision + 1, settings |-> settings]
<1>1. new.revision = store.scope[where].revision + 1
  OBVIOUS
<1>2. d.scope = [store.scope EXCEPT ![where] = new] /\ d.file_revision = store.file_revision + 1
  BY DEF Candidate
<1> HIDE DEF d, new
<1>3. DOMAIN d.scope = Where /\ d.scope[where] = new /\ \A w \in Where \ {where} : d.scope[w] = store.scope[w]
  BY <1>2 DEF Document
<1>4. Document(d)
  BY <1>1, <1>2, <1>3, MaxRevisionAssumption DEF Document
<1>5. NotAhead(store, d)
  BY <1>1, <1>3, MaxRevisionAssumption DEF Document, NotAhead
<1>6. QED
  BY <1>1, <1>3, <1>4, <1>5 DEF d

----
\* A step that leaves one client without a success in hand keeps what is promised to the others.
LEMMA ClientStep ==
  ASSUME ClientTypes, AckedIsNext, AckedUpdateSurvives, OneWinnerPerRevision,
         NEW c \in Client, NEW e,
         e = [state |-> e.state, where |-> e.where, expected |-> e.expected,
              revision |-> e.revision, settings |-> e.settings],
         e.state \in {"new", "ready", "failed"}, e.where \in Where, e.expected \in Nat \cup {Unchecked},
         e.revision \in Nat, e.state = "new" => e.expected = Unchecked,
         client' = [client EXCEPT ![c] = e], UNCHANGED <<store, onDisk>>
  PROVE  (ClientTypes /\ AckedIsNext /\ AckedUpdateSurvives /\ OneWinnerPerRevision)'
<1>1. /\ DOMAIN client' = Client
      /\ \A d \in Client : client'[d] = e \/ client'[d] = client[d]
      /\ \A d \in Client : client'[d].state = "acked" => client'[d] = client[d]
  BY DEF ClientTypes
<1>2. ClientTypes'
  BY <1>1 DEF ClientTypes
<1>3. AckedIsNext'
  BY <1>1 DEF AckedIsNext
<1>4. AckedUpdateSurvives'
  BY <1>1 DEF AckedUpdateSurvives
<1>5. OneWinnerPerRevision'
  BY <1>1 DEF OneWinnerPerRevision
<1>6. QED
  BY <1>2, <1>3, <1>4, <1>5

LEMMA FailedClientFields ==
  /\ FailedClient = [state |-> FailedClient.state, where |-> FailedClient.where,
                     expected |-> FailedClient.expected, revision |-> FailedClient.revision,
                     settings |-> FailedClient.settings]
  /\ FailedClient.state = "failed" /\ FailedClient.where \in Where
  /\ FailedClient.expected = Unchecked /\ FailedClient.revision \in Nat
  BY DEF FailedClient, NewClient, Where

\* The answer to one client that is not the writer, or to the writer when it has ended, is no
\* success.
LEMMA FailureStep ==
  ASSUME SettingsInv, NEW c \in Client, client' = [client EXCEPT ![c] = FailedClient],
         UNCHANGED <<config, store, onDisk>>,
         writing' = NoWrite \/ (writing = NoWrite /\ UNCHANGED writing)
  PROVE  SettingsInv'
<1>1. (ClientTypes /\ AckedIsNext /\ AckedUpdateSurvives /\ OneWinnerPerRevision)'
  BY ClientStep, FailedClientFields DEF SettingsInv
<1>2. (WritingTypes /\ WritesSuccessor /\ WritesNewRevision /\ WritesRunnable)'
  BY DEF WritingTypes, WritesSuccessor, WritesNewRevision, WritesRunnable
<1>3. DiskIsBehindStore'
  BY DEF SettingsInv, DiskIsBehindStore
<1>4. QED
  BY <1>1, <1>2, <1>3 DEF SettingsInv

\* A client learns the revision of a scope.
LEMMA DescribeKeeps ==
  ASSUME SettingsInv, NEW c \in Client, NEW where \in Where, Describe(c, where)
  PROVE  SettingsInv'
<1> DEFINE e == [state |-> "ready", where |-> where, expected |-> store.scope[where].revision,
                 revision |-> 0, settings |-> Nothing]
<1>1. client' = [client EXCEPT ![c] = e]
  BY DEF Describe
<1>2. store.scope[where].revision \in Nat
  BY MaxRevisionAssumption DEF SettingsInv, DiskIsBehindStore, Document
<1>3. /\ e = [state |-> e.state, where |-> e.where, expected |-> e.expected,
              revision |-> e.revision, settings |-> e.settings]
      /\ e.state = "ready" /\ e.where \in Where /\ e.expected \in Nat /\ e.revision \in Nat
  BY <1>2
<1> HIDE DEF e
<1>4. (ClientTypes /\ AckedIsNext /\ AckedUpdateSurvives /\ OneWinnerPerRevision)'
  BY <1>1, <1>3, ClientStep DEF SettingsInv, Describe
<1>5. writing' = NoWrite /\ UNCHANGED <<config, store, onDisk>>
  BY DEF Describe, Free
<1>6. (WritingTypes /\ WritesSuccessor /\ WritesNewRevision /\ WritesRunnable)'
  BY <1>5 DEF WritingTypes, WritesSuccessor, WritesNewRevision, WritesRunnable
<1>7. DiskIsBehindStore'
  BY <1>5 DEF SettingsInv, DiskIsBehindStore
<1>8. QED
  BY <1>4, <1>5, <1>6, <1>7 DEF SettingsInv

\* An update that passes its checks leaves every chat that could run able to run.
LEMMA CheckedIsRunnable ==
  ASSUME NEW where \in Where, NEW d, Known(where),
         \A w \in Where \ {where} : d.scope[w] = store.scope[w],
         \A values \in Checked(where, d) : ValidTuple(config, values),
         config \in Config,
         NEW c \in Configured(config), Resolves(config, store, c)
  PROVE  Resolves(config, d, c)
<1>1. c \in Where
  BY ConfigAssumption DEF Configured, Where
<1>2. CASE where = Global
  BY <1>2 DEF Checked, Resolves
<1>3. CASE where # Global /\ c = where
  BY <1>3 DEF Checked, Resolves
<1>4. CASE where # Global /\ c # where
  <2>1. d.scope[c] = store.scope[c] /\ d.scope[Global] = store.scope[Global]
    BY <1>1, <1>4 DEF Where
  <2>2. QED
    BY <2>1, SameScopesSameSettings
<1>5. QED
  BY <1>2, <1>3, <1>4

\* An update begins.
LEMMA BeginUpdateKeeps ==
  ASSUME SettingsInv, NEW c \in Client, NEW where \in Where, BeginUpdate(c, where)
  PROVE  SettingsInv'
<1>1. PICK settings \in Posted(where) :
        LET d == Candidate(where, settings) IN
        /\ \A values \in Checked(where, d) : ValidTuple(config, values)
        /\ writing' = [by |-> c, where |-> where, document |-> d, renamed |-> FALSE]
  BY DEF BeginUpdate
<1> DEFINE d == Candidate(where, settings)
<1>2. /\ Document(d)
      /\ NotAhead(store, d)
      /\ d.scope[where].revision = store.scope[where].revision + 1
      /\ \A w \in Where \ {where} : d.scope[w] = store.scope[w]
  BY CandidateIsSuccessor DEF SettingsInv, DiskIsBehindStore, BeginUpdate
<1>3. \A values \in Checked(where, d) : ValidTuple(config, values)
  BY <1>1
<1> HIDE DEF d
<1>4. /\ writing' = [by |-> c, where |-> where, document |-> d, renamed |-> FALSE]
      /\ UNCHANGED <<config, store, onDisk, client>>
  BY <1>1 DEF BeginUpdate, d
<1>5. /\ writing' = [by |-> writing'.by, where |-> writing'.where, document |-> writing'.document,
                     renamed |-> writing'.renamed]
      /\ writing'.by = c /\ writing'.where = where /\ writing'.document = d
      /\ ~writing'.renamed /\ writing'.renamed \in BOOLEAN
  BY <1>4
<1>6. WritingTypes'
  BY <1>2, <1>4, <1>5 DEF WritingTypes, BeginUpdate, Posts
<1>7. WritesSuccessor'
  BY <1>2, <1>4, <1>5 DEF WritesSuccessor, NotAhead, Where
<1>8. WritesNewRevision'
  <2>1. client[c].expected # Unchecked =>
          client[c].where = where /\ client[c].expected = store.scope[where].revision
    BY DEF BeginUpdate, Posts, RevisionMatches, SettingsInv, ClientTypes
  <2>2. \A b \in Client : client[b].state = "acked" /\ client[b].where = where =>
          client[b].revision <= store.scope[where].revision
    BY DEF SettingsInv, AckedUpdateSurvives
  <2>3. store.scope[where].revision \in Nat /\ \A b \in Client : client[b].revision \in Nat
    BY MaxRevisionAssumption DEF SettingsInv, ClientTypes, DiskIsBehindStore, Document
  <2>4. QED
    BY <1>2, <1>4, <1>5, <2>1, <2>2, <2>3 DEF WritesNewRevision
<1>9. WritesRunnable'
  <2>1. ASSUME NEW b \in Configured(config), Resolves(config, store, b) PROVE Resolves(config, d, b)
    BY <1>2, <1>3, <2>1, CheckedIsRunnable DEF SettingsInv, BeginUpdate, Posts
  <2>2. QED
    BY <1>4, <1>5, <2>1 DEF WritesRunnable
<1>10. (DiskIsBehindStore /\ ClientTypes /\ AckedIsNext /\ AckedUpdateSurvives /\ OneWinnerPerRevision)'
  BY <1>4 DEF SettingsInv, DiskIsBehindStore, ClientTypes, AckedIsNext, AckedUpdateSurvives,
             OneWinnerPerRevision
<1>11. QED
  BY <1>4, <1>6, <1>7, <1>8, <1>9, <1>10 DEF SettingsInv

\* The new file takes the place of the old one.
LEMMA RenameKeeps ==
  ASSUME SettingsInv, Rename
  PROVE  SettingsInv'
<1> DEFINE d == writing.document
<1>1. /\ store' = d /\ onDisk' = onDisk \cup {d}
      /\ writing # NoWrite /\ ~writing.renamed
      /\ UNCHANGED <<config, client>>
  BY DEF Rename
<1>2. /\ writing'.by = writing.by /\ writing'.where = writing.where /\ writing'.document = d
      /\ writing'.renamed /\ writing'.renamed \in BOOLEAN
      /\ writing' = [by |-> writing'.by, where |-> writing'.where, document |-> writing'.document,
                     renamed |-> writing'.renamed]
  <2>1. writing = [by |-> writing.by, where |-> writing.where, document |-> d, renamed |-> writing.renamed]
    BY <1>1 DEF SettingsInv, WritingTypes
  <2>2. writing' = [by |-> writing.by, where |-> writing.where, document |-> d, renamed |-> TRUE]
    BY <2>1 DEF Rename
  <2>3. QED
    BY <2>2
<1>3. Document(d) /\ NotAhead(store, d) /\ Document(store)
  BY <1>1 DEF SettingsInv, WritingTypes, WritesSuccessor, DiskIsBehindStore
<1> HIDE DEF d
<1>4. DiskIsBehindStore'
  <2>1. NotAhead(d, d)
    BY <1>3, NotAheadIsReflexive
  <2>2. ASSUME NEW e \in onDisk PROVE Document(e) /\ NotAhead(e, d)
    BY <1>3, NotAheadIsTransitive DEF SettingsInv, DiskIsBehindStore
  <2>3. QED
    BY <1>1, <1>3, <2>1, <2>2 DEF DiskIsBehindStore
<1>5. AckedUpdateSurvives'
  <2>1. ASSUME NEW c \in Client, client[c].state = "acked"
        PROVE  /\ d.scope[client[c].where].revision >= client[c].revision
               /\ d.scope[client[c].where].revision = client[c].revision =>
                    d.scope[client[c].where].settings = client[c].settings
    <3>1. /\ client[c].where \in Where /\ client[c].revision \in Nat
          /\ store.scope[client[c].where].revision >= client[c].revision
          /\ store.scope[client[c].where].revision = client[c].revision =>
               store.scope[client[c].where].settings = client[c].settings
      BY <2>1 DEF SettingsInv, ClientTypes, AckedUpdateSurvives
    <3>2. QED
      BY <1>3, <3>1, MaxRevisionAssumption DEF NotAhead, Document
  <2>2. QED
    BY <1>1, <2>1 DEF AckedUpdateSurvives, SettingsInv
<1>6. WritingTypes' /\ WritesSuccessor' /\ WritesNewRevision' /\ WritesRunnable'
  BY <1>1, <1>2 DEF SettingsInv, WritingTypes, WritesSuccessor, WritesNewRevision, WritesRunnable, d
<1>7. ClientTypes' /\ AckedIsNext' /\ OneWinnerPerRevision'
  BY <1>1 DEF SettingsInv, ClientTypes, AckedIsNext, OneWinnerPerRevision
<1>8. QED
  BY <1>1, <1>4, <1>5, <1>6, <1>7 DEF SettingsInv

\* The writer is told of its success when the store is what it has written, and nothing else is
\* left on the disk.
LEMMA SuccessKeeps ==
  ASSUME SettingsInv, writing # NoWrite, writing.renamed, onDisk' = {store}, Acknowledge,
         writing' = NoWrite, UNCHANGED <<config, store>>
  PROVE  SettingsInv'
<1> DEFINE c == writing.by
           scope == store.scope[writing.where]
           e == [state |-> "acked", where |-> writing.where, expected |-> client[c].expected,
                 revision |-> scope.revision, settings |-> scope.settings]
<1>1. /\ c \in Client /\ writing.where \in Where /\ store = writing.document /\ Document(store)
      /\ client[c].expected \in Nat \cup {Unchecked}
      /\ client[c].expected # Unchecked => scope.revision = client[c].expected + 1
      /\ \A b \in Client : client[b].state = "acked" /\ client[b].where = writing.where =>
           client[b].revision < scope.revision
  BY DEF SettingsInv, WritingTypes, WritesSuccessor, WritesNewRevision, ClientTypes
<1>2. client' = [client EXCEPT ![c] = e]
  BY <1>1 DEF Acknowledge
<1>3. scope.revision \in Nat
  BY <1>1, MaxRevisionAssumption DEF Document
<1>4. /\ e = [state |-> e.state, where |-> e.where, expected |-> e.expected,
              revision |-> e.revision, settings |-> e.settings]
      /\ e.state = "acked" /\ e.where = writing.where /\ e.expected = client[c].expected
      /\ e.revision = scope.revision /\ e.settings = scope.settings
  OBVIOUS
<1> HIDE DEF e
<1>5. /\ DOMAIN client' = Client /\ client'[c] = e
      /\ \A b \in Client \ {c} : client'[b] = client[b]
  BY <1>1, <1>2 DEF SettingsInv, ClientTypes
<1>6. ClientTypes'
  <2>1. ASSUME NEW b \in Client
        PROVE  /\ client'[b] = [state |-> client'[b].state, where |-> client'[b].where,
                                expected |-> client'[b].expected, revision |-> client'[b].revision,
                                settings |-> client'[b].settings]
               /\ client'[b].state \in {"new", "ready", "acked", "failed"}
               /\ client'[b].where \in Where
               /\ client'[b].expected \in Nat \cup {Unchecked}
               /\ client'[b].revision \in Nat
               /\ client'[b].state = "new" => client'[b].expected = Unchecked
    <3>1. CASE b = c
      BY <1>1, <1>3, <1>4, <1>5, <3>1
    <3>2. CASE b # c
      BY <1>5, <3>2 DEF SettingsInv, ClientTypes
    <3>3. QED
      BY <3>1, <3>2
  <2>2. QED
    BY <1>5, <2>1 DEF ClientTypes
<1>7. AckedIsNext'
  <2>1. ASSUME NEW b \in Client, client'[b].state = "acked", client'[b].expected # Unchecked
        PROVE  client'[b].revision = client'[b].expected + 1
    BY <1>1, <1>4, <1>5, <2>1 DEF SettingsInv, AckedIsNext
  <2>2. QED
    BY <2>1 DEF AckedIsNext
<1>8. AckedUpdateSurvives'
  <2>1. ASSUME NEW b \in Client, client'[b].state = "acked"
        PROVE  /\ store.scope[client'[b].where].revision >= client'[b].revision
               /\ store.scope[client'[b].where].revision = client'[b].revision =>
                    store.scope[client'[b].where].settings = client'[b].settings
    <3>1. CASE b = c
      BY <1>3, <1>4, <1>5, <3>1
    <3>2. CASE b # c
      BY <1>5, <2>1, <3>2 DEF SettingsInv, AckedUpdateSurvives
    <3>3. QED
      BY <3>1, <3>2
  <2>2. QED
    BY <2>1 DEF AckedUpdateSurvives
<1>9. OneWinnerPerRevision'
  <2>1. ASSUME NEW a \in Client, NEW b \in Client, a # b,
               client'[a].state = "acked", client'[b].state = "acked", client'[a].where = client'[b].where,
               client'[a].expected = client'[b].expected, client'[a].expected # Unchecked
        PROVE  FALSE
    <3>1. CASE a # c /\ b # c
      BY <1>5, <2>1, <3>1 DEF SettingsInv, OneWinnerPerRevision
    <3>2. ASSUME NEW o \in Client \ {c}, client'[o].state = "acked", client'[o].where = writing.where,
                 client'[o].expected = client[c].expected, client[c].expected # Unchecked
          PROVE  FALSE
      BY <1>1, <1>3, <1>5, <3>2 DEF SettingsInv, AckedIsNext, ClientTypes
    <3>3. QED
      BY <1>4, <1>5, <2>1, <3>1, <3>2
  <2>2. QED
    BY <2>1 DEF OneWinnerPerRevision
<1>10. DiskIsBehindStore'
  BY <1>1, NotAheadIsReflexive DEF DiskIsBehindStore
<1>11. WritingTypes' /\ WritesSuccessor' /\ WritesNewRevision' /\ WritesRunnable'
  BY DEF WritingTypes, WritesSuccessor, WritesNewRevision, WritesRunnable
<1>12. QED
  BY <1>6, <1>7, <1>8, <1>9, <1>10, <1>11 DEF SettingsInv

\* The writes of an update.
LEMMA WriteKeeps ==
  ASSUME SettingsInv, Write
  PROVE  SettingsInv'
<1> DEFINE c == writing.by
<1>1. writing # NoWrite /\ c \in Client
  BY DEF Write, WriteFails, Rename, Sync, SyncFails, SettingsInv, WritingTypes
<1>2. CASE WriteFails \/ SyncFails
  BY <1>1, <1>2, FailureStep DEF WriteFails, SyncFails, ReportFailure
<1>3. CASE Rename
  BY <1>3, RenameKeeps
<1>4. CASE Sync /\ Acknowledge
  BY <1>4, SuccessKeeps DEF Sync
<1>5. CASE Sync /\ ReportFailure
  <2>1. /\ onDisk' = {store} /\ writing' = NoWrite /\ UNCHANGED <<config, store>>
        /\ client' = [client EXCEPT ![c] = FailedClient]
    BY <1>5 DEF Sync, ReportFailure
  <2>2. ASSUME NEW b \in Client, client'[b].state = "acked"
        PROVE  client[b].state = "acked" /\ client'[b] = client[b]
    BY <1>1, <2>1, <2>2, FailedClientFields DEF SettingsInv, ClientTypes
  <2>3. ClientTypes'
    BY <1>1, <2>1, FailedClientFields DEF SettingsInv, ClientTypes
  <2>4. AckedIsNext' /\ OneWinnerPerRevision'
    BY <2>2 DEF SettingsInv, AckedIsNext, OneWinnerPerRevision
  <2>5. AckedUpdateSurvives'
    BY <2>1, <2>2 DEF SettingsInv, AckedUpdateSurvives
  <2>6. DiskIsBehindStore'
    BY <2>1, NotAheadIsReflexive DEF SettingsInv, DiskIsBehindStore
  <2>7. WritingTypes' /\ WritesSuccessor' /\ WritesNewRevision' /\ WritesRunnable'
    BY <2>1 DEF WritingTypes, WritesSuccessor, WritesNewRevision, WritesRunnable
  <2>8. QED
    BY <2>1, <2>3, <2>4, <2>5, <2>6, <2>7 DEF SettingsInv
<1>6. QED
  BY <1>2, <1>3, <1>4, <1>5 DEF Write, Sync

\* The gateway stops, and starts again with one of the documents the disk may have kept.
LEMMA RestartKeeps ==
  ASSUME SettingsInv, Crash \/ PowerLoss
  PROVE  SettingsInv'
<1> DEFINE c == writing.by
<1>1. /\ config' \in Config /\ writing' = NoWrite
      /\ store' \in onDisk /\ onDisk' \in {onDisk, {store'}}
      /\ store' = store \/ onDisk' = {store'}
      /\ UNCHANGED client \/ (c \in Client /\ client' = [client EXCEPT ![c] = FailedClient])
  BY DEF Crash, PowerLoss, Restart, ReportFailure, SettingsInv, DiskIsBehindStore, WritingTypes
<1>2. ASSUME NEW b \in Client, client'[b].state = "acked"
      PROVE  client[b].state = "acked" /\ client'[b] = client[b]
  BY <1>1, <1>2, FailedClientFields DEF SettingsInv, ClientTypes
<1>3. ClientTypes'
  BY <1>1, FailedClientFields DEF SettingsInv, ClientTypes
<1>4. AckedIsNext' /\ OneWinnerPerRevision'
  BY <1>2 DEF SettingsInv, AckedIsNext, OneWinnerPerRevision
<1>5. AckedUpdateSurvives'
  BY <1>1, <1>2 DEF SettingsInv, AckedUpdateSurvives
<1>6. DiskIsBehindStore'
  BY <1>1, NotAheadIsReflexive DEF SettingsInv, DiskIsBehindStore
<1>7. WritingTypes' /\ WritesSuccessor' /\ WritesNewRevision' /\ WritesRunnable'
  BY <1>1 DEF WritingTypes, WritesSuccessor, WritesNewRevision, WritesRunnable
<1>8. QED
  BY <1>1, <1>3, <1>4, <1>5, <1>6, <1>7 DEF SettingsInv

\* The initial state satisfies the invariant of the settings.
LEMMA SettingsInitEstablishes == SettingsInit => SettingsInv
<1> SUFFICES ASSUME SettingsInit PROVE SettingsInv
  OBVIOUS
<1>1. Document(EmptyDocument)
  BY MaxRevisionAssumption DEF Document, EmptyDocument
<1>2. DiskIsBehindStore
  BY <1>1, NotAheadIsReflexive DEF SettingsInit, DiskIsBehindStore
<1>3. ClientTypes
  BY DEF SettingsInit, ClientTypes, NewClient, Where
<1>4. AckedIsNext /\ AckedUpdateSurvives /\ OneWinnerPerRevision
  BY DEF SettingsInit, AckedIsNext, AckedUpdateSurvives, OneWinnerPerRevision, NewClient
<1>5. WritingTypes /\ WritesSuccessor /\ WritesNewRevision /\ WritesRunnable
  BY DEF SettingsInit, WritingTypes, WritesSuccessor, WritesNewRevision, WritesRunnable
<1>6. QED
  BY <1>2, <1>3, <1>4, <1>5 DEF SettingsInit, SettingsInv

\* A step of the clients.
LEMMA ClientsKeep ==
  ASSUME SettingsInv, NEW c \in Client, NEW where \in Where,
         Describe(c, where) \/ BeginUpdate(c, where) \/ Refuse(c, where)
  PROVE  SettingsInv'
<1>1. CASE Refuse(c, where)
  BY <1>1, FailureStep DEF Refuse, Posts, Free
<1>2. QED
  BY <1>1, DescribeKeeps, BeginUpdateKeeps

\* What the rest of the gateway does leaves the settings alone.
LEMMA SettingsUnchanged ==
  ASSUME SettingsInv, UNCHANGED settingsVars
  PROVE  SettingsInv'
  BY DEF settingsVars, SettingsInv, DiskIsBehindStore, ClientTypes, AckedIsNext, WritingTypes,
         WritesSuccessor, WritesNewRevision, WritesRunnable, AckedUpdateSurvives, OneWinnerPerRevision

----
(* Sessions *)

\* A step that does not reach the sessions.
LEMMA SessionsUnchanged ==
  ASSUME SessionInv, UNCHANGED <<authorityVars, chatVars, config>>
  PROVE  SessionInv'
  BY DEF authorityVars, chatVars, SessionInv, SessionTypes, ServedIsBound, RunsAreBound, OpenedOrAdopted,
         NoSharedSession, Running

\* Runs may be over, the others are as they were.
FewerRuns ==
  /\ run' \in [Request -> RunRecord]
  /\ \A r \in Request : run'[r].state \in {"new", "running"} => run'[r] = run[r]

LEMMA OverIsFewer ==
  ASSUME SessionInv, NEW r \in Request, run' = [run EXCEPT ![r] = OverRun]
  PROVE  FewerRuns /\ r \notin Running'
<1> DEFINE over == OverRun
<1>1. over \in RunRecord /\ over.state = "over"
  BY DEF OverRun, NewRun, RunRecord, RunState
<1> HIDE DEF over
<1>2. QED
  BY <1>1 DEF over, SessionInv, SessionTypes, FewerRuns, Running

\* A run that ends, or never starts, takes nothing from the others.
LEMMA FewerKeeps ==
  ASSUME SessionInv, FewerRuns, UNCHANGED <<binding, lost, served, config>>
  PROVE  SessionInv'
<1>1. Running' \subseteq Running /\ \A r \in Running' : run'[r] = run[r]
  BY DEF Running, FewerRuns
<1>2. SessionTypes'
  BY DEF SessionInv, SessionTypes, FewerRuns
<1>3. ServedIsBound' /\ RunsAreBound' /\ OpenedOrAdopted'
  BY <1>1 DEF SessionInv, ServedIsBound, RunsAreBound, OpenedOrAdopted
<1>4. NoSharedSession'
  BY <1>1 DEF SessionInv, NoSharedSession
<1>5. QED
  BY <1>2, <1>3, <1>4 DEF SessionInv

LEMMA NoBindingIsNoTuple == NoBinding \notin Tuples
  BY NamesAssumption DEF Tuples, RuntimeName

\* Binding a session that is not bound keeps what was served.
LEMMA BindKeepsServed ==
  ASSUME SessionInv, NEW s \in Session, NEW t \in Tuples, NEW b,
         binding' = Bound(s, t, b), UNCHANGED lost,
         served' = served \/ (binding'[s] = t /\ served' = [served EXCEPT ![s] = @ \cup {t}])
  PROVE  /\ binding' \in [Session -> Tuples \cup {NoBinding, Torn}]
         /\ \A q \in Session : binding'[q] # binding[q] =>
              q = s /\ b /\ binding[q] = NoBinding /\ binding'[q] = t
         /\ served' \in [Session -> SUBSET Tuples]
         /\ ServedIsBound'
<1>1. /\ binding' \in [Session -> Tuples \cup {NoBinding, Torn}]
      /\ \A q \in Session : binding'[q] # binding[q] =>
           q = s /\ b /\ binding[q] = NoBinding /\ binding'[q] = t
  BY DEF Bound, SessionInv, SessionTypes
<1>2. /\ served' \in [Session -> SUBSET Tuples]
      /\ \A q \in Session : \A u \in served'[q] : u \in served[q] \/ u = binding'[q]
  BY DEF SessionInv, SessionTypes
<1>3. ASSUME NEW q \in Session \ lost, NEW u \in served[q] PROVE u = binding'[q]
  BY <1>1, <1>3, NoBindingIsNoTuple DEF SessionInv, ServedIsBound, SessionTypes
<1>4. QED
  BY <1>1, <1>2, <1>3 DEF ServedIsBound

\* So does it keep the runs, when it is an adoption or nobody is at work in the session.
LEMMA BindKeeps ==
  ASSUME SessionInv, NEW s \in Session, NEW t \in Tuples, NEW b,
         binding' = Bound(s, t, b), UNCHANGED <<lost, config>>, FewerRuns,
         binding[s] = NoBinding /\ b =>
           Legacy(config, t.chat) \/ \A q \in Running' : run[q].session # s,
         served' = served \/ (binding'[s] = t /\ served' = [served EXCEPT ![s] = @ \cup {t}])
  PROVE  SessionInv'
<1>1. /\ binding' \in [Session -> Tuples \cup {NoBinding, Torn}]
      /\ \A q \in Session : binding'[q] # binding[q] =>
           q = s /\ b /\ binding[q] = NoBinding /\ binding'[q] = t
      /\ served' \in [Session -> SUBSET Tuples]
      /\ ServedIsBound'
  BY BindKeepsServed
<1>2. Running' \subseteq Running /\ \A r \in Running' : run'[r] = run[r] /\ run[r] \in RunRecord
  BY DEF Running, FewerRuns, SessionInv, SessionTypes
<1>3. SessionTypes'
  BY <1>1 DEF SessionInv, SessionTypes, FewerRuns
<1>4. RunsAreBound'
  BY <1>1, <1>2 DEF SessionInv, RunsAreBound, RunRecord
<1>5. OpenedOrAdopted'
  BY <1>1, <1>2 DEF SessionInv, OpenedOrAdopted, RunRecord
<1>6. NoSharedSession'
  BY <1>2 DEF SessionInv, NoSharedSession
<1>7. QED
  BY <1>1, <1>3, <1>4, <1>5, <1>6 DEF SessionInv

\* A request continues a session: its binding names the chat, whose lock is free, so that only the
\* run that opened the session may still be in it.
LEMMA ResumeKeeps ==
  ASSUME SessionInv, NEW r \in Request, run[r].state = "new",
         NEW s \in Session, NEW t \in Tuples, NEW e \in RunRecord,
         e.state = "running", e.session = s, e.resumed, e.tuple = t,
         binding' = Bound(s, t, Legacy(config, t.chat)), Bound(s, t, Legacy(config, t.chat))[s] = t,
         ~Busy(t.chat, s), UNCHANGED <<lost, config>>,
         run' = [run EXCEPT ![r] = e], served' = [served EXCEPT ![s] = @ \cup {t}]
  PROVE  SessionInv'
<1> DEFINE b == Legacy(config, t.chat)
<1>0. binding' = Bound(s, t, b) /\ binding'[s] = t
  OBVIOUS
<1> HIDE DEF b
<1>1. /\ binding' \in [Session -> Tuples \cup {NoBinding, Torn}]
      /\ \A q \in Session : binding'[q] # binding[q] =>
           q = s /\ b /\ binding[q] = NoBinding /\ binding'[q] = t
      /\ served' \in [Session -> SUBSET Tuples]
      /\ ServedIsBound'
  BY <1>0, BindKeepsServed
<1>2. t # NoBinding /\ binding'[s] = t /\ (binding[s] = NoBinding \/ binding[s] = t)
  BY <1>0, <1>1, NoBindingIsNoTuple
<1>3. binding[s] = NoBinding => b
  BY <1>0, <1>2 DEF Bound
<1>4. /\ run' \in [Request -> RunRecord] /\ run'[r] = e
      /\ \A q \in Request \ {r} : run'[q] = run[q] /\ run[q] \in RunRecord
  BY DEF SessionInv, SessionTypes
<1>5. Running' = Running \cup {r} /\ r \notin Running
  BY <1>4 DEF Running
<1>6. s # NoSession
  BY NamesAssumption
<1>7. SessionTypes'
  BY <1>1, <1>4 DEF SessionInv, SessionTypes
<1>8. RunsAreBound'
  <2>1. ASSUME NEW q \in Running, run[q].resumed
        PROVE  run[q].session # NoSession /\ binding'[run[q].session] = run[q].tuple
    BY <1>1, <2>1 DEF SessionInv, RunsAreBound, SessionTypes, RunRecord, Running
  <2>2. ASSUME NEW q \in Running
        PROVE  run'[q] = run[q] /\ run[q].tuple # NoBinding
    BY <1>4, <1>5 DEF SessionInv, RunsAreBound, Running
  <2>3. QED
    BY <1>2, <1>4, <1>5, <1>6, <2>1, <2>2 DEF RunsAreBound
<1>9. OpenedOrAdopted'
  <2>1. ASSUME NEW q \in Running, run[q].session # NoSession, ~run[q].resumed
        PROVE  \/ binding'[run[q].session] = NoBinding
               \/ /\ binding'[run[q].session] \in Tuples
                  /\ Legacy(config, binding'[run[q].session].chat)
    BY <1>1, <2>1 DEF b, SessionInv, OpenedOrAdopted, SessionTypes, RunRecord, Running
  <2>2. \A q \in Running : run'[q] = run[q]
    BY <1>4, <1>5 DEF Running
  <2>3. QED
    BY <1>4, <1>5, <2>1, <2>2 DEF OpenedOrAdopted
<1>10. NoSharedSession'
  <2>1. ASSUME NEW q \in Running, run[q].session = s
        PROVE  ~run[q].resumed /\ Legacy(config, t.chat)
    <3>1. ~run[q].resumed
      BY <1>2, <2>1 DEF Busy, SessionInv, RunsAreBound
    <3>2. QED
      BY <1>2, <1>3, <1>6, <2>1, <3>1 DEF b, SessionInv, OpenedOrAdopted
  <2>2. \A q \in Running : q # r /\ run'[q] = run[q]
    BY <1>4, <1>5 DEF Running
  <2>3. QED
    BY <1>4, <1>5, <2>1, <2>2 DEF NoSharedSession, SessionInv
<1>11. QED
  BY <1>1, <1>7, <1>8, <1>9, <1>10 DEF SessionInv

\* A request is admitted, or not.
LEMMA ChatKeeps ==
  ASSUME SettingsInv, SessionInv, NEW r \in Request, Chat_any(r)
  PROVE  SessionInv'
<1>1. PICK chat \in Chat, s \in Session \cup {NoSession}, overrides \in Override, asked \in Authority :
        Chat_(r, chat, s, overrides, asked)
  BY DEF Chat_any
<1> DEFINE runtime == NormalizeRuntime(RawEffective(config, store, chat, overrides).runtime)
           t == Tuple(config, chat, runtime)
           fresh == [state |-> "running", session |-> NoSession, resumed |-> FALSE, tuple |-> t]
           resumed == [state |-> "running", session |-> s, resumed |-> TRUE, tuple |-> t]
<1>2. t \in Tuples /\ t # NoBinding /\ t.chat = chat
  BY <1>1, TupleInTuples DEF Chat_, SettingsInv
<1>3. UNCHANGED <<lost, config>> /\ run[r].state = "new"
  BY <1>1 DEF Chat_, settingsVars
<1>4. \/ Refused(r) /\ UNCHANGED binding
      \/ s = NoSession /\ UNCHANGED <<binding, served>>
           /\ run' = [run EXCEPT ![r].state = "running", ![r].tuple = t]
      \/ s # NoSession /\ binding' = Bound(s, t, Legacy(config, chat)) /\ Refused(r)
      \/ /\ s # NoSession /\ binding' = Bound(s, t, Legacy(config, chat))
         /\ Bound(s, t, Legacy(config, chat))[s] = t
         /\ ~Busy(chat, s)
         /\ run' = [run EXCEPT ![r] = resumed]
         /\ served' = [served EXCEPT ![s] = @ \cup {t}]
  BY <1>1 DEF Chat_, Accepts, RuntimeOf, Values
<1> HIDE DEF t
<1>5. CASE Refused(r) /\ UNCHANGED binding
  BY <1>3, <1>5, OverIsFewer, FewerKeeps DEF Refused
<1>6. ASSUME s = NoSession, UNCHANGED <<binding, served>>,
             run' = [run EXCEPT ![r].state = "running", ![r].tuple = t]
      PROVE  SessionInv'
  <2>1. run[r] \in RunRecord /\ run[r].session = NoSession /\ ~run[r].resumed
    BY <1>3 DEF SessionInv, SessionTypes
  <2>2. /\ run' \in [Request -> RunRecord]
        /\ run'[r].state = "running" /\ run'[r].session = NoSession /\ ~run'[r].resumed /\ run'[r].tuple = t
        /\ \A q \in Request \ {r} : run'[q] = run[q]
    BY <1>2, <1>6, <2>1 DEF SessionInv, SessionTypes, RunRecord, RunState
  <2>3. Running' = Running \cup {r}
    BY <2>2 DEF Running
  <2>4. SessionTypes'
    BY <1>3, <1>6, <2>2 DEF SessionInv, SessionTypes
  <2>5. ServedIsBound' /\ RunsAreBound' /\ OpenedOrAdopted'
    BY <1>2, <1>3, <1>6, <2>2, <2>3 DEF SessionInv, ServedIsBound, RunsAreBound, OpenedOrAdopted, Running
  <2>6. NoSharedSession'
    BY <1>3, <1>6, <2>2, <2>3 DEF SessionInv, NoSharedSession, Running
  <2>7. QED
    BY <2>4, <2>5, <2>6 DEF SessionInv
<1>7. ASSUME s # NoSession, binding' = Bound(s, t, Legacy(config, chat)), Refused(r)
      PROVE  SessionInv'
  <2> DEFINE b == Legacy(config, t.chat)
  <2>1. binding' = Bound(s, t, b) /\ s \in Session
    BY <1>2, <1>7
  <2>2. b => Legacy(config, t.chat)
    OBVIOUS
  <2> HIDE DEF b
  <2>3. QED
    BY <1>2, <1>3, <1>7, <2>1, <2>2, OverIsFewer, BindKeeps DEF Refused
<1>8. ASSUME s # NoSession, binding' = Bound(s, t, Legacy(config, chat)),
             Bound(s, t, Legacy(config, chat))[s] = t, ~Busy(chat, s),
             run' = [run EXCEPT ![r] = resumed], served' = [served EXCEPT ![s] = @ \cup {t}]
      PROVE  SessionInv'
  <2>1. /\ resumed \in RunRecord /\ resumed.state = "running" /\ resumed.session = s
        /\ resumed.resumed /\ resumed.tuple = t
    BY <1>2 DEF RunRecord, RunState
  <2> HIDE DEF resumed
  <2>2. QED
    BY <1>2, <1>3, <1>8, <2>1, ResumeKeeps
<1>9. QED
  BY <1>4, <1>5, <1>6, <1>7, <1>8

\* A run that was given no session opens one that nobody is in.
LEMMA OpenSessionKeeps ==
  ASSUME SessionInv, NEW r \in Request, OpenSession(r)
  PROVE  SessionInv'
<1>1. PICK s \in Session :
        /\ binding[s] = NoBinding
        /\ \A q \in Running : run[q].session # s
        /\ run' = [run EXCEPT ![r].session = s]
  BY DEF OpenSession
<1>2. r \in Running /\ run[r].session = NoSession /\ UNCHANGED <<config, binding, lost, served>>
  BY DEF OpenSession, settingsVars, authorityVars
<1>3. run[r] \in RunRecord /\ ~run[r].resumed /\ s # NoSession
  BY <1>2, NamesAssumption DEF SessionInv, SessionTypes, RunsAreBound
<1>4. /\ run' \in [Request -> RunRecord]
      /\ run'[r].state = "running" /\ run'[r].session = s /\ ~run'[r].resumed /\ run'[r].tuple = run[r].tuple
      /\ \A q \in Request \ {r} : run'[q] = run[q]
  BY <1>1, <1>2, <1>3 DEF SessionInv, SessionTypes, RunRecord, Running
<1>5. Running' = Running
  BY <1>2, <1>4 DEF Running
<1>6. SessionTypes'
  BY <1>2, <1>4 DEF SessionInv, SessionTypes
<1>7. ServedIsBound' /\ RunsAreBound'
  BY <1>2, <1>4, <1>5 DEF SessionInv, ServedIsBound, RunsAreBound, Running
<1>8. OpenedOrAdopted'
  BY <1>1, <1>2, <1>4, <1>5 DEF SessionInv, OpenedOrAdopted, Running
<1>9. NoSharedSession'
  BY <1>1, <1>2, <1>4, <1>5 DEF SessionInv, NoSharedSession, Running
<1>10. QED
  BY <1>6, <1>7, <1>8, <1>9 DEF SessionInv

\* A run ends, and its session is bound before the result is given.
LEMMA SettleKeeps ==
  ASSUME SettingsInv, SessionInv, NEW r \in Request, Settle(r)
  PROVE  SessionInv'
<1> DEFINE s == run[r].session
           t == run[r].tuple
<1>1. /\ run' = [run EXCEPT ![r] = OverRun] /\ r \in Running /\ UNCHANGED <<lost, config>>
      /\ run[r] \in RunRecord /\ t # NoBinding
  BY DEF Settle, settingsVars, SessionInv, SessionTypes, RunsAreBound, Running
<1>2. FewerRuns /\ r \notin Running'
  BY <1>1, OverIsFewer
<1>3. CASE s = NoSession
  BY <1>1, <1>2, <1>3, FewerKeeps DEF Settle
<1>4. CASE s # NoSession
  <2>1. s \in Session /\ t \in Tuples
    BY <1>1, <1>4 DEF RunRecord
  <2>2. /\ binding' = Bound(s, t, TRUE)
        /\ served' = served \/ (binding'[s] = t /\ served' = [served EXCEPT ![s] = @ \cup {t}])
    BY <1>4 DEF Settle, BindResult, Accepts
  <2>3. ASSUME binding[s] = NoBinding, NEW q \in Running' PROVE run[q].session # s
    <3>1. q \in Running /\ q # r
      BY <1>2 DEF FewerRuns, Running
    <3>2. ~run[q].resumed \/ run[q].session # s
      BY <2>3, <3>1 DEF SessionInv, RunsAreBound
    <3>3. ~run[r].resumed
      BY <1>1, <2>3 DEF SessionInv, RunsAreBound
    <3>4. QED
      BY <1>1, <1>4, <3>1, <3>2, <3>3 DEF SessionInv, NoSharedSession
  <2> DEFINE b == TRUE
  <2>4. binding' = Bound(s, t, b)
    BY <2>2
  <2> HIDE DEF b, s, t
  <2>5. QED
    BY <1>1, <1>2, <2>1, <2>2, <2>3, <2>4, BindKeeps
<1>5. QED
  BY <1>3, <1>4

\* Nothing runs after a restart: what was served stays, and what the disk has lost is known as lost.
LEMMA RestartKeepsSessions ==
  ASSUME SettingsInv, SessionInv, KilledAnyTime \/ KilledWhileBinding \/ PowerFails
  PROVE  SessionInv'
<1> DEFINE over == OverRun
<1>1. over \in RunRecord /\ over.state = "over"
  BY DEF OverRun, NewRun, RunRecord, RunState
<1>2. /\ run' = [r \in Request |-> IF r \in Running THEN over ELSE run[r]]
      /\ UNCHANGED served
  BY DEF KilledAnyTime, KilledWhileBinding, PowerFails, RunsKilled
<1> HIDE DEF over
<1>3. /\ run' \in [Request -> RunRecord] /\ Running' = {}
      /\ \A r \in Request : run'[r].state = "new" => run'[r] = run[r]
  BY <1>1, <1>2 DEF SessionInv, SessionTypes, Running
<1>4. /\ binding' \in [Session -> Tuples \cup {NoBinding, Torn}] /\ lost' \subseteq Session
      /\ lost \subseteq lost'
      /\ \A s \in Session \ lost' : binding'[s] = binding[s] \/ binding[s] = NoBinding
  <2>1. CASE KilledAnyTime
    BY <2>1 DEF KilledAnyTime, authorityVars, SessionInv, SessionTypes
  <2>2. CASE KilledWhileBinding
    <3>1. PICK s \in Session : Tear(s)
      BY <2>2 DEF KilledWhileBinding
    <3>2. QED
      BY <3>1 DEF Tear, SessionInv, SessionTypes
  <2>3. CASE PowerFails
    <3>1. PICK gone \in SUBSET {s \in Session : binding[s] # NoBinding} :
            /\ binding' \in [Session -> {NoBinding, Torn} \cup {binding[s] : s \in Session}]
            /\ \A s \in Session : IF s \in gone THEN binding'[s] \in {NoBinding, Torn} ELSE binding'[s] = binding[s]
            /\ lost' = lost \cup gone
      BY <2>3 DEF PowerFails, LoseBindings
    <3>2. binding' \in [Session -> Tuples \cup {NoBinding, Torn}]
      BY <3>1 DEF SessionInv, SessionTypes
    <3>3. QED
      BY <3>1, <3>2 DEF SessionInv, SessionTypes
  <2>4. QED
    BY <2>1, <2>2, <2>3
<1>5. SessionTypes'
  BY <1>2, <1>3, <1>4 DEF SessionInv, SessionTypes
<1>6. ServedIsBound'
  BY <1>2, <1>4, NoBindingIsNoTuple DEF SessionInv, ServedIsBound, SessionTypes
<1>7. RunsAreBound' /\ OpenedOrAdopted' /\ NoSharedSession'
  BY <1>3 DEF RunsAreBound, OpenedOrAdopted, NoSharedSession
<1>8. QED
  BY <1>5, <1>6, <1>7 DEF SessionInv

----
\* The initial state satisfies the invariant.
LEMMA InitEstablishes == Init => IInv
<1> SUFFICES ASSUME Init PROVE IInv
  OBVIOUS
<1>1. SettingsInv
  BY SettingsInitEstablishes DEF Init
<1>2. NewRun \in RunRecord /\ NewRun.state = "new" /\ NewRun.session = NoSession /\ ~NewRun.resumed
  BY DEF NewRun, RunRecord, RunState
<1>3. SessionTypes /\ Running = {}
  BY <1>2 DEF Init, AuthorityInit, SessionTypes, Running
<1>4. ServedIsBound /\ RunsAreBound /\ OpenedOrAdopted /\ NoSharedSession
  BY <1>3 DEF Init, ServedIsBound, RunsAreBound, OpenedOrAdopted, NoSharedSession
<1>5. QED
  BY <1>1, <1>3, <1>4 DEF IInv, SessionInv

\* Every step keeps the invariant.
LEMMA NextKeeps == IInv /\ [Next]_vars => IInv'
<1> SUFFICES ASSUME IInv, [Next]_vars PROVE IInv'
  OBVIOUS
<1> USE DEF IInv
<1>1. ASSUME NEW c \in Client, NEW where \in Where,
             Describe(c, where) \/ BeginUpdate(c, where) \/ Refuse(c, where),
             UNCHANGED <<authorityVars, chatVars>>
      PROVE  IInv'
  <2>1. UNCHANGED config
    BY <1>1 DEF Describe, BeginUpdate, Refuse
  <2>2. QED
    BY <1>1, <2>1, ClientsKeep, SessionsUnchanged
<1>2. CASE Write /\ UNCHANGED <<authorityVars, chatVars>>
  <2>1. UNCHANGED config
    BY <1>2 DEF Write, WriteFails, Rename, Sync, SyncFails
  <2>2. QED
    BY <1>2, <2>1, WriteKeeps, SessionsUnchanged
<1>3. ASSUME NEW r \in Request, Chat_any(r) \/ OpenSession(r) \/ Settle(r)
      PROVE  IInv'
  <2>1. UNCHANGED settingsVars
    BY <1>3 DEF Chat_any, Chat_, OpenSession, Settle
  <2>2. QED
    BY <1>3, <2>1, SettingsUnchanged, ChatKeeps, OpenSessionKeeps, SettleKeeps
<1>4. CASE KilledAnyTime \/ KilledWhileBinding \/ PowerFails
  BY <1>4, RestartKeeps, RestartKeepsSessions DEF KilledAnyTime, KilledWhileBinding, PowerFails
<1>5. CASE UNCHANGED vars
  BY <1>5, SettingsUnchanged, SessionsUnchanged DEF vars, settingsVars
<1>6. QED
  BY <1>1, <1>2, <1>3, <1>4, <1>5 DEF Next

----
(* Theorems *)

\* What is invariant of settings.js, execution-session.js and the admission of chat.js, across
\* crashes and losses of power.
THEOREM Invariant == Spec => []IInv
<1>1. QED
  BY InitEstablishes, NextKeeps, PTL DEF Spec

\* The variables keep their types: revisions stay within those of the file, only clients write.
THEOREM TypeCorrect == Spec => []TypeOK
<1>1. IInv => TypeOK
  BY DEF IInv, SettingsInv, DiskIsBehindStore, Document, WritingTypes, ClientTypes, SessionInv, SessionTypes,
         RunRecord, TypeOK
<1>2. QED
  BY <1>1, Invariant, PTL

\* An update that was acknowledged is never undone, whatever crash or loss of power follows
\* (settings.js:275-276).
THEOREM UpdatesSurvive == Spec => []AckedUpdateSurvives
<1>1. IInv => AckedUpdateSurvives
  BY DEF IInv, SettingsInv
<1>2. QED
  BY <1>1, Invariant, PTL

\* Of the clients that name the same expected revision of a scope one at most succeeds
\* (settings.js:248), also across crashes.
THEOREM OneUpdateWins == Spec => []OneWinnerPerRevision
<1>1. IInv => OneWinnerPerRevision
  BY DEF IInv, SettingsInv
<1>2. QED
  BY <1>1, Invariant, PTL

\* A session is continued under one authority only, unless a loss of power takes its binding
\* (execution-session.js:14-26).
THEOREM AuthorityIsBound == Spec => []OneAuthorityPerSession
<1>1. ASSUME IInv, NEW s \in Session \ lost PROVE Cardinality(served[s]) <= 1
  <2>1. served[s] \subseteq {binding[s]}
    BY <1>1 DEF IInv, SessionInv, ServedIsBound
  <2>2. IsFiniteSet({binding[s]}) /\ Cardinality({binding[s]}) = 1
    BY FS_Singleton
  <2>3. QED
    BY <2>1, <2>2, FS_Subset
<1>2. IInv => OneAuthorityPerSession
  BY <1>1 DEF OneAuthorityPerSession
<1>3. QED
  BY <1>2, Invariant, PTL

\* Two runs are in one session only where one of them has adopted it before it had a binding,
\* under a configuration that never speaks of authority (concurrency.js:16-18, chat.js:118-127).
THEOREM SessionsAreNotShared == Spec => []NoSharedSession
<1>1. IInv => NoSharedSession
  BY DEF IInv, SessionInv
<1>2. QED
  BY <1>1, Invariant, PTL

\* No update takes from a chat that could run its ability to run (settings.js:267-274).
THEOREM ChatsStayRunnable == Spec => UpdatesKeepChatsRunnable
<1>1. ASSUME IInv, [Next]_vars, store' # store, writing' # NoWrite
      PROVE  Rename
  <2>1. CASE Write
    BY <1>1, <2>1 DEF Write, WriteFails, Rename, Sync, SyncFails
  <2>2. CASE \E c \in Client, where \in Where : Describe(c, where) \/ BeginUpdate(c, where) \/ Refuse(c, where)
    BY <1>1, <2>2 DEF Describe, BeginUpdate, Refuse
  <2>3. CASE \E r \in Request : Chat_any(r) \/ OpenSession(r) \/ Settle(r)
    <3>1. UNCHANGED settingsVars
      BY <2>3 DEF Chat_any, Chat_, OpenSession, Settle
    <3>2. QED
      BY <1>1, <3>1 DEF settingsVars
  <2>4. CASE KilledAnyTime \/ KilledWhileBinding \/ PowerFails
    BY <1>1, <2>4 DEF KilledAnyTime, KilledWhileBinding, PowerFails, Crash, PowerLoss, Restart
  <2>5. CASE UNCHANGED vars
    BY <1>1, <2>5 DEF vars, settingsVars
  <2>6. QED
    BY <1>1, <2>1, <2>2, <2>3, <2>4, <2>5 DEF Next
<1>2. IInv /\ [Next]_vars =>
        [writing' # NoWrite => \A c \in Configured(config) :
           Resolves(config, store, c) => Resolves(config, store', c)]_store
  BY <1>1 DEF Rename, IInv, SettingsInv, WritesRunnable
<1>3. QED
  BY <1>2, Invariant, PTL DEF Spec, UpdatesKeepChatsRunnable
====
