# PickleShell in TLA+

PickleShell lets ChatGPT send work to a local machine: a public MCP server
translates tool calls to an HTTP gateway, which runs coding agents in the
workspaces of the configured chats and forwards terminal operations to a private
terminal service. This directory holds the specifications of its concurrent parts,
the TLC configurations that check them on small instances and the TLAPS proofs of
their main invariants. `PROJECT.json` lists the runs, the mutants each property is
tried against, the lines each definition stands for, the hazards and the theorems.

## 1. The system

| component | state | operations | what is hard |
|---|---|---|---|
| request life cycle (`gateway/src/concurrency.js`, `chat.js`) | slot table, three indexes into it, three result buffers | submit, cancel, poll, settle, reap | retries of a key around the end of its run; cancel, reaping and settlement in any order; a submission that fails after it took its slot |
| process supervisor (`runtime/supervisor.js`, `agent.js`) | child and process group, two timers, flags | data, close, error, timeout, cancel | processes that ignore SIGTERM, redirect their output or leave the group; `exit` before `close`; timeout against cancel |
| Codex MCP transport (`runtime/adapters/codex-mcp.js`) | pool of servers, pending calls, timers | run, cancel, time out, answer, recycle | repeated or late answers on a reused server, a dead server in the pool, microtasks between two events |
| agent dispatch and stream adapters (`agent.js`, `runtime/adapters/*`) | events of one run | parse, classify | which of several causes an outcome names |
| execution authority (`execution-profile.js`, `execution-session.js`, `execution/*`) | one binding file per session | resolve, bind, check | who may continue a session when settings, configuration and chats change; a crash between create and write |
| settings store (`settings.js`) | one document with a revision per scope | describe, set, reset | concurrent revisions, failures and crashes around the atomic replace, a global value that breaks a chat |
| file transfer (`file-utils.ts`, `file-transfer.js`) | staging directory, files in a workspace | stage, copy, clean up | partial failure over several files, overwrite and retry, agents in the same directory |
| terminal service (`terminal/src/*`) | terminals, cgroups, output rings, waiters | spawn, write, output, resize, signal, close, reap, shutdown | long polls, failed kills, limits, cursors, restart |
| terminal client (`terminal-client.js`) | one socket per request | request | a write whose outcome is unknown |
| public MCP server (`mcp-server/src`) | staging directories, a request per call | the tools | timers that give up on work that goes on |
| memory MCP, broker and backend (`pickleshell-memory-*`) | memories, audit log, connection slots | memory and management tools | uncertain mutations, slots, check-then-act, three timers in a row |
| release scripts (`deploy/*.sh`) | releases, symlink, state files, units | install, roll back | crash or failure between two steps |
| HTTP layer and configuration (`server.js`, `auth.js`, `config.js`) | the configuration loaded at the start | route, refuse | a configuration that changes between two starts |

How they interact: a tool of the MCP server makes one HTTP request to the gateway. For
`send-chat` it first stages the files in a directory that the gateway copies from. `chat.js`
resolves settings and authority, asks whether the session may be continued, takes a slot of
`concurrency.js`, copies the files, answers the client, launches an agent through `agent.js`
and stores the agent's `cancel` in the slot. The promise of the agent is all the gateway ever
learns of it. `agent.js` either supervises a process or hands the request to `codex-mcp.js`.
Clients poll; nothing is pushed to them. The terminal service is another process behind a Unix
socket. The memory servers form a chain of their own: MCP server, broker, backend.

Everything in Node runs one callback at a time. A step of a model is therefore a
whole handler up to its next `await`, timer or event, never a line of it. There are two
exceptions. A handler that changes the disk is cut at each of its calls, since a crash or the
work of another process can come in between (Settings, ExecutionAuthority, FileTransfer); what
else the gateway does waits for its end (`Free`, `Idle`). The Python servers have threads, and
each of their calls is a step.

## 2. Modules

```
RequestContract   what a client is promised            AgentRun   what a launched run promises
       ^ implements                                        ^ implements      ^ implements
       |                  keeps its agents within          |                 |
GatewayRequests ---------------------------------------> AgentRun      CodexMcpWorkers
                                                        Supervisor

GatewayConfig <- Settings, ExecutionAuthority <- ChatAdmission   what POST /chat decides first
FileTransfer <- SendChat                a send-chat call, from its arguments to the end of its run
OutputRing <- TerminalCalls             a terminal call, from the tool to the service and back
Terminal                                the terminals of the service and their cgroups
Memory                                  a memory call, through MCP server, broker and backend
```

An arrow `A <- B` says that B extends A: the actions of A leave out the variables of B and are
completed there.

* **RequestContract** is abstract: a submission is refused, replayed or run; runs of
  one session never overlap, and a session is locked only while a run of it is on; a key runs
  once; every run ends.
* **AgentRun** is the seam between the gateway and the two ways to run an agent: a run
  ends once; it ends as cancelled only if it was asked to stop and never as a success
  after that; it ends.
* **GatewayRequests** models `concurrency.js` driven by `chat.js`, `POST /cancel` and the
  reads. The variables keep the names of the maps. A request identifier stands for the
  request id and its slot key, both drawn once per `acquire`; a session stands for
  `chatId \0 sessionId`. `chatHandler` awaits nothing, so a submission is one step, with
  one action per answer it can give: `RefuseRequest`, `AnswerActiveDuplicate`,
  `AnswerFinishedDuplicate`, `RejectBusySession`, `FailFileTransfer`, `Accept`. `Settle` is the continuation of the
  agent's promise (three paths of `chat.js:262-320`, which change the state alike),
  `CancelRequest` the cancel route, `Poll` the reaping that any read begins with, and
  `RequestStatus` and `SessionStatus` are the state which the reads by request id and by session
  id then tell. `BecomeStale` and `BecomeOld` let time pass. A key is an idempotency key in the scope of the whole
  gateway, as in the code: it is not qualified by the chat. `UncheckedKey` are the keys
  that `chat.js:145` does not look up although `acquire` indexes them.
* **Supervisor** models one call of `supervise()` over a tree of processes. Who ignores
  SIGTERM (`Stubborn`), holds no pipe (`Quiet`) or left the group (`Escaped`) are
  constants. The death of the leader hangs up processes that left its group, because
  `opencode-run.sh` runs the agent under `script`, which leads a terminal session.
* **CodexMcpWorkers** models `runRequest()` over the pool. `verdict` is what an event has
  resolved or rejected and `Settle` the continuation of the `await`, which runs before
  the next event (`MicrotasksDone`), but after the other lines of the same chunk, as in
  Node. A worker has at most one pending call because the calls of its one request
  follow one another; that this stays true is checked (`OneRequestPerWorker`).

* **Terminal** models the terminal service as one program beside the processes of its
  terminals. `state` is `t.state`, with `none` for an identifier not yet drawn and `lost`
  for one the map no longer has; `kill` is how far the `killAndRemove` of the terminal's
  cgroup has come, and is also its `closePromise` (`failed` is a rejected one, which stays).
  The launcher joins the cgroup with its own action, `Join`: nothing orders it with the
  service. `CloseAll` is what a close does before its first `await`, for a client, the
  reaper and the shutdown alike, and `Notified` wakes the parked calls and gives their
  answers, which Node does in the microtasks of the same event. `Crash` loses everything
  but `cgroup` and `process`, and `Start` begins with the cleanup of what is there.
  Time is one bit per terminal, whether the TTL has passed since the last renewal. A
  process stays in the cgroup it was born in; who may spawn, which chat a terminal belongs
  to and what is written only refuse or are data.
* **OutputRing** models `ring.js` with a client that goes on from `next_cursor`. A byte is
  its place in the stream of the PTY, so that what the client received can be compared
  with what was written; the parts keep the code's cursors beside that place.
* **TerminalCalls** composes that ring with the path of a call. `at` is where the call is: with
  the gateway (`posted`), in a socket of its own (`sent`), returned. `line` are the requests in
  a socket that the service has not handled, which outlive the gateway's interest in them: that
  is what makes a write uncertain. Each operation of `service.js` is one action, because each
  answers before its next `await` or, for a long poll and a close, ends in one event; what
  happens between is in Terminal. All spawns carry one key. A caller repeats what failed, except
  a write, and a reader goes on from its cursor.
* **GatewayConfig**, **Settings**, **ExecutionAuthority** and **ChatAdmission** are what
  `chatHandler` does before it takes a slot, and what it does to the binding when the run has
  ended. A configuration is what `config.json` says: a part that may be absent is a function
  whose domain holds what is given, so that a default is a `Lookup`. `Inherited` and
  `RawEffective` are the layers of `rawEffective()`, from defaults to overrides. An update of
  `settings.js` is `BeginUpdate`, `Rename`, `Sync` and the failures of each; `onDisk` is the set
  of documents one of which a loss of power leaves. `binding` is what each session's file
  holds, `Torn` when the process ended between create and write, of an opener or of the adoption
  of a session. `Chat_` either refuses or goes through the whole admission. `served` is history: the
  tuples of chat, workspace, runtime and authority a session was continued under.
* **FileTransfer** and **SendChat** follow a call of send-chat. `tool` is the handler in the MCP
  server, `request` and `answer` its HTTP request, `slot` the gateway's table, cut down to what
  a user who polls is told. A session in use is answered like an active run of the same key
  (`RefuseBusySession`, `AnswerTwin`), because the tool says the same of both. Of the errors a
  call can end with, "refused" is one that names a status of the gateway (`GatewayError`), and
  "failed" any other throw, which promises nothing. `ranHere` is history: the calls launched
  since the gateway was last started, whose keys it therefore knows. The copy is one step per system call that another process can see:
  fill the temporary file, flush, rename or link, unlink. `workspace` names who put a file
  under each path, `Agent` for anything an agent did.
* **Memory** follows a call of a memory tool. `conn` is its connection to the broker and the
  thread that serves it, `job` its request at the backend, between whose check and act other
  threads run. Each server has its timer (`Timeout`, `ReadDeadline`, `UpstreamTimeout`) and
  none tells the next that it gave up. A memory is its scope and the last call that changed
  it; `changes`, `seen` and `recorded` are history. The engine (mem0) is external: it may infer
  no memory, refuse, or throw at any time.

The `MC*` modules give the instances for TLC: arguments, policies, configurations and symmetry.
Each `*_proofs` module extends the module it is named after, and holds its inductive invariant, the
lemmas and the theorems.

## 3. Runs

| run | instance | question and answer |
|---|---|---|
| `requests` | 3 requests, 1 session, 1 checked and 1 unchecked key, fair settlement | Do the locks of sessions and keys hold until the agent has gone, is what was accepted always answerable, do the reads by both ids tell what the run is at, is no lock left behind, is this the request contract, are the agents used within their interface? Yes. |
| `requests_ttl` | 2 requests | Are records dropped after 24 hours? No: their age is NaN (finding 1). |
| `supervisor` | leader, stubborn tool, stubborn quiet job, escaped quiet daemon, 3 lines | Is a stop enforced, is nothing lost, does the outcome name its cause, does the run end? Yes. |
| `supervisor_orphan` | leader and one stubborn quiet job, which is there before the cancel (`SpecCancelledLast`) | Is the group empty after a cancelled run? No (finding 2). |
| `codex_safe` | 3 requests, 2 servers, 2 authorities | Is a server ever shared, crossed, or handed on when it cannot serve? No. |
| `codex_live` | 2 requests, 2 servers, fair loop | Does a closed server go, does every request end? Yes. |
| `terminals` | 2 terminals, limit 1, 1 job each, 1 key, 1 reader, 1 byte of output | Does anything of a closed terminal or a crashed instance run on, does the limit hold, is a wakeup lost, does the service always stop and the TTL always act? No, yes, no, yes. |
| `terminal_kill` | the same | Has a close that ended killed whatever still runs? No (finding 3). |
| `terminal_calls` | a spawn, a reader, one other call; ring of 2, chunks of 1 and 2, 4 bytes; 1 restart of the service, any of the gateway | Is what the gateway says of a write true, does a key start one shell, is a reader told of all it misses, does every call return? Yes. |
| `admission` | 2 updates and 2 requests over 2 chats and 1 session; implicit, explicit and unreadable configuration; 2 file revisions | Does an acknowledged update survive, does one of two rivals win, do updates leave the chats runnable, has a session one authority and one run at a time? Yes, but where the configuration never speaks of authority and a session without a binding yet is adopted while its run goes on. |
| `send_chat` | two of three calls in one session: one with 2 files, one with 1 under the same key, one without key or files; 1 restart of the gateway | Are files whole and complete when the agent starts, is nothing overwritten without leave, are the answers true, does a retry start nothing, is the end told? Yes. |
| `memory` | 2 calls out of 17 kinds by 5 callers, 1 stranger, 1 connection slot, 3 ids, 1 restart | Are the answers to mutations true, are scopes kept, is each change on record, does the broker serve again? Yes. |

Bounds. Three requests are the fewest with a run, a second that competes with it and a
third that arrives after one of them; the invariants speak of pairs. A request names the
session or none, and the checked key, the unchecked one or none, so that two of them agree in
one and differ in the other; only one of the three has a record that grows old (`MayAge`), which
is first, last or between the others. Four processes give each of the roles that differ, and three lines
a line before, in and after the last chunk. Three Codex requests over two servers force reuse,
refusal to reuse and recycling; a server that nobody read from holds one line (`MaxWire = 1`),
so a second line of a chunk follows the first before its continuation runs. Two terminals under
a limit of one are what it takes to spawn beside one that closes, has exited or was left by a
crash, and one key and one reader meet every state of them. The ring turns over twice and every
chunk is cut at every place. Two updates and two requests are a pair of rivals each, and two
revisions (`MaxRevision`) let one overtake the other. Two files are the fewest of which the
second can fail; one may overwrite and one may not. Of three calls two come (`MaxCalls`), a pair under one key or
a pair of one session, in either order. Two memory calls race for one memory between
the check and the act of each, one slot makes every stranger matter. One restart
(`MaxRestarts`, `MaxLife`, `MaxStops`) cuts every step once. The number of requests, sessions,
keys, processes, lines, terminals and readers is no bound in the theorems.

Deadlock is checked in the gateway runs, where `Poll` is always possible, and in the
terminal runs, where the service can always be started or crash. The other models stop when
their one run, or their bounded set of calls and restarts, is over.

Fairness. `GatewayRequests` assumes that a launched agent settles: what `AgentRun` promises
and the other two modules show. `Supervisor` assumes that the event loop serves timers and
events and that a signalled process dies; a process that is not signalled may run for ever,
so termination rests on the timeout. `CodexMcpWorkers` assumes only the loop: servers may
hang and ignore SIGTERM. `Terminal` assumes that the timers of the service fire and that a
process killed with its cgroup dies; a launcher need not join and a shell need not exit.
`TerminalCalls` assumes that the gateway connects and its timer fires, and nothing of the
service. `SendChat` assumes that the gateway goes on with a copy, that runs settle and that the
tool returns; `EndIsTold` is a promise to a user who polls, so there, and only there, polling is
assumed too. `Memory` assumes the timers of the MCP server and the broker and the progress of
the broker's threads, and nothing of the backend or of strangers. `admission` states no fairness.

## 4. Proofs

`GatewayRequests_proofs` proves, for any sets of requests, sessions and keys, the type
invariant, `OneRunPerSession`, `KeyRunsOnce`, `AcceptedIsAnswerable`, `IndexesMatchSlots`,
`CancellingIsSignalled`, `NoEarlyRelease`, and the safety part of the refinement of
RequestContract. What the invariant needs beside the properties of the run, that a duplicate
names the run of its key, that the result buffers agree with the requests they name and that a
slot marked cancelling has had its agent signalled, is stated in the proof module.
`AcceptedIsAnswerable` is stated over what the two reads tell: never that a launched request is
unknown, that it is on exactly while its agent lives, cancelling only once the agent was
signalled, completed only once it settled. `OneRunPerSession` and `KeyRunsOnce` are not
inductive: that a session is free says nothing of agents unless the index agrees with the slots
and the slots with the agents. The inductive invariant adds exactly that: indexes match slots,
slots match live agents, launched requests hold a slot or a record, and the record buffers name
launched requests of the same session and key.

`Supervisor_proofs` proves, for any process tree, the type invariant, `StopIsEnforced`,
`CompletedSawEverything`, `ResultMatchesCause` and the safety part of AgentRun. Its
invariant adds what the timers are armed for: an unsettled run that was neither cancelled
nor timed out still has its timeout, and once the timeout fired no descendant can be born
in the group, since every member that could fork has been killed.

`Terminal_proofs` proves, for any number of terminals, jobs, keys and readers and any limit,
the type invariant, `ClosedMeansGone`, `NoLostWakeup`, `ReadyMeansClean` and
`ShellsWithinLimit`. The invariant adds that a process is in a cgroup that is there, so
that a removed one has none; that a cgroup which is there while the service serves belongs
to a terminal it knows or never held a process; and that an exited terminal has no shell.
The limit then follows for `Occupied`, the terminals whose shell runs or whose launcher can
still become it: while the service serves they are among those `spawn` counts.

`GatewayRequests_proofs` also proves `AgentsKeepTheirInterface`: in each step each agent is
launched, stopped, ended or left alone as AgentRun allows. The point of the proof is in `Settle`:
`complete()` stores nothing when the slot is gone, so the record is the outcome the run ended with
only because slots are held until then. With the same theorem for Supervisor and for
CodexMcpWorkers both sides of the seam hold for every value of the constants, liveness apart.

`CodexMcpWorkers_proofs` proves, for any number of requests, servers and authorities,
`OneRequestPerWorker`, `OwnAuthority`, `AnswersOwnCall` and the safety part of AgentRun. The
invariant says who holds what: a running request holds a server that is not idle and was started
for its authority, no two hold the same, a server's pending call belongs to the request that holds
it and that still waits, and a verdict "completed" was given for the request's own call. Without
the first two a late line of a server would be an answer to anybody; `OwnAuthority` is not
inductive without the idle servers being ready and free of calls.

`ChatAdmission_proofs` covers the settings, the bindings and the admission, for any number of
clients, requests, chats and sessions and any configurations: `AckedUpdateSurvives`,
`OneWinnerPerRevision`, `OneAuthorityPerSession`, `NoSharedSession` and the action property
`UpdatesKeepChatsRunnable`. Every document that a loss of power may leave (`onDisk`) is behind the
store in each scope or equal to it there, and the document being written is the store's successor
with a revision above all that anybody was told: so what was acknowledged is in every document that
can survive, and of two rivals with one expectation only one can find it. For the sessions the
invariant adds that what a session was served under is what it is bound to, and that while the run
that opened a session goes on only an adoption binds it, which is the exception `NoSharedSession`
names. It takes a configuration that leaves authority implicit, and holds for any session that is
not bound yet, one of an earlier release or one whose first run has not ended.

`SendChat_proofs` proves, for any calls, files, keys and number of restarts, `LaunchedWithItsFiles`,
`FilesAreWhole`, `AnswersAreTrue`, `KeepsWhatIsThere` and `RetryStartsNothing`. The invariant
follows the loop of the copy: at file `i` the files before it are placed, a file is linked or
renamed only once flushed, and a copy is only on for a request that was taken, not launched, and
whose key nobody works for. What is said of a call is kept true by `Refused`: a call that is told
"refused" was not launched and no request of it is on the way. `RetryStartsNothing` is about each
step, and the guard of `Acquire` speaks of the table only; the invariant ties the two together:
whatever was launched since the gateway started (`ranHere`) has its place in the table, through
cancelling and settling, and a copy is never on for a key with a twin in `ranHere`.

`TerminalCalls_proofs` proves, for any number of calls, restarts and terminals and any `Limit`, the
type invariant, `SpawnedOnce` and `WriteAnswersAreTrue`. The latter rests on `WritesAreSentOnce`: a
write in a socket is not typed yet, and none is sent twice. `RingKeepsWhatItCan` states for
chunks of every length that the ring's parts join without a gap, end at the cursor, and hold as much
as `Limit` allows. `NothingIsMissed` states `NothingMissedSilently` under two hypotheses that are
written into the theorem. `ShortChunks`: no chunk is longer than the ring; the code does miss bytes
silently otherwise (section 6), so without it the theorem is false. `OneReader`: one call reads
output; two that read from the same cursor at once are each given the bytes, and the single
`received` of the model would hold them twice. The invariant makes the stream before the cursor the
sum of what was received and what was reported missed, and says from which cursor the read in
flight goes on. That a removal leaves the ring full needs the first part beyond a cursor, hence
that a non-empty set of numbers has a least one; the proof derives it from the well-founded
ordering of finite sets.

`Memory_proofs` proves, for any calls, principals, memories and connections and any policy that the
broker accepts, `MutationAnswersAreTrue`, `OnlyGrantedScopes`, `EveryChangeOnRecord` and
`SlotsAreCounted`, which says that the free connection slots and the running threads make up the
limit. A memory's scope is checked before it is changed, with other threads between; the invariant
holds the check against the scopes that never change, says which calls a memory carries the mark
of, and that a request the backend works on was passed on by a broker thread that will still put it
on record. `Hopeless` is what an answer that is not called uncertain promises: the call left no mark
and nothing of it is on its way.

Assumptions are the named `ASSUME`s of the modules: the null values are outside their sets,
the process sets are subsets, the terminals are finitely many, a call has a finite list of files,
the policy is one that the broker loads, and bounds are numbers. TLC evaluates each on a
run. They describe the encoding and the configurations the programs accept, and nothing of their
behaviour.

The proofs changed the models where those were wrong or vague. `TerminalCalls` forgot the
arguments of a call that was given up and repeated while its first request was still in a socket,
so that a late spawn or close was never handled; they are now kept until the socket is read.
Two overlapping `CASE`s of Memory left open which refusal a call gets; they follow the order of the
code's checks now. The eviction of OutputRing is the loop of `ring.js:11-17` instead of a filter.

Model-checked only:

* Liveness, since temporal reasoning under fairness and ENABLED are out of the prover's reach:
  `ImplementsContract` and `ImplementsAgentRun` beyond their safety parts, `ClosedServersExit`,
  `StopEnds`, `IdleIsClosed`, `EndIsTold`, `CallsReturn` and `ServedAgain`.
* The findings: a property that is violated has no theorem.

## 5. Findings

1. Records are never dropped: `reapStale` subtracts an ISO string from a number.
2. A cancelled run can leave a process of its group alive: `close` of the pipes disarms the
   kill timer.
3. A close that overtakes the launcher kills nobody. If the launcher joins before the cgroup
   is removed, the close gives up after its five seconds, the shell runs on in a terminal
   that stays `closing`, and neither the reaper nor the shutdown tries again. The terminal
   counts against the limit until the service is restarted, which does clean it up.

## 6. Noticed, and not run

* A submission that fails on its files has already deleted the last result of its session:
  `acquire` drops it (`concurrency.js:126-128`) and the 400 only releases the slot
  (`chat.js:211-219`).
* Of a chunk longer than the ring the beginning is cut before its length is added to the cursor
  (`ring.js:8-10`), so a reader is not told, although `docs/terminal-pty-design.md:164` says that
  missing bytes are never passed over. With the default ring of 1 MiB no chunk of a PTY is that
  long; the policy allows any size. `Chunk` of the run stays within `Limit`.
* A gateway that is restarted under a write makes the tool answer `terminal_unavailable`
  (`gateway-client.ts:133-135`), which the design explains as "Gateway cannot reach the Terminal
  service" (`docs/terminal-pty-design.md:452`), though the write may have been typed. The
  property `WriteAnswersAreTrue` speaks of the gateway's answers and leaves this one out
  (`gateway_lost`).
* `terminal-client.js:25-31` does not know `terminal_unavailable` among the errors of the
  service, so that of a service that stops (`service.js:27`) becomes `internal_error`, 500.
* A memory that is deleted while it is updated makes the backend answer 404 after the update was
  done (`server.py:309-313`), which is not called uncertain: the later deletion leaves nothing of
  it behind, and `MutationAnswersAreTrue` says so.
* The idempotency table is in the memory of the gateway: a retry after its restart runs again
  and copies its files again, though `send-chat.ts:86` promises the cached result for 24 hours.
* The tool drops the `request_id` that the gateway gives for an active run of the same key
  (`chat.js:153`, `send-chat.ts:189-201`), so its caller cannot tell that run from another one
  in the same session. `AnswersAreTrue` says of "busy" what is true of both.
* `codex-mcp.js:209,219,319` write to the standard input of a server that has no `error`
  listener. An EPIPE between the death of the server and its `exit` event is an uncaught error
  and would end the gateway. `WriteFailed` models the errors that the code does catch.
* An update of the settings whose flush of the directory fails is reported as failed although
  the new document is in place (`settings.js:86-93`): a client must read before it tries again.
* Binding files are not flushed (`execution-session.js:19-24`): after a loss of power a session
  may be adoptable by anybody or by nobody. `OneAuthorityPerSession` leaves those sessions out.
* `docs/api.md` lists the answers of a cancel as `cancelled`, `already_completed` and
  `not_found`, the code answers `cancelling` and `already_cancelling`; `docs/roadmap.md:87`
  lists cancel cleanup as open work, while the slot is already held until the agent settles
  (`NoEarlyRelease`).
* `release.sh`: a failure of `prepare_service_paths` after the activation exits without
  `restore_previous`, unlike what `docs/deployment.md:108-110` describes.

## 7. Not modelled

* Parsing of agent output and prompt building are conversions; progress events and metadata
  change no decision. Redaction, digests and timestamps of the memory servers likewise.
* Token comparison and the rate limiter of the HTTP layer keep nothing the properties speak of.
* Failures that would only add a second way to a state the models reach: a failing check or write
  of `cgroup.kill` and read of `cgroup.events` (`cgroup.js:88,97-101`) leave a close where a late
  `Join` and `GiveUp` leave it, and `terminal-client.js:63` takes a line that cannot be parsed for
  an unavailable service, which sends nothing but `JSON.stringify` lines. A gateway that ends by
  itself (the unlistened error of section 6) is the crash of the models that have one.
* A `print` of the broker that fails while it records a request (`server.py:328`): the change
  would not be on record, and `EveryChangeOnRecord` takes the standard output of the broker to be
  writable. A body that is within the limit until the broker adds the scope gets the 413 later in
  the code than in `Refusal`; either way nothing was sent on.
* A `config.json` with a key given twice stops the gateway at its start (`parse-config.js`), so it
  is no `Config`.
* `shutdownAll` of the Codex transport is called by tests only.
* The descriptors with which `file-transfer.js` walks a path, and the file modes of every
  component: a path stands for what it resolves to.
* The broker's mode for one legacy token, its administrative status, policy and inventory reads,
  and the readiness probes: they only read.
* A connection to the terminal service that carries several requests: the gateway never makes one.
* The release scripts: long sequences of package, unit and mode changes of a host, guarded by
  tests of that host. A model of them would be a model of systemd and the file system, with
  little of the repository in it. Their crash windows are listed among the hazards.

## 8. What could follow

An abstract life of a terminal for Terminal and TerminalCalls to implement, so that both rest on
one interface as the two ways to run an agent do; an abstract store of memories and one of files,
for Memory and SendChat to implement in the same way; a proof that the copy of FileTransfer
terminates in one of its answers, which needs a variant and not fairness.
