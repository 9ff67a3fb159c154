---- MODULE TerminalCalls ----
(***************************************************************************)
(* A call of a terminal tool, from its arguments to what the tool returns: *)
(* the MCP tool (mcp-server/src/tools/terminal-*.ts, gateway-client.ts),   *)
(* the route of the gateway (gateway/src/server.js), its socket to the     *)
(* terminal service (gateway/src/terminal-client.js), and the handler      *)
(* there (terminal/src/server.js, service.js, validation.js, policy.js)    *)
(* with the output buffer of the terminal.                                 *)
(*                                                                         *)
(* Each call has a socket of its own.  The gateway may give up on it while *)
(* the service has not yet read the request, and either side may be        *)
(* restarted.  All spawns are made under one key, so that an instance of   *)
(* the service has at most one terminal, whose buffer is that of           *)
(* OutputRing.  The limit on terminals and what becomes of the processes   *)
(* of a terminal are in module Terminal; here one runs until it ends.      *)
(***************************************************************************)
EXTENDS OutputRing, FiniteSets

CONSTANTS Call,
          Options,          \* the arguments each call may be made with
          NoTerminal, NoArgs, NoSpawn,
          MaxColumns, MaxData, MaxWait,
          Executable, Environment, Directory,     \* what the policy of the service allows
          MaxLife           \* bound on restarts of the service

Asked == UNION {Options[c] : c \in Call}

ASSUME NamesAssumption ==
  /\ MaxLife \in Nat
  /\ NoTerminal \notin Nat
  /\ NoSpawn \notin [args : Asked, terminal : Nat]

VARIABLES at,          \* where each call is
          args,        \* what it asks for, of which terminal and from which cursor
          code,        \* how the gateway, and then the tool, answers it
          line,        \* calls whose request is in a socket, not yet handled
          terminals,   \* the terminals of this instance of the service, and of those before
          spawned,     \* what the service remembers under the key
          typed,       \* the writes whose bytes were given to a terminal
          known,       \* the terminal the client works with
          life         \* restarts so far

callVars == <<at, args, code>>
serviceVars == <<ringVars, line, terminals, spawned, typed>>
vars == <<callVars, serviceVars, readerVars, known, life>>

Place == {"idle", "posted", "sent", "returned"}
InFlight == {"posted", "sent"}
Code == {"none", "ok", "invalid_request", "terminal_not_found", "idempotency_conflict",
         "not_allowed", "terminal_not_writable", "terminal_closed", "terminal_unavailable",
         "terminal_write_outcome_unknown", "gateway_lost"}

Asking == [asked : Asked \cup {NoArgs}, terminal : Nat \cup {NoTerminal}, cursor : Nat]
Terminal == [state : {"running", "exited", "closed"}, life : 0 .. MaxLife]

TypeOK ==
  /\ at \in [Call -> Place]
  /\ args \in [Call -> Asking]
  /\ code \in [Call -> Code]
  /\ line \subseteq Call
  /\ terminals \in Seq(Terminal)
  /\ spawned \in {NoSpawn} \cup [args : Asked, terminal : DOMAIN terminals]
  /\ typed \subseteq Call
  /\ known \in {NoTerminal} \cup DOMAIN terminals
  /\ life \in 0 .. MaxLife
  /\ cursor \in Nat

Init ==
  /\ NewRing
  /\ NewReader
  /\ at = [c \in Call |-> "idle"]
  /\ args = [c \in Call |-> [asked |-> NoArgs, terminal |-> NoTerminal, cursor |-> 0]]
  /\ code = [c \in Call |-> "none"]
  /\ line = {}
  /\ terminals = <<>>
  /\ spawned = NoSpawn
  /\ typed = {}
  /\ known = NoTerminal
  /\ life = 0

----
(* Arguments *)

\* The schemas of the tools, and the same ranges in validation.js.
InRange(a) ==
  CASE a.op = "spawn" -> a.cols \in 1 .. MaxColumns
    [] a.op = "write" -> a.bytes \in 1 .. MaxData
    [] a.op = "output" -> a.max_bytes \in Nat \ {0} /\ a.wait_ms \in 0 .. MaxWait
    [] a.op = "resize" -> a.cols \in 1 .. MaxColumns
    [] a.op \in {"signal", "close"} -> TRUE

\* What only the service knows.
Allowed(a) == a.executable \in Executable /\ a.env \subseteq Environment /\ a.cwd \in Directory

----
(* The MCP tool *)

Goes(c, place) == at' = [at EXCEPT ![c] = place]
Answers(c, place, what) == Goes(c, place) /\ code' = [code EXCEPT ![c] = what]

\* A call names the terminal the client knows; output goes on from its cursor.
Request(a) ==
  [asked |-> a,
   terminal |-> IF a.op = "spawn" THEN NoTerminal ELSE known,
   cursor |-> IF a.op = "output" THEN cursor ELSE 0]

Invoke(c) ==
  /\ at[c] = "idle"
  /\ c \notin line
  /\ \E a \in Options[c] :
       /\ InRange(a)
       /\ a.op # "spawn" => known # NoTerminal
       /\ args' = [args EXCEPT ![c] = Request(a)]
  /\ Goes(c, "posted")
  /\ UNCHANGED <<code, serviceVars, readerVars, known, life>>

\* What the schema refuses is sent nowhere.
Reject(c) ==
  /\ at[c] = "idle"
  /\ c \notin line
  /\ \E a \in Options[c] :
       /\ ~InRange(a)
       /\ args' = [args EXCEPT ![c] = [asked |-> a, terminal |-> NoTerminal, cursor |-> 0]]
  /\ Answers(c, "returned", "invalid_request")
  /\ UNCHANGED <<serviceVars, readerVars, known, life>>

\* The tool returns what the gateway answers; when the connection to the gateway breaks, "gateway_lost"
\* here, it returns terminal_unavailable (gateway-client.ts:133-135).
\* Output is asked for again and again, and what failed is tried again unless it is a write.
Repeats(c, what) == args[c].asked.op = "output" \/ (args[c].asked.op # "write" /\ what # "ok")

\* The gateway answers and the tool returns; a call that is to be repeated is ready for it.  What it
\* was made with may still be in a socket, where the service reads it later.
Returns(c, what) ==
  /\ IF Repeats(c, what) THEN Answers(c, "idle", "none") ELSE Answers(c, "returned", what)
  /\ UNCHANGED args

----
(* The gateway *)

\* The chat has no terminal, or the token is wrong.
NotServed(c) ==
  /\ at[c] = "posted"
  /\ Returns(c, "terminal_not_found")
  /\ UNCHANGED <<serviceVars, readerVars, known, life>>

\* A socket of its own, on which the request is written.
Connect(c) ==
  /\ at[c] = "posted"
  /\ Goes(c, "sent")
  /\ line' = line \cup {c}
  /\ UNCHANGED <<args, code, ringVars, terminals, spawned, typed, readerVars, known, life>>

GiveUpOnAny(c) ==
  /\ at[c] \in {"posted", "sent"}
  /\ Returns(c, "terminal_unavailable")
  /\ UNCHANGED <<serviceVars, readerVars, known, life>>

NeverGivesUp(c) ==
  /\ at[c] = "posted"
  /\ Returns(c, "terminal_unavailable")
  /\ UNCHANGED <<serviceVars, readerVars, known, life>>

\* An error of the socket, or the timer, which an ended connection is left to.
GiveUp(c) ==
  /\ at[c] \in {"posted", "sent"}
  /\ Returns(c, IF args[c].asked.op = "write" /\ at[c] = "sent" THEN "terminal_write_outcome_unknown"
                            ELSE "terminal_unavailable")
  /\ UNCHANGED <<serviceVars, readerVars, known, life>>

----
(* The service *)

\* The answer reaches a gateway that still waits for it, or is lost on the way to the tool.
Responds(c, what) == (at[c] = "sent" /\ Returns(c, what)) \/ UNCHANGED callVars

\* A client that is given a terminal it did not know starts to read from 0.
RespondsWithTerminal(c, t) ==
  \/ /\ at[c] = "sent"
     /\ Returns(c, "ok")
     /\ known' = t
     /\ IF t = known THEN UNCHANGED readerVars ELSE cursor' = 0 /\ received' = <<>> /\ missed' = 0
  \/ UNCHANGED <<callVars, known, readerVars>>

RespondsWithOutput(c, read) ==
  \/ /\ at[c] = "sent"
     /\ Returns(c, "ok")
     /\ IF args[c].terminal = known THEN Take(read) ELSE UNCHANGED readerVars
  \/ UNCHANGED <<callVars, readerVars>>

Handles(c, op) ==
  /\ c \in line
  /\ args[c].asked.op = op
  /\ line' = line \ {c}
  /\ UNCHANGED life

Current(t) == t \in DOMAIN terminals /\ terminals[t].life = life
InState(t, states) == Current(t) /\ terminals[t].state \in states
Running(t) == InState(t, {"running"})

EmptyRing == written' = 0 /\ parts' = <<>> /\ end' = 0 /\ sequence' = 0
NewTerminal ==
  /\ terminals' = Append(terminals, [state |-> "running", life |-> life])
  /\ EmptyRing

RefuseSpawn(c) ==
  /\ Handles(c, "spawn")
  /\ ~Allowed(args[c].asked)
  /\ Responds(c, "not_allowed")
  /\ UNCHANGED <<ringVars, terminals, spawned, typed, readerVars, known>>

\* What the first spawn was answered, also when that terminal has ended since.
SpawnAgain(c) ==
  /\ Handles(c, "spawn")
  /\ Allowed(args[c].asked)
  /\ spawned # NoSpawn
  /\ IF spawned.args = args[c].asked THEN RespondsWithTerminal(c, spawned.terminal)
     ELSE Responds(c, "idempotency_conflict") /\ UNCHANGED <<readerVars, known>>
  /\ UNCHANGED <<ringVars, terminals, spawned, typed>>

SpawnForgotten(c) ==
  /\ Handles(c, "spawn")
  /\ Allowed(args[c].asked)
  /\ spawned = NoSpawn
  /\ NewTerminal
  /\ RespondsWithTerminal(c, Len(terminals'))
  /\ UNCHANGED <<spawned, typed>>

Spawn(c) ==
  /\ Handles(c, "spawn")
  /\ Allowed(args[c].asked)
  /\ spawned = NoSpawn
  /\ NewTerminal
  /\ spawned' = [args |-> args[c].asked, terminal |-> Len(terminals')]
  /\ RespondsWithTerminal(c, Len(terminals'))
  /\ UNCHANGED typed

Write(c) ==
  /\ Handles(c, "write")
  /\ LET t == args[c].terminal IN
     IF Running(t) THEN typed' = typed \cup {c} /\ Responds(c, "ok")
     ELSE /\ UNCHANGED typed
          /\ Responds(c, IF Current(t) THEN "terminal_not_writable" ELSE "terminal_not_found")
  /\ UNCHANGED <<ringVars, terminals, spawned, readerVars, known>>

\* At once, or at the end of a long poll, which ends at the latest with its timer.
Output(c) ==
  /\ Handles(c, "output")
  /\ IF Current(args[c].terminal) THEN RespondsWithOutput(c, Read(args[c].cursor, args[c].asked.max_bytes))
                                  ELSE Responds(c, "terminal_not_found") /\ UNCHANGED readerVars
  /\ UNCHANGED <<ringVars, terminals, spawned, typed, known>>

\* An ended shell can be resized but not signalled.  Neither changes anything that matters here.
ResizeOrSignal(c) ==
  /\ \E op \in {"resize", "signal"} : Handles(c, op)
  /\ LET t == args[c].terminal
         served == IF args[c].asked.op = "resize" THEN {"running", "exited"} ELSE {"running"}
     IN Responds(c, IF InState(t, served) THEN "ok"
                    ELSE IF Current(t) THEN "terminal_closed" ELSE "terminal_not_found")
  /\ UNCHANGED <<ringVars, terminals, spawned, typed, readerVars, known>>

Close(c) ==
  /\ Handles(c, "close")
  /\ LET t == args[c].terminal IN
     IF Current(t) THEN terminals' = [terminals EXCEPT ![t].state = "closed"] /\ Responds(c, "ok")
     ELSE UNCHANGED terminals /\ Responds(c, "terminal_not_found")
  /\ UNCHANGED <<ringVars, spawned, typed, readerVars, known>>

Serve(c) == SpawnAgain(c) \/ RefuseSpawn(c) \/ Spawn(c) \/ Write(c) \/ Output(c) \/ ResizeOrSignal(c) \/ Close(c)

ShellWrites(n) ==
  /\ Running(Len(terminals))
  /\ AppendChunk(n)
  /\ UNCHANGED <<callVars, line, terminals, spawned, typed, readerVars, known, life>>

ShellEnds ==
  /\ \E t \in DOMAIN terminals : Running(t) /\ terminals' = [terminals EXCEPT ![t].state = "exited"]
  /\ UNCHANGED <<callVars, ringVars, line, spawned, typed, readerVars, known, life>>

----
(* Restarts *)

ServiceRestart ==
  /\ life < MaxLife
  /\ life' = life + 1
  /\ line' = {}
  /\ spawned' = NoSpawn
  /\ EmptyRing
  /\ UNCHANGED <<callVars, terminals, typed, readerVars, known>>

\* What the gateway has written into its sockets is there to be read.
GatewayRestart ==
  /\ \E c \in Call : at[c] \in InFlight
  /\ LET Failed == {c \in Call : at[c] \in InFlight}
         Again == {c \in Failed : Repeats(c, "gateway_lost")}
     IN /\ at' = [c \in Call |-> IF c \in Again THEN "idle" ELSE IF c \in Failed THEN "returned" ELSE at[c]]
        /\ code' = [c \in Call |-> IF c \in Again THEN "none" ELSE IF c \in Failed THEN "gateway_lost" ELSE code[c]]
  /\ UNCHANGED <<args, serviceVars, readerVars, known, life>>

Next ==
  \/ \E c \in Call : \/ Invoke(c) \/ Reject(c)
                     \/ NotServed(c) \/ Connect(c) \/ GiveUp(c) \/ Serve(c)
  \/ \E n \in Chunk : ShellWrites(n)
  \/ ShellEnds
  \/ ServiceRestart
  \/ GatewayRestart

Spec == Init /\ [][Next]_vars

\* The gateway and the tool go on, and the timer of the gateway fires; of the service nothing is
\* expected.
FairSpec ==
  /\ Spec
  /\ \A c \in Call : WF_vars(Connect(c)) /\ WF_vars(GiveUp(c))

----
(* Properties *)

\* What the gateway says of a write is so: bytes it calls written were given to the terminal, and
\* after any other answer but "outcome unknown" they have not been and will not be
\* (terminal-client.js:56-57), whatever the service still has in its sockets.  Of a gateway that is
\* restarted before it answers, only the tool speaks.
WriteAnswersAreTrue ==
  \A c \in Call :
    args[c].asked.op = "write" =>
      /\ code[c] = "ok" => c \in typed
      /\ code[c] \notin {"none", "ok", "terminal_write_outcome_unknown", "gateway_lost"} => c \notin typed \cup line

\* Spawns under one key start one terminal in an instance of the service, whichever answers are
\* lost and however the attempts overlap (service.js:31-33, 45).
SpawnedOnce ==
  \A t, u \in DOMAIN terminals : terminals[t].life = terminals[u].life => t = u

\* Every call returns, though the service may never answer, end the connection in silence, or be
\* restarted (terminal-client.js:56).
CallsReturn == \A c \in Call : at[c] \in InFlight ~> at[c] \notin InFlight

====
