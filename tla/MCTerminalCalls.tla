---- MODULE MCTerminalCalls ----
(* A small instance of TerminalCalls for TLC: a spawn that is retried, a reader, and a call
   that writes, resizes, signals or closes. *)
EXTENDS TerminalCalls

CONSTANTS open, read, other

Empty == [op |-> "none", cols |-> 1, bytes |-> 1, max_bytes |-> 1, wait_ms |-> 0, executable |-> "bash",
          env |-> {}, cwd |-> "root"]
SpawnWith(cols, executable) == [Empty EXCEPT !.op = "spawn", !.cols = cols, !.executable = executable]
WriteOf(bytes) == [Empty EXCEPT !.op = "write", !.bytes = bytes]
OutputUpTo(max) == [Empty EXCEPT !.op = "output", !.max_bytes = max]

Choices ==
  [c \in Call |->
     CASE c = open -> {SpawnWith(1, "bash"), SpawnWith(2, "bash"), SpawnWith(1, "other")}
       [] c = read -> {OutputUpTo(2)}
       [] c = other -> {WriteOf(1), WriteOf(9), [Empty EXCEPT !.op = "close"], [Empty EXCEPT !.op = "resize"], [Empty EXCEPT !.op = "signal"]}]
====
