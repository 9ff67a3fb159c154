---- MODULE MCCodexMcpWorkers ----
(* Small instances of CodexMcpWorkers for TLC. *)
EXTENDS CodexMcpWorkers, TLC

\* Requests, servers and authorities are interchangeable in the safety run.
Interchangeable == Permutations(Request) \cup Permutations(Worker) \cup Permutations(Authority)
====
