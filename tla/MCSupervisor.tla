---- MODULE MCSupervisor ----
(* Small instances of Supervisor for TLC: the sets of processes come from the .cfg files. *)
EXTENDS Supervisor

\* The behaviours in which every process is there when the run is cancelled, so that the SIGTERM
\* of cancel() was sent to all of them.
CancelledLast == cancelled' /\ ~cancelled => Process \subseteq Living
SpecCancelledLast == Init /\ [][Next /\ CancelledLast]_vars
====
