---- MODULE AgentRun ----
(***************************************************************************)
(* What the gateway relies on when it launches agents: a run ends exactly  *)
(* once, a run that was asked to stop never ends as a success, only a run  *)
(* that was asked to stop ends as cancelled, and every run ends.           *)
(*                                                                         *)
(* Supervisor and CodexMcpWorkers implement this; GatewayRequests keeps    *)
(* its agents within it.                                                   *)
(***************************************************************************)
CONSTANT Run

VARIABLES agent,    \* the life of each run
          outcome   \* "no_outcome" until the run has settled

agentVars == <<agent, outcome>>

AgentState == {"idle", "running", "stopping", "settled"}
Outcome == {"done", "error", "cancelled"}

Init ==
    /\ agent = [r \in Run |-> "idle"]
    /\ outcome = [r \in Run |-> "no_outcome"]

Launch(r) ==
    /\ agent[r] = "idle"
    /\ agent'[r] = "running"
    /\ outcome'[r] = outcome[r]

\* The cancel function of the run is called for the first time.
Stop(r) ==
    /\ agent[r] = "running"
    /\ agent'[r] = "stopping"
    /\ outcome'[r] = outcome[r]

\* A stopped run may still end in an error: what the caller does with the answer can fail.
End(r) ==
    /\ agent[r] \in {"running", "stopping"}
    /\ agent'[r] = "settled"
    /\ outcome'[r] \in (IF agent[r] = "stopping" THEN {"cancelled", "error"}
                                                 ELSE {"done", "error"})

Rest(r) ==
    /\ agent'[r] = agent[r]
    /\ outcome'[r] = outcome[r]

\* Several runs may move in one step: one request can launch its agent and reap stale ones.
Next ==
    /\ agent' \in [Run -> AgentState]
    /\ outcome' \in [Run -> Outcome \cup {"no_outcome"}]
    /\ \A r \in Run : Launch(r) \/ Stop(r) \/ End(r) \/ Rest(r)

Spec == Init /\ [][Next]_agentVars

RunsEnd == \A r \in Run : (agent[r] \in {"running", "stopping"}) ~> (agent[r] = "settled")

FairSpec == Spec /\ RunsEnd
====
