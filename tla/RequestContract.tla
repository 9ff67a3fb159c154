---- MODULE RequestContract ----
(***************************************************************************)
(* What the gateway promises a client about its submissions, and nothing   *)
(* of how it keeps the promise: a submission is refused, answered with an  *)
(* earlier request of the same idempotency key, or run; two runs of one    *)
(* session never overlap, and a session is called locked only while one of *)
(* them is on; a key runs once; every run ends (README.md, "Idempotency"   *)
(* and "Session locking").                                                 *)
(***************************************************************************)
CONSTANTS Request, Session, Key, OnceKey, NoRequest, NoSession, NoKey

VARIABLES phase,      \* "new", "refused", "locked", "replayed", "running" or "done"
          terms,      \* the session and the key a submission asks for
          answeredBy  \* the request a replayed submission was answered with

contractVars == <<phase, terms, answeredBy>>

Terms == [session : Session \cup {NoSession}, key : Key \cup {NoKey}]

Init ==
    /\ phase = [r \in Request |-> "new"]
    /\ terms = [r \in Request |-> [session |-> NoSession, key |-> NoKey]]
    /\ answeredBy = [r \in Request |-> NoRequest]

Run == {r \in Request : phase[r] \in {"running", "done"}}

Receive(r, t, p) ==
    /\ phase[r] = "new"
    /\ terms' = [terms EXCEPT ![r] = t]
    /\ phase' = [phase EXCEPT ![r] = p]

\* A run of the session is on.
InUse(s) == \E q \in Run : phase[q] = "running" /\ terms[q].session = s

\* A run starts only in a session nobody runs in, and only under a key nobody ran under.
Start(r, t) ==
    /\ Receive(r, t, "running")
    /\ t.session # NoSession => ~InUse(t.session)
    /\ t.key \in OnceKey => \A q \in Run : terms[q].key # t.key
    /\ UNCHANGED answeredBy

Refuse(r, t) == Receive(r, t, "refused") /\ UNCHANGED answeredBy

\* A submission is turned away for its session only while a run of that session is on: no lock
\* outlives the run, or the failed submission, that took it.
Lock(r, t) ==
    /\ Receive(r, t, "locked")
    /\ t.session # NoSession
    /\ InUse(t.session)
    /\ UNCHANGED answeredBy

Replay(r, t) ==
    /\ Receive(r, t, "replayed")
    /\ t.key \in OnceKey
    /\ \E q \in Run :
         /\ terms[q].key = t.key
         /\ answeredBy' = [answeredBy EXCEPT ![r] = q]

Finish(r) ==
    /\ phase[r] = "running"
    /\ phase' = [phase EXCEPT ![r] = "done"]
    /\ UNCHANGED <<terms, answeredBy>>

Next ==
    \E r \in Request :
        \/ \E t \in Terms : Start(r, t) \/ Refuse(r, t) \/ Lock(r, t) \/ Replay(r, t)
        \/ Finish(r)

Spec == Init /\ [][Next]_contractVars

FairSpec == Spec /\ \A r \in Request : WF_contractVars(Finish(r))
====
