---- MODULE MCMemory ----
(* A small instance of Memory for TLC: two principals that share a target, one of which may
   administrate, an operator and an agent without a broker, and a stranger. *)
EXTENDS Memory

Grant(read, write) == [scope |-> "team", read |-> read, write |-> write]
Principals ==
  [alice |-> [private |-> "scope_a", role |-> "agent", shared |-> [shared |-> Grant(TRUE, FALSE)], admin |-> <<>>],
   root |-> [private |-> "scope_r", role |-> "admin", shared |-> [shared |-> Grant(TRUE, TRUE)],
             admin |-> [alices |-> [scope |-> "scope_a", read |-> TRUE, delete |-> TRUE],
                        shared |-> [scope |-> "team", read |-> TRUE, delete |-> FALSE]]]]

Direct(role, scope) == [broker |-> FALSE, role |-> role, scope |-> scope, exposeAdmin |-> FALSE, principal |-> "nobody"]
Holder(p) == [broker |-> TRUE, role |-> "agent", scope |-> "none", exposeAdmin |-> p = "root", principal |-> p]
Empty == [op |-> "none", memory |-> "m1", target |-> "private", user_id |-> "none", extra |-> "none",
          confirmed |-> TRUE, big |-> FALSE]
Asks(op, target) == [Empty EXCEPT !.op = op, !.target = target, !.user_id = "team"]
Of(memory, a) == [a EXCEPT !.memory = memory]
By(k, asks) == {[by |-> k, asks |-> a] : a \in asks}

CONSTANTS first, second
Choices ==
  [c \in Call |->
     IF c = first
     THEN By(Holder("alice"), {Asks("add", "private"), Asks("update", "private"), Of("m2", Asks("update", "shared")),
                               Asks("capabilities", "private"), Asks("list_targets", "private"),
                               [Asks("update", "private") EXCEPT !.big = TRUE], Asks("admin_delete", "alices")})
          \cup By(Holder("nobody"), {Asks("update", "private")})
          \cup By(Direct("admin", "none"), {Of("m2", Asks("update", "private"))})
     ELSE By(Holder("root"), {Asks("admin_delete", "alices"), [Asks("admin_delete", "alices") EXCEPT !.confirmed = FALSE],
                              Of("m2", Asks("admin_delete", "shared")), Asks("admin_search", "alices"),
                              Of("m2", Asks("delete", "shared"))})
          \cup By(Direct("agent", "team"), {Of("m2", Asks("get", "private")), [Asks("capabilities", "private") EXCEPT !.extra = "other"],
                                           [Asks("list", "private") EXCEPT !.extra = "override"]})]
Stored == [m1 |-> "scope_a", m2 |-> "team"]
====
