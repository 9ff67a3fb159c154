---- MODULE MCSendChat ----
(* A small instance of SendChat for TLC: two calls under one key, in either order, of which one sends
   a file that may not overwrite what is there and the other that file and one that may, and a call
   without files or key in the same session. *)
EXTENDS SendChat, TLC

CONSTANTS first, retry, other, key, session

File(name, size, overwrite) == [name |-> name, size |-> size, dir |-> "docs", overwrite |-> overwrite]
Calls ==
  [c \in {first, retry, other} |->
     [files |-> IF c = other THEN <<>>
                ELSE IF c = first THEN <<File("a", 2, FALSE), File("b", 2, TRUE)>> ELSE <<File("a", 2, FALSE)>>,
      key |-> IF c = other THEN NoKey ELSE key,
      session |-> session]]

\* A file that is too large, and a name that is used twice.
Mistakes == {<<File("a", 9, FALSE)>>, <<File("a", 1, FALSE), File("a", 1, TRUE)>>}
====
