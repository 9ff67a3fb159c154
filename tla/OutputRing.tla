---- MODULE OutputRing ----
(***************************************************************************)
(* The output buffer of a terminal (terminal/src/ring.js) and what a       *)
(* client knows that reads it with the cursor each answer gives it         *)
(* (service.js:50-75).                                                     *)
(*                                                                         *)
(* The bytes the PTY wrote are numbered from 0.  A part of the ring stands *)
(* for the bytes position, position + 1, ... of that stream under the      *)
(* cursors start, start + 1, ...                                           *)
(***************************************************************************)
EXTENDS Naturals, Sequences

CONSTANTS Limit,      \* policy.ringBytes
          Chunk,      \* lengths of the chunks the PTY delivers
          MaxStream   \* bound: bytes the PTY writes

ASSUME RingAssumption ==
  /\ Limit \in Nat \ {0}
  /\ Chunk \subseteq Nat \ {0}
  /\ MaxStream \in Nat

VARIABLES written,    \* bytes the PTY has written
          parts, end, sequence,
          cursor,     \* next_cursor of the last answer
          received,   \* the stream bytes the client was given, in order
          missed      \* how many bytes the client was told it lost (truncated_from)

ringVars == <<written, parts, end, sequence>>
readerVars == <<cursor, received, missed>>

Smaller(a, b) == IF a < b THEN a ELSE b
Larger(a, b) == IF a > b THEN a ELSE b
PartEnd(p) == p.start + p.length

\* oldest_cursor
Start == IF parts = <<>> THEN end ELSE parts[1].start

NewRing ==
  /\ written = 0
  /\ parts = <<>>
  /\ end = 0
  /\ sequence = 0

NewReader ==
  /\ cursor = 0
  /\ received = <<>>
  /\ missed = 0

\* What the eviction of everything below the cursor `from` leaves: the loop drops parts until it
\* comes to one that goes beyond it, and trims that one.
Evicted(ps, from) ==
  LET first == CHOOSE i \in 1 .. Len(ps) + 1 :
                 /\ i \in DOMAIN ps => PartEnd(ps[i]) > from
                 /\ \A j \in 1 .. i - 1 : PartEnd(ps[j]) <= from
      Trimmed(p) == LET cut == Larger(p.start, from) - p.start
                    IN [start |-> p.start + cut, position |-> p.position + cut,
                        length |-> p.length - cut, sequence |-> p.sequence]
  IN [i \in 1 .. Len(ps) + 1 - first |-> IF i = 1 THEN Trimmed(ps[first]) ELSE ps[first + i - 1]]

\* Of a chunk longer than the ring only the last Limit bytes are appended, and counted.
Retained(n) == Smaller(n, Limit)

AppendChunk(n) ==
  /\ written + n <= MaxStream
  /\ written' = written + n
  /\ sequence' = sequence + 1
  /\ end' = end + Retained(n)
  /\ parts' = Evicted(Append(parts, [start |-> end, position |-> written' - Retained(n),
                                     length |-> Retained(n), sequence |-> sequence']),
                      Larger(end', Limit) - Limit)

\* The bytes under the cursors from, ..., to - 1 that the parts hold.
Bytes(from, to) ==
  LET Held(c) == CHOOSE i \in DOMAIN parts : parts[i].start <= c /\ c < PartEnd(parts[i])
      Byte(c) == parts[Held(c)].position + c - parts[Held(c)].start
  IN [i \in 1..(to - from) |-> Byte(from + i - 1)]

ReadUntold(from, max) ==
  LET oldest == Larger(from, Start)
      next == Smaller(oldest + max, Larger(end, oldest))
  IN [bytes |-> Bytes(oldest, next), next |-> next, lost |-> 0]

\* The answer to a read that goes on from a cursor.
Read(from, max) ==
  LET oldest == Larger(from, Start)
      next == Smaller(oldest + max, Larger(end, oldest))
  IN [bytes |-> Bytes(oldest, next), next |-> next, lost |-> oldest - from]

\* The client takes an answer.
Take(answer) ==
  /\ received' = received \o answer.bytes
  /\ missed' = missed + answer.lost
  /\ cursor' = answer.next

----------------------------------------------------------------------------

\* A client that goes on from next_cursor receives the stream in order and each byte once, and
\* the bytes it does not receive are those it was told of, whichever calls fail on the way and are
\* made again (ring.js:19-32; "The service never pretends missing bytes were delivered",
\* docs/terminal-pty-design.md:164); nor is more evicted than the limit asks for (ring.js:11-17).
NothingMissedSilently ==
  LET n == Len(received)
  IN /\ end - Start = Smaller(end, Limit)
     /\ \A i \in 2..n : received[i - 1] < received[i]
     /\ n + missed = IF n = 0 THEN 0 ELSE received[n] + 1

====
