---- MODULE TerminalCalls_proofs ----
(***************************************************************************)
(* Theorems about TerminalCalls and OutputRing, for any number of calls,   *)
(* any size of the ring, and any number of restarts.                       *)
(***************************************************************************)
EXTENDS TerminalCalls, FiniteSetTheorems, WellFoundedInduction, TLAPS

\* The terminals of an instance of the service: at most the last one, and then it is remembered.
LastIsSpawned ==
  /\ \A t \in DOMAIN terminals : terminals[t].life <= life
  /\ \A t \in DOMAIN terminals : spawned = NoSpawn \/ t < Len(terminals) => terminals[t].life < life
  /\ spawned # NoSpawn => spawned.terminal = Len(terminals) /\ terminals[Len(terminals)].life = life

\* A call is in a socket once it was sent, with arguments that are in range.
CallsAreSent ==
  \A c \in Call :
    /\ at[c] \in InFlight \/ c \in line => args[c].asked \in Options[c] /\ InRange(args[c].asked)
    /\ c \in line => at[c] # "posted"
    /\ at[c] # "returned" => code[c] = "none"

\* A write is sent once, and typed once.
WritesAreSentOnce ==
  \A c \in Call :
    /\ c \in line /\ args[c].asked.op = "write" => at[c] # "idle"
    /\ c \in typed => /\ args[c].asked.op = "write"
                      /\ at[c] \in {"sent", "returned"}
                      /\ c \notin line

Part == [start : Nat, position : Nat, length : Nat \ {0}, sequence : Nat]

\* The parts hold the cursors before the end without a gap, as many as the limit allows.
RingIsWhole ==
  /\ end \in Nat /\ written \in Nat /\ end <= written /\ sequence \in Nat
  /\ parts \in Seq(Part)
  /\ \A i \in DOMAIN parts : i + 1 \in DOMAIN parts => parts[i + 1].start = PartEnd(parts[i])
  /\ \A i, j \in DOMAIN parts : i < j => PartEnd(parts[i]) <= parts[j].start
  /\ IF parts = <<>> THEN end = 0 ELSE PartEnd(parts[Len(parts)]) = end
  /\ end - Start = Smaller(end, Limit)

CallsInv ==
  TypeOK /\ RingIsWhole /\ LastIsSpawned /\ SpawnedOnce /\ CallsAreSent /\ WritesAreSentOnce /\ WriteAnswersAreTrue

----
(* The hypotheses under which nothing is missed silently *)

ShortChunks == \A n \in Chunk : n <= Limit

OneReader ==
  \A c, d \in Call : \A a \in Options[c], b \in Options[d] : a.op = "output" /\ b.op = "output" => c = d

\* The numbers of the bytes in the ring are those of the stream, none of which was cut.
StreamIsKept == written = end /\ \A i \in DOMAIN parts : parts[i].position = parts[i].start

\* What the client has and what it was told of make up the stream before its cursor.
ReaderInv ==
  /\ cursor \in Nat /\ missed \in Nat
  /\ received \in Seq(Nat)
  /\ cursor = Len(received) + missed
  /\ \A i \in 2 .. Len(received) : received[i - 1] < received[i]
  /\ IF received = <<>> THEN missed = 0 ELSE received[Len(received)] = cursor - 1

\* The call that waits for output of the terminal the client works with goes on from its cursor.
ReadsGoOn ==
  \A c \in Call : at[c] \in InFlight /\ args[c].asked.op = "output" =>
    /\ known # NoTerminal /\ args[c].terminal \in Nat
    /\ args[c].terminal <= known
    /\ args[c].terminal = known => args[c].cursor = cursor

\* A client that works with the running terminal has read no further than it has written.
NotPastEnd == Current(known) => cursor <= end

ReadingInv == CallsInv /\ StreamIsKept /\ ReaderInv /\ ReadsGoOn /\ NotPastEnd

----
(* The ring *)

\* A non-empty set of naturals has a least element.
LEMMA LeastNatural ==
  ASSUME NEW S \in SUBSET Nat, S # {}
  PROVE  \E x \in S : \A y \in S : x <= y
<1> DEFINE R == StrictSubsetOrdering(Nat)
           T == {1 .. n : n \in S}
<1>1. IsWellFoundedOn(R, FiniteSubsetsOf(Nat))
  BY FS_StrictSubsetOrderingWellFounded
<1>2. T \subseteq FiniteSubsetsOf(Nat)
  <2>1. \A n \in Nat : 1 .. n \subseteq Nat /\ IsFiniteSet(1 .. n)
    BY FS_Interval
  <2> QED
    BY <2>1 DEF FiniteSubsetsOf
<1>3. T # {}
  OBVIOUS
<1> HIDE DEF T, R
<1>4. PICK t \in T : \A u \in T : <<u, t>> \notin R
  BY <1>1, <1>2, <1>3, WFMin, Zenon
<1>5. PICK x \in S : t = 1 .. x
  BY DEF T
<1>6. ASSUME NEW y \in S, y < x
      PROVE  FALSE
  <2>1. 1 .. y \in T
    BY DEF T
  <2>2. 1 .. y \subseteq 1 .. x /\ 1 .. y # 1 .. x /\ 1 .. y \subseteq Nat /\ 1 .. x \subseteq Nat
    BY <1>6
  <2>3. <<1 .. y, 1 .. x>> \in R
    BY <2>2 DEF R, StrictSubsetOrdering
  <2> QED
    BY <1>4, <1>5, <2>1, <2>3
<1> QED
  BY <1>6

LEMMA PartTypes ==
  ASSUME NEW p \in Part
  PROVE  /\ p.start \in Nat /\ p.position \in Nat /\ p.length \in Nat \ {0} /\ p.sequence \in Nat
         /\ PartEnd(p) \in Nat
         /\ p.start < PartEnd(p)
<1>1. p.start \in Nat /\ p.position \in Nat /\ p.length \in Nat \ {0} /\ p.sequence \in Nat
  BY DEF Part
<1> QED
  BY <1>1 DEF PartEnd

\* The first of the parts that end after a given point, if the last one does.
LEMMA FirstBeyond ==
  ASSUME NEW ps \in Seq(Part), NEW from \in Nat, ps # <<>>, from < PartEnd(ps[Len(ps)])
  PROVE  \E k \in 1 .. Len(ps) : /\ from < PartEnd(ps[k])
                                 /\ \A j \in 1 .. k - 1 : PartEnd(ps[j]) <= from
<1> DEFINE S == {k \in 1 .. Len(ps) : from < PartEnd(ps[k])}
<1>1. Len(ps) \in S /\ S \in SUBSET Nat
  OBVIOUS
<1>2. PICK k \in S : \A j \in S : k <= j
  BY <1>1, LeastNatural
<1>3. \A j \in 1 .. k - 1 : j \in 1 .. Len(ps) /\ ps[j] \in Part
  BY <1>2
<1>4. \A j \in 1 .. k - 1 : PartEnd(ps[j]) \in Nat
  BY <1>3, PartTypes
<1> QED
  BY <1>2, <1>3, <1>4

\* The eviction drops the parts before that one and trims it.
LEMMA EvictedParts ==
  ASSUME NEW ps \in Seq(Part), NEW from \in Nat,
         NEW k \in 1 .. Len(ps), from < PartEnd(ps[k]), \A j \in 1 .. k - 1 : PartEnd(ps[j]) <= from
  PROVE  LET cut == Larger(ps[k].start, from) - ps[k].start
             e == Evicted(ps, from)
         IN /\ e \in Seq(Part)
            /\ Len(e) = Len(ps) + 1 - k
            /\ e[1] = [start |-> ps[k].start + cut, position |-> ps[k].position + cut,
                       length |-> ps[k].length - cut, sequence |-> ps[k].sequence]
            /\ \A i \in 2 .. Len(e) : e[i] = ps[k + i - 1]
<1> DEFINE First(i) == /\ i \in DOMAIN ps => PartEnd(ps[i]) > from
                       /\ \A j \in 1 .. i - 1 : PartEnd(ps[j]) <= from
           first == CHOOSE i \in 1 .. Len(ps) + 1 : First(i)
           Trimmed(p) == [start |-> p.start + (Larger(p.start, from) - p.start),
                          position |-> p.position + (Larger(p.start, from) - p.start),
                          length |-> p.length - (Larger(p.start, from) - p.start),
                          sequence |-> p.sequence]
<1>0. \A i \in DOMAIN ps : ps[i] \in Part
  OBVIOUS
<1>1. \A i \in DOMAIN ps : ps[i] \in Part /\ PartEnd(ps[i]) \in Nat
  BY <1>0, PartTypes
<1>2. first \in 1 .. Len(ps) + 1 /\ First(first)
  <2>1. k \in 1 .. Len(ps) + 1 /\ First(k)
    BY <1>1
  <2> HIDE DEF First
  <2> QED
    BY <2>1
<1>3. first = k
  <2>1. ~(first < k)
    BY <1>1, <1>2
  <2>2. ~(k < first)
    <3>1. k < first => k \in 1 .. first - 1
      BY <1>2
    <3> HIDE DEF first
    <3> QED
      BY <1>1, <1>2, <3>1
  <2> QED
    BY <1>2, <2>1, <2>2
<1>4. Evicted(ps, from) = [i \in 1 .. Len(ps) + 1 - first |-> IF i = 1 THEN Trimmed(ps[first]) ELSE ps[first + i - 1]]
  BY DEF Evicted
<1>5. Evicted(ps, from) = [i \in 1 .. Len(ps) + 1 - k |-> IF i = 1 THEN Trimmed(ps[k]) ELSE ps[k + i - 1]]
  BY <1>3, <1>4, Zenon
<1>6. Trimmed(ps[k]) \in Part
  <2> DEFINE p == ps[k]
             cut == Larger(p.start, from) - p.start
  <2>1. /\ p.start \in Nat /\ p.position \in Nat /\ p.length \in Nat \ {0} /\ p.sequence \in Nat
        /\ PartEnd(p) \in Nat /\ p.start < PartEnd(p)
    BY <1>0, PartTypes
  <2>2. cut \in Nat /\ p.length - cut \in Nat \ {0}
    BY <2>1 DEF PartEnd, Larger
  <2> HIDE DEF cut
  <2>3. p.start + cut \in Nat /\ p.position + cut \in Nat
    BY <2>1, <2>2
  <2> QED
    BY <2>1, <2>2, <2>3 DEF Part, cut
<1>7. \A i \in 2 .. Len(ps) + 1 - k : ps[k + i - 1] \in Part
  BY <1>1
<1> HIDE DEF first
<1> QED
  BY <1>5, <1>6, <1>7

\* A chunk is appended, what is evicted for it is what the limit asks for, and the stream is kept
\* if the ring can hold the chunk.
LEMMA AppendKeepsRing ==
  ASSUME RingIsWhole, NEW chunk \in Chunk, AppendChunk(chunk)
  PROVE  /\ RingIsWhole'
         /\ end <= end'
         /\ StreamIsKept /\ chunk <= Limit => StreamIsKept'
<1> DEFINE n == Retained(chunk)
           position == written + chunk - n
           new == [start |-> end, position |-> position, length |-> n, sequence |-> sequence + 1]
           ps == Append(parts, new)
<1>1. /\ chunk \in Nat \ {0} /\ Limit \in Nat \ {0}
      /\ end \in Nat /\ sequence \in Nat /\ written \in Nat /\ end <= written
  BY RingAssumption DEF RingIsWhole
<1>2. n \in Nat \ {0} /\ n <= Limit /\ n <= chunk /\ position \in Nat
  BY <1>1 DEF Retained, Smaller
<1>3. written' = written + chunk /\ end' = end + n /\ sequence' = sequence + 1
  BY DEF AppendChunk
<1> DEFINE from == Larger(end + n, Limit) - Limit
<1>4. parts' = Evicted(ps, from)
  <2>1. parts' = Evicted(Append(parts, [start |-> end, position |-> written' - Retained(chunk),
                                        length |-> Retained(chunk), sequence |-> sequence']),
                         Larger(end', Limit) - Limit)
    BY Zenon DEF AppendChunk
  <2>2. written' - Retained(chunk) = position
    BY <1>1, <1>2, <1>3
  <2>3. Larger(end', Limit) - Limit = from
    BY <1>3
  <2> HIDE DEF position, from
  <2> QED
    BY <1>3, <2>1, <2>2, <2>3, Zenon
<1> HIDE DEF n, position
<1>5. from \in Nat /\ from < end + n
  BY <1>1, <1>2 DEF Larger
<1>6. new \in Part /\ PartEnd(new) = end + n
  BY <1>1, <1>2 DEF Part, PartEnd
<1>7. parts \in Seq(Part) /\ Start \in Nat
  <2>1. parts \in Seq(Part)
    BY DEF RingIsWhole
  <2>2. parts # <<>> => parts[1] \in Part
    BY <2>1
  <2> QED
    BY <1>1, <2>1, <2>2, PartTypes DEF Start
<1> DEFINE l == Len(parts)
<1>8. /\ ps \in Seq(Part) /\ ps # <<>> /\ Len(ps) = l + 1 /\ l \in Nat
      /\ ps[l + 1] = new
      /\ \A i \in 1 .. l : ps[i] = parts[i]
  BY <1>6, <1>7
<1> HIDE DEF new, ps, l, from
<1>9. PICK k \in 1 .. l + 1 : from < PartEnd(ps[k]) /\ \A j \in 1 .. k - 1 : PartEnd(ps[j]) <= from
  BY <1>5, <1>6, <1>8, FirstBeyond
<1>10. \A i \in 1 .. l + 1 : ps[i] \in Part
  BY <1>8
<1>11. \A i \in 1 .. l + 1 : ps[i].start \in Nat /\ PartEnd(ps[i]) \in Nat /\ ps[i].start < PartEnd(ps[i])
  BY <1>10, PartTypes
<1>12. ASSUME StreamIsKept, chunk <= Limit
       PROVE  n = chunk /\ \A i \in 1 .. l + 1 : ps[i].position = ps[i].start
  <2>1. n = chunk
    BY <1>1, <1>12 DEF n, Retained, Smaller
  <2>2. new.position = new.start
    BY <1>1, <1>12, <2>1 DEF new, position, StreamIsKept
  <2> QED
    BY <1>8, <1>12, <2>1, <2>2 DEF StreamIsKept, l
<1>13. \A i \in 1 .. l : ps[i + 1].start = PartEnd(ps[i])
  <2> SUFFICES ASSUME NEW i \in 1 .. l
               PROVE  ps[i + 1].start = PartEnd(ps[i])
    OBVIOUS
  <2>1. ASSUME i < l
        PROVE  parts[i + 1].start = PartEnd(parts[i]) /\ i + 1 \in 1 .. l
    <3>1. i + 1 \in 1 .. l /\ i \in DOMAIN parts /\ i + 1 \in DOMAIN parts
      BY <1>7, <2>1 DEF l
    <3> QED
      BY <3>1 DEF RingIsWhole
  <2>2. CASE i < l
    BY <1>8, <2>1, <2>2
  <2>3. CASE i = l
    <3>1. PartEnd(parts[l]) = end
      BY <1>7, <1>8, <2>3 DEF RingIsWhole, l
    <3>2. ps[l + 1].start = end
      BY <1>8 DEF new
    <3> QED
      BY <1>8, <2>3, <3>1, <3>2
  <2> QED
    BY <1>8, <2>2, <2>3
<1>14. \A i, j \in 1 .. l + 1 : i < j => PartEnd(ps[i]) <= ps[j].start
  <2>1. \A i \in 1 .. l : PartEnd(parts[i]) <= end
    <3>1. \A i \in 1 .. l : parts[i] \in Part
      BY <1>7 DEF l
    <3>2. \A i \in 1 .. l : PartEnd(parts[i]) \in Nat /\ parts[i].start \in Nat /\ parts[i].start < PartEnd(parts[i])
      BY <3>1, PartTypes
    <3>3. \A i \in 1 .. l : i < l => PartEnd(parts[i]) <= parts[l].start
      BY <1>7 DEF RingIsWhole, l
    <3>4. l > 0 => PartEnd(parts[l]) = end
      BY <1>7 DEF RingIsWhole, l
    <3> SUFFICES ASSUME NEW i \in 1 .. l
                 PROVE  PartEnd(parts[i]) <= end
      OBVIOUS
    <3>5. CASE i = l
      BY <1>1, <1>8, <3>4, <3>5
    <3>6. CASE i < l
      <4>1. l \in 1 .. l /\ l > 0
        BY <1>8, <3>6
      <4> QED
        BY <1>1, <3>2, <3>3, <3>4, <3>6, <4>1
    <3> QED
      BY <1>8, <3>5, <3>6
  <2>2. ps[l + 1].start = end
    BY <1>8 DEF new
  <2>3. \A i, j \in 1 .. l : i < j => PartEnd(parts[i]) <= parts[j].start
    BY <1>7 DEF RingIsWhole, l
  <2> QED
    BY <1>8, <2>1, <2>2, <2>3
<1>15. ps[1].start <= from \/ (ps[1].start = 0 /\ end + n <= Limit)
  <2>1. ps[1].start = Start
    BY <1>7, <1>8 DEF Start, new, l
  <2>2. end - Start = Smaller(end, Limit)
    BY DEF RingIsWhole
  <2> QED
    BY <1>1, <1>2, <1>7, <2>1, <2>2 DEF from, Larger, Smaller
<1>16. Larger(ps[k].start, from) = from
  <2>1. CASE k = 1
    BY <1>1, <1>2, <1>5, <1>11, <1>15, <2>1 DEF Larger, from
  <2>2. CASE k # 1
    <3>1. ps[k].start = PartEnd(ps[k - 1]) /\ PartEnd(ps[k - 1]) <= from
      BY <1>8, <1>9, <1>13, <2>2
    <3> QED
      BY <1>5, <1>11, <3>1 DEF Larger
  <2> QED
    BY <2>1, <2>2
<1> DEFINE cut == from - ps[k].start
           e == Evicted(ps, from)
<1>17. /\ e \in Seq(Part)
       /\ Len(e) = l + 2 - k
       /\ e[1] = [start |-> ps[k].start + cut, position |-> ps[k].position + cut,
                  length |-> ps[k].length - cut, sequence |-> ps[k].sequence]
       /\ \A i \in 2 .. l + 2 - k : e[i] = ps[k + i - 1]
  <2>1. k \in 1 .. Len(ps) /\ Len(ps) + 1 - k = l + 2 - k
    BY <1>8
  <2>2. /\ e \in Seq(Part)
        /\ Len(e) = Len(ps) + 1 - k
        /\ e[1] = [start |-> ps[k].start + (Larger(ps[k].start, from) - ps[k].start),
                   position |-> ps[k].position + (Larger(ps[k].start, from) - ps[k].start),
                   length |-> ps[k].length - (Larger(ps[k].start, from) - ps[k].start),
                   sequence |-> ps[k].sequence]
        /\ \A i \in 2 .. Len(e) : e[i] = ps[k + i - 1]
    BY <1>5, <1>8, <1>9, <2>1, EvictedParts
  <2> HIDE DEF e
  <2> QED
    BY <1>16, <2>1, <2>2
<1>18. /\ e[1].start = from /\ e[1].position = ps[k].position + cut
       /\ PartEnd(e[1]) = PartEnd(ps[k])
  <2>1. ps[k].start \in Nat /\ ps[k].length \in Nat /\ PartEnd(ps[k]) = ps[k].start + ps[k].length
    BY <1>10, PartTypes DEF PartEnd
  <2>2. e[1].start = ps[k].start + cut /\ e[1].position = ps[k].position + cut /\ e[1].length = ps[k].length - cut
    BY <1>17
  <2> QED
    BY <1>5, <2>1, <2>2 DEF PartEnd
<1> HIDE DEF e, cut
<1>19. \A i \in 1 .. l + 2 - k : /\ k + i - 1 \in 1 .. l + 1
                                 /\ PartEnd(e[i]) = PartEnd(ps[k + i - 1])
                                 /\ i > 1 => e[i] = ps[k + i - 1]
  BY <1>8, <1>17, <1>18
<1>20. parts' = e
  BY <1>4 DEF e
<1>21. DOMAIN e = 1 .. l + 2 - k /\ e # <<>> /\ Len(e) = l + 2 - k /\ l + 2 - k >= 1
  BY <1>8, <1>17
<1>22. ASSUME StreamIsKept, chunk <= Limit
       PROVE  StreamIsKept'
  <2>1. n = chunk /\ \A i \in 1 .. l + 1 : ps[i].position = ps[i].start
    BY <1>12, <1>22
  <2>2. ps[k].start + cut = from
    BY <1>5, <1>11 DEF cut
  <2>3. \A i \in DOMAIN e : e[i].position = e[i].start
    BY <1>18, <1>19, <1>21, <2>1, <2>2
  <2> QED
    BY <1>3, <1>20, <1>22, <2>1, <2>3 DEF StreamIsKept
<1>23. \A i \in DOMAIN e : i + 1 \in DOMAIN e => e[i + 1].start = PartEnd(e[i])
  <2> SUFFICES ASSUME NEW i \in 1 .. l + 2 - k, i + 1 \in 1 .. l + 2 - k
               PROVE  e[i + 1].start = PartEnd(e[i])
    BY <1>21
  <2>1. e[i + 1] = ps[k + i]
    BY <1>8, <1>17
  <2>2. k + i - 1 \in 1 .. l /\ (k + i - 1) + 1 = k + i
    BY <1>8
  <2>3. ps[k + i].start = PartEnd(ps[k + i - 1])
    BY <1>13, <2>2
  <2> QED
    BY <1>19, <2>1, <2>3
<1>24. \A i, j \in DOMAIN e : i < j => PartEnd(e[i]) <= e[j].start
  <2> SUFFICES ASSUME NEW i \in 1 .. l + 2 - k, NEW j \in 1 .. l + 2 - k, i < j
               PROVE  PartEnd(e[i]) <= e[j].start
    BY <1>21
  <2>1. e[j] = ps[k + j - 1] /\ PartEnd(e[i]) = PartEnd(ps[k + i - 1])
    BY <1>19
  <2>2. k + i - 1 \in 1 .. l + 1 /\ k + j - 1 \in 1 .. l + 1 /\ k + i - 1 < k + j - 1
    BY <1>8
  <2> QED
    BY <1>14, <2>1, <2>2
<1>25. PartEnd(e[Len(e)]) = end + n
  <2>1. PartEnd(e[l + 2 - k]) = PartEnd(ps[l + 1])
    <3>1. l + 2 - k \in 1 .. l + 2 - k /\ k + (l + 2 - k) - 1 = l + 1
      BY <1>8
    <3> QED
      BY <1>19, <3>1
  <2> QED
    BY <1>6, <1>8, <1>21, <2>1
<1>26. Start' = from
  BY <1>18, <1>20, <1>21 DEF Start
<1>27. end' - Start' = Smaller(end', Limit)
  BY <1>1, <1>2, <1>3, <1>26 DEF from, Larger, Smaller
<1>28. end' \in Nat /\ written' \in Nat /\ end' <= written' /\ sequence' \in Nat /\ end <= end'
  BY <1>1, <1>2, <1>3
<1>29. RingIsWhole'
  BY <1>3, <1>17, <1>20, <1>21, <1>23, <1>24, <1>25, <1>27, <1>28 DEF RingIsWhole, e
<1> QED
  BY <1>22, <1>28, <1>29

\* Every cursor from the oldest one to the end is in one of the parts.
LEMMA PartsHoldEverything ==
  ASSUME RingIsWhole, NEW c \in Nat, Start <= c, c < end
  PROVE  \E i \in DOMAIN parts : parts[i].start <= c /\ c < PartEnd(parts[i])
<1>1. parts \in Seq(Part) /\ end \in Nat
  BY DEF RingIsWhole
<1>2. parts # <<>> /\ PartEnd(parts[Len(parts)]) = end
  BY <1>1 DEF RingIsWhole
<1>3. PICK k \in 1 .. Len(parts) : c < PartEnd(parts[k]) /\ \A j \in 1 .. k - 1 : PartEnd(parts[j]) <= c
  BY <1>1, <1>2, FirstBeyond
<1>4. CASE k = 1
  BY <1>2, <1>3, <1>4 DEF Start
<1>5. CASE k # 1
  <2>1. k - 1 \in DOMAIN parts /\ (k - 1) + 1 \in DOMAIN parts /\ k - 1 \in 1 .. k - 1 /\ (k - 1) + 1 = k
    BY <1>1, <1>3, <1>5
  <2>2. parts[k].start = PartEnd(parts[k - 1])
    BY <2>1 DEF RingIsWhole
  <2> QED
    BY <1>3, <2>1, <2>2
<1> QED
  BY <1>4, <1>5

LEMMA StartType ==
  ASSUME RingIsWhole
  PROVE  Start \in Nat /\ end \in Nat
<1>1. end \in Nat /\ parts \in Seq(Part)
  BY DEF RingIsWhole
<1>2. parts # <<>> => parts[1] \in Part
  BY <1>1
<1> QED
  BY <1>1, <1>2, PartTypes DEF Start

LEMMA NextCursorType ==
  ASSUME RingIsWhole, NEW from \in Nat, NEW max \in Nat
  PROVE  Read(from, max).next \in Nat
BY StartType DEF Read, Larger, Smaller

\* A read returns the bytes of the stream up to the next cursor, and says where they begin.
LEMMA ReadIsExact ==
  ASSUME RingIsWhole, StreamIsKept, NEW from \in Nat, from <= end, NEW max \in Nat \ {0}
  PROVE  LET r == Read(from, max)
         IN /\ r.next \in Nat /\ r.next <= end /\ r.lost \in Nat
            /\ from + r.lost <= r.next
            /\ r.bytes = [i \in 1 .. r.next - (from + r.lost) |-> from + r.lost + i - 1]
            /\ r.lost > 0 => from + r.lost < r.next
<1> DEFINE oldest == Larger(from, Start)
           next == Smaller(oldest + max, Larger(end, oldest))
<1>1. end \in Nat /\ parts \in Seq(Part) /\ Limit \in Nat \ {0} /\ end - Start = Smaller(end, Limit)
  BY RingAssumption DEF RingIsWhole
<1>2. Start \in Nat
  BY StartType
<1>3. /\ oldest \in Nat /\ from <= oldest /\ Start <= oldest /\ oldest <= end
      /\ next \in Nat /\ oldest <= next /\ next <= end
      /\ oldest > from => oldest < next
  BY <1>1, <1>2 DEF Larger, Smaller
<1> HIDE DEF oldest, next
<1>4. Read(from, max) = [bytes |-> Bytes(oldest, next), next |-> next, lost |-> oldest - from]
  BY DEF Read, oldest, next
<1>5. Bytes(oldest, next) = [i \in 1 .. next - oldest |-> oldest + i - 1]
  <2> DEFINE Held(c) == CHOOSE i \in DOMAIN parts : parts[i].start <= c /\ c < PartEnd(parts[i])
             Byte(c) == parts[Held(c)].position + c - parts[Held(c)].start
  <2>1. ASSUME NEW c \in Nat, Start <= c, c < end
        PROVE  Byte(c) = c
    <3>1. Held(c) \in DOMAIN parts
      BY <2>1, PartsHoldEverything
    <3>2. parts[Held(c)] \in Part /\ parts[Held(c)].position = parts[Held(c)].start
      BY <1>1, <3>1 DEF StreamIsKept
    <3>3. parts[Held(c)].start \in Nat
      BY <3>2, PartTypes
    <3> HIDE DEF Held
    <3> QED
      BY <2>1, <3>2, <3>3
  <2>2. \A i \in 1 .. next - oldest : oldest + i - 1 \in Nat /\ Start <= oldest + i - 1 /\ oldest + i - 1 < end
    BY <1>1, <1>2, <1>3
  <2>3. \A i \in 1 .. next - oldest : Byte(oldest + i - 1) = oldest + i - 1
    BY <2>1, <2>2
  <2>4. Bytes(oldest, next) = [i \in 1 .. next - oldest |-> Byte(oldest + i - 1)]
    BY DEF Bytes
  <2> HIDE DEF Byte
  <2> QED
    BY <2>3, <2>4
<1>6. from + (oldest - from) = oldest /\ oldest - from \in Nat
  BY <1>3
<1> QED
  BY <1>3, <1>4, <1>5, <1>6

LEMMA Concatenated ==
  ASSUME NEW s \in Seq(Nat), NEW t \in Seq(Nat)
  PROVE  /\ s \o t \in Seq(Nat)
         /\ Len(s \o t) = Len(s) + Len(t)
         /\ \A i \in 1 .. Len(s) + Len(t) : (s \o t)[i] = IF i <= Len(s) THEN s[i] ELSE t[i - Len(s)]
OBVIOUS

\* A client that takes an answer to its cursor goes on where it is.
LEMMA TakeKeepsReader ==
  ASSUME RingIsWhole, StreamIsKept, ReaderInv, cursor <= end, NEW max \in Nat \ {0}, Take(Read(cursor, max))
  PROVE  ReaderInv' /\ cursor' <= end
<1> DEFINE r == Read(cursor, max)
           first == cursor + r.lost
           n == r.next - first
<1>1. /\ cursor \in Nat /\ missed \in Nat /\ received \in Seq(Nat)
      /\ cursor = Len(received) + missed
  BY DEF ReaderInv
<1>2. /\ r.next \in Nat /\ r.next <= end /\ r.lost \in Nat /\ first <= r.next
      /\ r.bytes = [i \in 1 .. n |-> first + i - 1]
      /\ r.lost > 0 => first < r.next
  BY <1>1, ReadIsExact
<1>3. received' = received \o r.bytes /\ missed' = missed + r.lost /\ cursor' = r.next
  BY DEF Take
<1> HIDE DEF r
<1>4. first \in Nat /\ n \in Nat /\ first + n = r.next
  <2>1. r.next \in Nat /\ r.lost \in Nat /\ first <= r.next
    BY <1>2
  <2>2. first \in Nat
    BY <1>1, <2>1
  <2> HIDE DEF first
  <2> QED
    BY <2>1, <2>2
<1>5. r.bytes \in Seq(Nat) /\ Len(r.bytes) = n /\ \A i \in 1 .. n : r.bytes[i] = first + i - 1
  <2>1. \A i \in 1 .. n : first + i - 1 \in Nat
    BY <1>4
  <2> QED
    BY <1>2, <1>4, <2>1
<1> DEFINE l == Len(received)
<1>l. l \in Nat /\ cursor = l + missed
  BY <1>1
<1> HIDE DEF first, n
<1>6. /\ received' \in Seq(Nat) /\ Len(received') = l + n
      /\ \A i \in 1 .. l : received'[i] = received[i]
      /\ \A i \in l + 1 .. l + n : received'[i] = first + (i - l) - 1
  <2>1. /\ received' \in Seq(Nat) /\ Len(received') = l + n
        /\ \A i \in 1 .. l + n : received'[i] = IF i <= l THEN received[i] ELSE r.bytes[i - l]
    <3>1. r.bytes \in Seq(Nat) /\ received \in Seq(Nat) /\ Len(r.bytes) = n /\ n \in Nat
      BY <1>1, <1>4, <1>5
    <3> QED
      BY <1>3, <3>1, Concatenated DEF l
  <2> HIDE DEF l
  <2>2. \A i \in l + 1 .. l + n : i - l \in 1 .. n /\ i \in 1 .. l + n /\ ~(i <= l)
    BY <1>l, <1>4
  <2>3. \A i \in 1 .. l : i \in 1 .. l + n /\ i <= l
    BY <1>l, <1>4
  <2> QED
    BY <1>5, <2>1, <2>2, <2>3
<1>r. /\ \A i \in 2 .. l : received[i - 1] < received[i]
      /\ l > 0 => received[l] = cursor - 1
      /\ l = 0 => missed = 0
  BY <1>1 DEF ReaderInv
<1> HIDE DEF l
<1>7. cursor' = Len(received') + missed'
  <2>1. Len(received') = l + n /\ missed' = missed + r.lost /\ cursor' = r.next
    BY <1>3, <1>6
  <2>2. r.lost \in Nat /\ missed \in Nat
    BY <1>1, <1>2
  <2>3. first = l + missed + r.lost
    BY <1>l DEF first
  <2> QED
    BY <1>l, <1>4, <2>1, <2>2, <2>3
<1>8. \A i \in 2 .. l + n : received'[i - 1] < received'[i]
  <2> SUFFICES ASSUME NEW i \in 2 .. l + n
               PROVE  received'[i - 1] < received'[i]
    OBVIOUS
  <2>1. CASE i <= l
    <3>1. i \in 2 .. l /\ i \in 1 .. l /\ i - 1 \in 1 .. l
      BY <1>l, <2>1
    <3> QED
      BY <1>6, <1>r, <3>1
  <2>2. CASE i = l + 1
    <3>1. i - 1 = l /\ l \in 1 .. l /\ l > 0 /\ i \in l + 1 .. l + n
      BY <1>l, <1>4, <2>2
    <3>2. received'[i - 1] = cursor - 1 /\ received'[i] = first
      BY <1>l, <1>4, <1>6, <1>r, <2>2, <3>1
    <3> QED
      BY <1>1, <1>2, <3>2 DEF first
  <2>3. CASE i > l + 1
    <3>1. i \in l + 1 .. l + n /\ i - 1 \in l + 1 .. l + n
      BY <1>l, <1>4, <2>3
    <3>2. received'[i] = first + (i - l) - 1 /\ received'[i - 1] = first + ((i - 1) - l) - 1
      BY <1>6, <3>1
    <3> QED
      BY <1>l, <1>4, <3>1, <3>2
  <2> QED
    BY <1>l, <1>4, <2>1, <2>2, <2>3
<1>9. /\ l + n = 0 => missed' = 0
      /\ l + n > 0 => received'[l + n] = cursor' - 1
  <2>1. CASE n = 0
    <3>1. r.lost = 0 /\ cursor' = cursor /\ missed' = missed
      BY <1>1, <1>2, <1>3, <1>4, <2>1 DEF first
    <3>2. l + n = l /\ (l > 0 => l \in 1 .. l)
      BY <1>l, <2>1
    <3> QED
      BY <1>6, <1>r, <1>l, <3>1, <3>2
  <2>2. CASE n > 0
    <3>1. l + n \in l + 1 .. l + n /\ l + n > 0
      BY <1>l, <1>4, <2>2
    <3>2. received'[l + n] = first + ((l + n) - l) - 1
      BY <1>6, <3>1
    <3> QED
      BY <1>l, <1>3, <1>4, <3>1, <3>2
  <2> QED
    BY <1>4, <2>1, <2>2
<1>10. IF received' = <<>> THEN missed' = 0 ELSE received'[Len(received')] = cursor' - 1
  <2>1. received' = <<>> <=> Len(received') = 0
    BY <1>6
  <2>2. Len(received') = l + n /\ l + n \in Nat
    BY <1>l, <1>4, <1>6
  <2> QED
    BY <1>9, <2>1, <2>2
<1>11. cursor' \in Nat /\ missed' \in Nat /\ cursor' <= end
  BY <1>1, <1>2, <1>3
<1>12. \A i \in 2 .. Len(received') : received'[i - 1] < received'[i]
  BY <1>6, <1>8
<1> QED
  BY <1>6, <1>7, <1>10, <1>11, <1>12 DEF ReaderInv

----
(* Calls *)

\* What a call that returns leaves behind.
Answered(c, what) ==
  /\ at' \in [Call -> Place] /\ code' \in [Call -> Code] /\ args' = args
  /\ \A d \in Call \ {c} : at'[d] = at[d] /\ code'[d] = code[d]
  /\ \/ at'[c] = "idle" /\ code'[c] = "none" /\ args[c].asked.op # "write"
     \/ at'[c] = "returned" /\ code'[c] = what /\ args[c].asked.op # "output"

MayAnswer(c, what) ==
  \/ at[c] = "sent" /\ Answered(c, what)
  \/ UNCHANGED callVars

LEMMA ReturnsAnswers ==
  ASSUME TypeOK, NEW c \in Call, NEW what \in Code, Returns(c, what)
  PROVE  Answered(c, what)
<1>1. /\ at \in [Call -> Place] /\ code \in [Call -> Code]
      /\ {"idle", "returned"} \subseteq Place /\ "none" \in Code
  BY DEF TypeOK, Place, Code
<1>2. CASE Repeats(c, what)
  BY <1>1, <1>2 DEF Returns, Repeats, Answers, Goes, Answered
<1>3. CASE ~Repeats(c, what)
  BY <1>1, <1>3 DEF Returns, Repeats, Answers, Goes, Answered
<1> QED
  BY <1>2, <1>3

LEMMA RespondsAnswers ==
  ASSUME TypeOK, NEW c \in Call, NEW what \in Code, Responds(c, what)
  PROVE  MayAnswer(c, what)
BY ReturnsAnswers DEF Responds, MayAnswer

\* What serving a request comes to for the call it is of.
Served(c, what) ==
  /\ c \in line /\ line' = line \ {c} /\ life' = life
  /\ MayAnswer(c, what)
  /\ \/ /\ typed' = typed
        /\ args[c].asked.op = "write" => what \in {"terminal_not_writable", "terminal_not_found"}
     \/ /\ args[c].asked.op = "write" /\ what = "ok"
        /\ typed' = typed \cup {c}

LEMMA ServeServes ==
  ASSUME TypeOK, NEW c \in Call, Serve(c)
  PROVE  \E what \in Code : Served(c, what)
<1>0. {"ok", "not_allowed", "idempotency_conflict", "terminal_not_writable", "terminal_not_found", "terminal_closed"} \subseteq Code
  BY DEF Code
<1>1. ASSUME NEW t, RespondsWithTerminal(c, t)
      PROVE  MayAnswer(c, "ok")
  BY <1>0, <1>1, ReturnsAnswers DEF RespondsWithTerminal, MayAnswer
<1>2. ASSUME NEW read, RespondsWithOutput(c, read)
      PROVE  MayAnswer(c, "ok")
  BY <1>0, <1>2, ReturnsAnswers DEF RespondsWithOutput, MayAnswer
<1>3. ASSUME NEW what \in Code, Responds(c, what)
      PROVE  MayAnswer(c, what)
  BY <1>3, RespondsAnswers
<1>4. ASSUME NEW op, Handles(c, op)
      PROVE  c \in line /\ args[c].asked.op = op /\ line' = line \ {c} /\ life' = life
  BY <1>4 DEF Handles
<1>5. CASE RefuseSpawn(c)
  BY <1>0, <1>3, <1>4, <1>5 DEF RefuseSpawn, Served
<1>6. CASE SpawnAgain(c)
  BY <1>0, <1>1, <1>3, <1>4, <1>6 DEF SpawnAgain, Served
<1>7. CASE Spawn(c)
  BY <1>0, <1>1, <1>4, <1>7 DEF Spawn, Served
<1>8. CASE Write(c)
  <2>1. CASE typed' = typed \cup {c} /\ Responds(c, "ok")
    BY <1>0, <1>3, <1>4, <1>8, <2>1 DEF Write, Served
  <2>2. CASE /\ typed' = typed
             /\ \/ Responds(c, "terminal_not_writable")
                \/ Responds(c, "terminal_not_found")
    BY <1>0, <1>3, <1>4, <1>8, <2>2 DEF Write, Served
  <2> QED
    BY <1>8, <2>1, <2>2 DEF Write
<1>9. CASE Output(c)
  BY <1>0, <1>2, <1>3, <1>4, <1>9 DEF Output, Served
<1>10. CASE ResizeOrSignal(c)
  <2>1. PICK op \in {"resize", "signal"} : Handles(c, op)
    BY <1>10 DEF ResizeOrSignal
  <2>2. typed' = typed /\ \E what \in {"ok", "terminal_closed", "terminal_not_found"} : Responds(c, what)
    BY <1>10 DEF ResizeOrSignal
  <2> QED
    BY <1>0, <1>3, <1>4, <2>1, <2>2 DEF Served
<1>11. CASE Close(c)
  BY <1>0, <1>3, <1>4, <1>11 DEF Close, Served
<1> QED
  BY <1>5, <1>6, <1>7, <1>8, <1>9, <1>10, <1>11 DEF Serve

CallTypes ==
  /\ at \in [Call -> Place] /\ args \in [Call -> Asking] /\ code \in [Call -> Code]
  /\ line \subseteq Call /\ typed \subseteq Call

\* The invariants of one call.
CallIsRight(c) ==
  /\ at[c] \in InFlight \/ c \in line => args[c].asked \in Options[c] /\ InRange(args[c].asked)
  /\ c \in line => at[c] # "posted"
  /\ at[c] # "returned" => code[c] = "none"
  /\ c \in line /\ args[c].asked.op = "write" => at[c] # "idle"
  /\ c \in typed => /\ args[c].asked.op = "write"
                    /\ at[c] \in {"sent", "returned"}
                    /\ c \notin line
  /\ args[c].asked.op = "write" =>
       /\ code[c] = "ok" => c \in typed
       /\ code[c] \notin {"none", "ok", "terminal_write_outcome_unknown", "gateway_lost"} => c \notin typed \cup line

LEMMA CallsAreRight ==
  (\A c \in Call : CallIsRight(c)) <=> CallsAreSent /\ WritesAreSentOnce /\ WriteAnswersAreTrue
BY Zenon DEF CallIsRight, CallsAreSent, WritesAreSentOnce, WriteAnswersAreTrue

\* A call the step is not about stays right, though its request may be lost.
LEMMA OtherCallsStayRight ==
  ASSUME NEW c \in Call, CallIsRight(c),
         at'[c] = at[c], args'[c] = args[c], code'[c] = code[c],
         c \in line' => c \in line, c \in typed' <=> c \in typed
  PROVE  CallIsRight(c)'
BY DEF CallIsRight

LEMMA CallsStep ==
  ASSUME CallsInv, Next
  PROVE  CallTypes' /\ CallsAreSent' /\ WritesAreSentOnce' /\ WriteAnswersAreTrue'
<1>1. CallTypes /\ TypeOK /\ \A c \in Call : CallIsRight(c)
  BY CallsAreRight DEF CallsInv, TypeOK, CallTypes
<1>2. /\ {"idle", "posted", "sent", "returned"} = Place
      /\ {"none", "ok", "invalid_request", "terminal_not_found", "terminal_unavailable",
          "terminal_write_outcome_unknown", "gateway_lost"} \subseteq Code
  BY DEF Place, Code
<1>3. SUFFICES CallTypes' /\ \A c \in Call : CallIsRight(c)'
  <2>1. (\A c \in Call : CallIsRight(c)') => CallsAreSent' /\ WritesAreSentOnce' /\ WriteAnswersAreTrue'
    BY Zenon DEF CallIsRight, CallsAreSent, WritesAreSentOnce, WriteAnswersAreTrue
  <2> QED
    BY <2>1
<1>4. \A c \in Call : \A a \in Options[c] : Request(a) \in Asking /\ [asked |-> a, terminal |-> NoTerminal, cursor |-> 0] \in Asking
  <2>1. cursor \in Nat /\ known \in Nat \cup {NoTerminal}
    BY <1>1 DEF TypeOK
  <2>2. \A c \in Call : \A a \in Options[c] : a \in Asked
    BY DEF Asked
  <2> QED
    BY <2>1, <2>2 DEF Request, Asking
<1>5. ASSUME NEW c \in Call, Invoke(c)
      PROVE  CallTypes' /\ \A d \in Call : CallIsRight(d)'
  <2>1. PICK a \in Options[c] : InRange(a) /\ args' = [args EXCEPT ![c] = Request(a)]
    BY <1>5 DEF Invoke
  <2>2. /\ at[c] = "idle" /\ c \notin line /\ at' = [at EXCEPT ![c] = "posted"]
        /\ code' = code /\ line' = line /\ typed' = typed
    BY <1>5 DEF Invoke, Goes, serviceVars
  <2>3. CallTypes'
    BY <1>1, <1>2, <1>4, <2>1, <2>2 DEF CallTypes
  <2>4. at'[c] = "posted" /\ args'[c] = Request(a) /\ args'[c].asked = a
    BY <1>1, <2>1, <2>2 DEF CallTypes, Request
  <2>5. CallIsRight(c)'
    BY <1>1, <2>1, <2>2, <2>4 DEF CallIsRight
  <2>6. \A d \in Call \ {c} : CallIsRight(d)'
    BY <1>1, <2>1, <2>2, OtherCallsStayRight DEF CallTypes
  <2> QED
    BY <2>3, <2>5, <2>6
<1>6. ASSUME NEW c \in Call, Reject(c)
      PROVE  CallTypes' /\ \A d \in Call : CallIsRight(d)'
  <2>1. PICK a \in Options[c] : args' = [args EXCEPT ![c] = [asked |-> a, terminal |-> NoTerminal, cursor |-> 0]]
    BY <1>6 DEF Reject
  <2>2. /\ at[c] = "idle" /\ c \notin line /\ at' = [at EXCEPT ![c] = "returned"]
        /\ code' = [code EXCEPT ![c] = "invalid_request"] /\ line' = line /\ typed' = typed
    BY <1>6 DEF Reject, Answers, Goes, serviceVars
  <2>3. CallTypes'
    BY <1>1, <1>2, <1>4, <2>1, <2>2 DEF CallTypes
  <2>4. at'[c] = "returned" /\ code'[c] = "invalid_request"
    BY <1>1, <2>2 DEF CallTypes
  <2>5. CallIsRight(c)'
    BY <1>1, <2>2, <2>4 DEF CallIsRight, InFlight
  <2>6. \A d \in Call \ {c} : CallIsRight(d)'
    BY <1>1, <2>1, <2>2, OtherCallsStayRight DEF CallTypes
  <2> QED
    BY <2>3, <2>5, <2>6
<1>7. ASSUME NEW c \in Call, NEW what \in Code, at[c] \in InFlight, Answered(c, what),
             line' = line, typed' = typed,
             args[c].asked.op = "write" =>
               \/ at[c] = "posted" /\ what # "ok"
               \/ what = "terminal_write_outcome_unknown"
      PROVE  CallTypes' /\ \A d \in Call : CallIsRight(d)'
  <2>1. CallTypes'
    BY <1>1, <1>7 DEF CallTypes, Answered
  <2>2. CallIsRight(c)'
    BY <1>1, <1>7 DEF CallIsRight, Answered, InFlight
  <2>3. \A d \in Call \ {c} : CallIsRight(d)'
    BY <1>1, <1>7, OtherCallsStayRight DEF Answered
  <2> QED
    BY <2>1, <2>2, <2>3
<1>8. ASSUME NEW c \in Call, NotServed(c)
      PROVE  CallTypes' /\ \A d \in Call : CallIsRight(d)'
  <2>1. Answered(c, "terminal_not_found") /\ at[c] = "posted" /\ line' = line /\ typed' = typed
    BY <1>1, <1>2, <1>8, ReturnsAnswers DEF NotServed, serviceVars
  <2> QED
    BY <1>2, <1>7, <2>1 DEF InFlight
<1>9. ASSUME NEW c \in Call, GiveUp(c)
      PROVE  CallTypes' /\ \A d \in Call : CallIsRight(d)'
  <2>1. PICK what \in Code : /\ Answered(c, what)
                             /\ args[c].asked.op = "write" =>
                                  \/ at[c] = "posted" /\ what # "ok"
                                  \/ what = "terminal_write_outcome_unknown"
    <3> DEFINE w == IF args[c].asked.op = "write" /\ at[c] = "sent" THEN "terminal_write_outcome_unknown"
                                                                    ELSE "terminal_unavailable"
    <3>1. at[c] \in {"posted", "sent"} /\ Returns(c, w)
      BY <1>9 DEF GiveUp
    <3>2. w \in Code
      BY <1>2
    <3>3. args[c].asked.op = "write" =>
            \/ at[c] = "posted" /\ w # "ok"
            \/ w = "terminal_write_outcome_unknown"
      BY <3>1
    <3> HIDE DEF w
    <3>4. Answered(c, w)
      BY <1>1, <3>1, <3>2, ReturnsAnswers
    <3> QED
      BY <3>2, <3>3, <3>4
  <2>2. at[c] \in InFlight /\ line' = line /\ typed' = typed
    BY <1>9 DEF GiveUp, InFlight, serviceVars
  <2> QED
    BY <1>7, <2>1, <2>2
<1>10. ASSUME NEW c \in Call, Connect(c)
       PROVE  CallTypes' /\ \A d \in Call : CallIsRight(d)'
  <2>1. /\ at[c] = "posted" /\ at' = [at EXCEPT ![c] = "sent"] /\ line' = line \cup {c}
        /\ args' = args /\ code' = code /\ typed' = typed
    BY <1>10 DEF Connect, Goes
  <2>2. CallTypes'
    BY <1>1, <1>2, <2>1 DEF CallTypes
  <2>3. at'[c] = "sent"
    BY <1>1, <2>1 DEF CallTypes
  <2>4. CallIsRight(c)'
    BY <1>1, <2>1, <2>3 DEF CallIsRight, InFlight
  <2>5. \A d \in Call \ {c} : CallIsRight(d)'
    BY <1>1, <2>1, OtherCallsStayRight DEF CallTypes
  <2> QED
    BY <2>2, <2>4, <2>5
<1>11. ASSUME NEW c \in Call, Serve(c)
       PROVE  CallTypes' /\ \A d \in Call : CallIsRight(d)'
  <2>1. PICK what \in Code : Served(c, what)
    BY <1>1, <1>11, ServeServes
  <2>2. /\ args' = args /\ at' \in [Call -> Place] /\ code' \in [Call -> Code]
        /\ \A d \in Call \ {c} : at'[d] = at[d] /\ code'[d] = code[d]
    BY <1>1, <2>1 DEF Served, MayAnswer, Answered, callVars, CallTypes
  <2>3. CallTypes'
    BY <1>1, <2>1, <2>2 DEF CallTypes, Served
  <2>4. \A d \in Call \ {c} : CallIsRight(d)'
    BY <1>1, <2>1, <2>2, OtherCallsStayRight DEF Served
  <2>5. c \notin line' /\ c \in line /\ c \notin typed /\ CallIsRight(c)
    BY <1>1, <2>1 DEF Served, CallIsRight
  <2>6. ASSUME UNCHANGED callVars
        PROVE  CallIsRight(c)'
    <3>1. at[c] \in {"idle", "posted", "sent", "returned"} /\ at' = at /\ args' = args /\ code' = code
      BY <1>1, <1>2, <2>6 DEF CallTypes, callVars
    <3> QED
      BY <2>1, <2>5, <3>1 DEF CallIsRight, Served
  <2>7. ASSUME at[c] = "sent", Answered(c, what)
        PROVE  CallIsRight(c)'
    BY <2>1, <2>5, <2>7 DEF CallIsRight, Answered, Served, InFlight
  <2> QED
    BY <2>1, <2>3, <2>4, <2>6, <2>7 DEF Served, MayAnswer
<1>12. ASSUME UNCHANGED callVars, line' = line \/ line' = {}, typed' = typed
       PROVE  CallTypes' /\ \A d \in Call : CallIsRight(d)'
  <2>1. CallTypes'
    BY <1>1, <1>12 DEF CallTypes, callVars
  <2>2. \A d \in Call : CallIsRight(d)'
    BY <1>1, <1>12, OtherCallsStayRight DEF callVars
  <2> QED
    BY <2>1, <2>2
<1>13. ASSUME GatewayRestart
       PROVE  CallTypes' /\ \A d \in Call : CallIsRight(d)'
  <2> DEFINE Failed == {c \in Call : at[c] \in InFlight}
             Again == {c \in Failed : Repeats(c, "gateway_lost")}
  <2>1. /\ at' = [c \in Call |-> IF c \in Again THEN "idle" ELSE IF c \in Failed THEN "returned" ELSE at[c]]
        /\ code' = [c \in Call |-> IF c \in Again THEN "none" ELSE IF c \in Failed THEN "gateway_lost" ELSE code[c]]
        /\ args' = args /\ line' = line /\ typed' = typed
    BY <1>13 DEF GatewayRestart, serviceVars
  <2>2. CallTypes'
    BY <1>1, <1>2, <2>1 DEF CallTypes
  <2>3. ASSUME NEW c \in Call
        PROVE  CallIsRight(c)'
    <3>1. CASE c \in Again
      <4>1. at'[c] = "idle" /\ code'[c] = "none" /\ args[c].asked.op # "write"
        BY <2>1, <3>1 DEF Repeats
      <4> HIDE DEF Failed, Again
      <4> QED
        BY <1>1, <2>1, <4>1 DEF CallIsRight, InFlight
    <3>2. CASE c \in Failed \ Again
      <4>1. at'[c] = "returned" /\ code'[c] = "gateway_lost" /\ at[c] \in InFlight
        BY <2>1, <3>2
      <4> HIDE DEF Failed, Again
      <4> QED
        BY <1>1, <2>1, <4>1 DEF CallIsRight, InFlight
    <3>3. CASE c \notin Failed
      <4>1. at'[c] = at[c] /\ code'[c] = code[c]
        BY <2>1, <3>3
      <4> HIDE DEF Failed, Again
      <4> QED
        BY <1>1, <2>1, <4>1, OtherCallsStayRight
    <3> QED
      BY <3>1, <3>2, <3>3
  <2> QED
    BY <2>2, <2>3
<1>14. CASE \E n \in Chunk : ShellWrites(n)
  BY <1>12, <1>14 DEF ShellWrites
<1>15. CASE ShellEnds
  BY <1>12, <1>15 DEF ShellEnds
<1>16. CASE ServiceRestart
  BY <1>12, <1>16 DEF ServiceRestart
<1> QED
  BY <1>5, <1>6, <1>8, <1>9, <1>10, <1>11, <1>13, <1>14, <1>15, <1>16 DEF Next

----
(* The service *)

LEMMA EmptyRingIsWhole ==
  ASSUME EmptyRing
  PROVE  RingIsWhole' /\ StreamIsKept' /\ end' = 0
BY RingAssumption DEF EmptyRing, RingIsWhole, StreamIsKept, Start, Smaller

ServiceTypes ==
  /\ terminals \in Seq(Terminal)
  /\ spawned \in {NoSpawn} \cup [args : Asked, terminal : DOMAIN terminals]
  /\ known \in {NoTerminal} \cup DOMAIN terminals
  /\ life \in 0 .. MaxLife
  /\ cursor \in Nat

ServiceInv == ServiceTypes /\ RingIsWhole /\ LastIsSpawned /\ SpawnedOnce

\* Only the state of a terminal changes, and what the client knows.
LEMMA TerminalsStay ==
  ASSUME ServiceInv, terminals' \in Seq(Terminal), Len(terminals') = Len(terminals),
         \A t \in DOMAIN terminals : terminals'[t].life = terminals[t].life,
         spawned' = spawned, life' = life,
         known' \in {NoTerminal} \cup DOMAIN terminals, cursor' \in Nat,
         RingIsWhole'
  PROVE  ServiceInv'
<1>1. DOMAIN terminals' = DOMAIN terminals /\ DOMAIN terminals = 1 .. Len(terminals) /\ Len(terminals) \in Nat
  BY DEF ServiceInv, ServiceTypes
<1>2. ServiceTypes'
  BY <1>1 DEF ServiceInv, ServiceTypes
<1>3. LastIsSpawned'
  <2>1. spawned # NoSpawn => Len(terminals) \in DOMAIN terminals
    BY <1>1 DEF ServiceInv, ServiceTypes, LastIsSpawned
  <2> QED
    BY <1>1, <2>1 DEF ServiceInv, LastIsSpawned
<1>4. SpawnedOnce'
  BY <1>1 DEF ServiceInv, SpawnedOnce
<1> QED
  BY <1>2, <1>3, <1>4 DEF ServiceInv

\* A terminal changes its state and stays of its life.
LEMMA StateChanges ==
  ASSUME ServiceInv, NEW t \in DOMAIN terminals, NEW state \in {"running", "exited", "closed"},
         terminals' = [terminals EXCEPT ![t].state = state]
  PROVE  /\ terminals' \in Seq(Terminal) /\ Len(terminals') = Len(terminals)
         /\ \A u \in DOMAIN terminals : terminals'[u].life = terminals[u].life
<1>1. terminals \in Seq(Terminal) /\ DOMAIN terminals = 1 .. Len(terminals) /\ Len(terminals) \in Nat
  BY DEF ServiceInv, ServiceTypes
<1>2. terminals \in [1 .. Len(terminals) -> Terminal]
  BY <1>1
<1>3. \A u \in DOMAIN terminals : terminals'[u] \in Terminal /\ terminals'[u].life = terminals[u].life
  BY <1>1, <1>2 DEF Terminal
<1>4. terminals' \in [1 .. Len(terminals) -> Terminal]
  BY <1>1, <1>2, <1>3
<1> QED
  BY <1>1, <1>3, <1>4

LEMMA RingStays ==
  ASSUME RingIsWhole, UNCHANGED ringVars
  PROVE  RingIsWhole'
BY DEF RingIsWhole, ringVars, Start

\* A new terminal is the last, and the only one of its life.
LEMMA SpawnStep ==
  ASSUME ServiceInv, NEW c \in Call, args[c].asked \in Asked, Spawn(c)
  PROVE  ServiceInv'
<1> DEFINE l == Len(terminals)
           new == [state |-> "running", life |-> life]
<1>1. /\ terminals \in Seq(Terminal) /\ l \in Nat /\ DOMAIN terminals = 1 .. l
      /\ life \in 0 .. MaxLife /\ cursor \in Nat /\ known \in {NoTerminal} \cup 1 .. l
  BY DEF ServiceInv, ServiceTypes
<1>2. /\ spawned = NoSpawn /\ terminals' = Append(terminals, new) /\ life' = life
      /\ EmptyRing
  BY DEF Spawn, NewTerminal, Handles
<1>3. new \in Terminal /\ new.life = life
  BY <1>1 DEF Terminal
<1>4. /\ terminals' \in Seq(Terminal) /\ Len(terminals') = l + 1 /\ DOMAIN terminals' = 1 .. l + 1
      /\ terminals'[l + 1] = new
      /\ \A t \in 1 .. l : terminals'[t] = terminals[t]
  BY <1>1, <1>2, <1>3
<1> HIDE DEF new, l
<1>5. spawned' = [args |-> args[c].asked, terminal |-> l + 1]
  BY <1>4 DEF Spawn
<1>6. known' \in {NoTerminal} \cup 1 .. l + 1 /\ cursor' \in Nat
  <2>1. RespondsWithTerminal(c, l + 1)
    BY <1>4 DEF Spawn
  <2> QED
    BY <1>1, <2>1 DEF RespondsWithTerminal, readerVars
<1>7. ServiceTypes'
  BY <1>1, <1>2, <1>4, <1>5, <1>6 DEF ServiceTypes
<1>8. \A t \in 1 .. l : terminals[t].life < life /\ terminals[t] \in Terminal
  BY <1>1, <1>2 DEF ServiceInv, LastIsSpawned, l
<1>9. \A t \in 1 .. l + 1 : t = l + 1 \/ t \in 1 .. l
  BY <1>1
<1>10. \A t \in 1 .. l : terminals[t].life \in Nat
  BY <1>8 DEF Terminal
<1>11. spawned' # NoSpawn
  <2>1. l + 1 \in Nat
    BY <1>1
  <2> QED
    BY <1>5, <2>1, NamesAssumption
<1>12. LastIsSpawned'
  BY <1>1, <1>2, <1>3, <1>4, <1>5, <1>8, <1>9, <1>10, <1>11 DEF LastIsSpawned
<1>13. SpawnedOnce'
  <2> SUFFICES ASSUME NEW t \in 1 .. l + 1, NEW u \in 1 .. l + 1, terminals'[t].life = terminals'[u].life
               PROVE  t = u
    BY <1>4 DEF SpawnedOnce
  <2>1. CASE t \in 1 .. l /\ u \in 1 .. l
    BY <1>1, <1>4, <2>1 DEF ServiceInv, SpawnedOnce
  <2>2. CASE t = l + 1 /\ u \in 1 .. l
    BY <1>1, <1>3, <1>4, <1>8, <1>10, <2>2
  <2>3. CASE t \in 1 .. l /\ u = l + 1
    BY <1>1, <1>3, <1>4, <1>8, <1>10, <2>3
  <2> QED
    BY <1>9, <2>1, <2>2, <2>3
<1> QED
  BY <1>2, <1>7, <1>12, <1>13, EmptyRingIsWhole DEF ServiceInv

LEMMA ServiceStep ==
  ASSUME CallsInv, Next
  PROVE  ServiceInv'
<1>1. /\ ServiceInv
      /\ terminals \in Seq(Terminal)
      /\ known \in {NoTerminal} \cup DOMAIN terminals
      /\ life \in 0 .. MaxLife
      /\ cursor \in Nat
      /\ RingIsWhole
      /\ args \in [Call -> Asking]
  BY DEF CallsInv, TypeOK, ServiceInv, ServiceTypes
<1>2. ASSUME terminals' = terminals, spawned' = spawned, life' = life, UNCHANGED ringVars,
             known' \in {NoTerminal} \cup DOMAIN terminals, cursor' \in Nat
      PROVE  ServiceInv'
  <2>1. RingIsWhole'
    BY <1>1, <1>2, RingStays
  <2> QED
    BY <1>1, <1>2, <2>1, TerminalsStay
<1>3. ASSUME UNCHANGED <<ringVars, terminals, spawned>>, life' = life, UNCHANGED <<readerVars, known>>
      PROVE  ServiceInv'
  BY <1>1, <1>2, <1>3 DEF readerVars
<1>4. ASSUME NEW c \in Call, c \in line
      PROVE  args[c].asked \in Options[c] /\ InRange(args[c].asked) /\ args[c].asked \in Asked /\ args[c].cursor \in Nat
  BY <1>1, <1>4 DEF CallsInv, CallsAreSent, Asked, Asking
<1>5. ASSUME NEW c \in Call, Invoke(c) \/ Reject(c) \/ NotServed(c) \/ Connect(c) \/ GiveUp(c)
      PROVE  ServiceInv'
  BY <1>3, <1>5 DEF Invoke, Reject, NotServed, Connect, GiveUp, serviceVars
<1>6. ASSUME NEW c \in Call, RefuseSpawn(c) \/ Write(c) \/ ResizeOrSignal(c)
      PROVE  ServiceInv'
  BY <1>3, <1>6 DEF RefuseSpawn, Write, ResizeOrSignal, Handles
<1>7. ASSUME NEW c \in Call, SpawnAgain(c)
      PROVE  ServiceInv'
  <2>1. spawned.terminal \in DOMAIN terminals
    BY <1>1, <1>7 DEF SpawnAgain, ServiceInv, ServiceTypes
  <2>2. known' \in {NoTerminal} \cup DOMAIN terminals /\ cursor' \in Nat
    <3>1. CASE RespondsWithTerminal(c, spawned.terminal)
      BY <1>1, <2>1, <3>1 DEF RespondsWithTerminal, readerVars
    <3>2. CASE UNCHANGED <<readerVars, known>>
      BY <1>1, <3>2 DEF readerVars
    <3> QED
      BY <1>7, <3>1, <3>2 DEF SpawnAgain
  <2> QED
    BY <1>2, <1>7, <2>2 DEF SpawnAgain, Handles
<1>8. ASSUME NEW c \in Call, Spawn(c)
      PROVE  ServiceInv'
  BY <1>1, <1>4, <1>8, SpawnStep DEF Spawn, Handles
<1>9. ASSUME NEW c \in Call, Output(c)
      PROVE  ServiceInv'
  <2>1. c \in line /\ args[c].asked.op = "output"
    BY <1>9 DEF Output, Handles
  <2>2. args[c].asked.max_bytes \in Nat /\ args[c].cursor \in Nat
    BY <1>4, <2>1 DEF InRange
  <2> DEFINE read == Read(args[c].cursor, args[c].asked.max_bytes)
  <2>3. read.next \in Nat
    BY <1>1, <2>2, NextCursorType
  <2> HIDE DEF read
  <2>4. RespondsWithOutput(c, read) \/ UNCHANGED readerVars
    BY <1>9 DEF Output, read
  <2>5. cursor' \in Nat
    BY <1>1, <2>3, <2>4 DEF RespondsWithOutput, Take, readerVars
  <2> QED
    BY <1>1, <1>2, <1>9, <2>5 DEF Output, Handles
<1>10. ASSUME NEW c \in Call, Close(c)
       PROVE  ServiceInv'
  <2> DEFINE t == args[c].terminal
  <2>1. spawned' = spawned /\ life' = life /\ UNCHANGED <<ringVars, readerVars, known>>
    BY <1>10 DEF Close, Handles
  <2>2. CASE terminals' = terminals
    BY <1>3, <2>1, <2>2
  <2>3. CASE t \in DOMAIN terminals /\ terminals' = [terminals EXCEPT ![t].state = "closed"]
    <3>1. /\ terminals' \in Seq(Terminal) /\ Len(terminals') = Len(terminals)
          /\ \A u \in DOMAIN terminals : terminals'[u].life = terminals[u].life
      BY <1>1, <2>3, StateChanges
    <3>2. RingIsWhole' /\ cursor' \in Nat /\ known' \in {NoTerminal} \cup DOMAIN terminals
      BY <1>1, <2>1, RingStays DEF readerVars
    <3> QED
      BY <1>1, <2>1, <3>1, <3>2, TerminalsStay
  <2> QED
    BY <1>10, <2>2, <2>3 DEF Close, Current
<1>11. ASSUME NEW n \in Chunk, ShellWrites(n)
       PROVE  ServiceInv'
  <2>1. RingIsWhole'
    BY <1>1, <1>11, AppendKeepsRing DEF ShellWrites
  <2>2. terminals' = terminals /\ spawned' = spawned /\ life' = life /\ known' = known /\ cursor' = cursor
    BY <1>11 DEF ShellWrites, readerVars
  <2> QED
    BY <1>1, <2>1, <2>2, TerminalsStay
<1>12. ASSUME ShellEnds
       PROVE  ServiceInv'
  <2>1. PICK t \in DOMAIN terminals : terminals' = [terminals EXCEPT ![t].state = "exited"]
    BY <1>12 DEF ShellEnds
  <2>2. /\ terminals' \in Seq(Terminal) /\ Len(terminals') = Len(terminals)
        /\ \A u \in DOMAIN terminals : terminals'[u].life = terminals[u].life
    BY <1>1, <2>1, StateChanges
  <2>3. RingIsWhole'
    BY <1>1, <1>12, RingStays DEF ShellEnds
  <2>4. spawned' = spawned /\ life' = life /\ known' = known /\ cursor' = cursor
    BY <1>12 DEF ShellEnds, readerVars
  <2> QED
    BY <1>1, <2>2, <2>3, <2>4, TerminalsStay
<1>13. ASSUME ServiceRestart
       PROVE  ServiceInv'
  <2>1. /\ life' = life + 1 /\ life < MaxLife /\ spawned' = NoSpawn /\ terminals' = terminals
        /\ known' = known /\ cursor' = cursor /\ EmptyRing
    BY <1>13 DEF ServiceRestart, readerVars
  <2>2. ServiceTypes'
    BY <1>1, <2>1, NamesAssumption DEF ServiceTypes
  <2>3. \A t \in DOMAIN terminals : terminals[t].life \in Nat /\ terminals[t].life <= life
    <3>1. \A t \in DOMAIN terminals : terminals[t] \in Terminal
      BY <1>1
    <3> QED
      BY <1>1, <3>1 DEF Terminal, ServiceInv, LastIsSpawned
  <2>4. LastIsSpawned'
    BY <1>1, <2>1, <2>3 DEF LastIsSpawned
  <2>5. SpawnedOnce'
    BY <1>1, <2>1 DEF ServiceInv, SpawnedOnce
  <2> QED
    BY <2>1, <2>2, <2>4, <2>5, EmptyRingIsWhole DEF ServiceInv
<1>14. ASSUME GatewayRestart
       PROVE  ServiceInv'
  BY <1>3, <1>14 DEF GatewayRestart, serviceVars
<1> QED
  BY <1>5, <1>6, <1>7, <1>8, <1>9, <1>10, <1>11, <1>12, <1>13, <1>14 DEF Next, Serve

----
(* The theorems *)

LEMMA CallsInvSplit ==
  CallsInv <=> CallTypes /\ ServiceInv /\ CallsAreSent /\ WritesAreSentOnce /\ WriteAnswersAreTrue
BY DEF CallsInv, TypeOK, CallTypes, ServiceInv, ServiceTypes

LEMMA CallsInit == Init => CallsInv
<1> SUFFICES ASSUME Init
             PROVE  CallsInv
  OBVIOUS
<1>1. CallTypes
  <2>1. [asked |-> NoArgs, terminal |-> NoTerminal, cursor |-> 0] \in Asking
    BY DEF Asking
  <2> QED
    BY <2>1 DEF Init, CallTypes, Place, Code
<1>2. ServiceInv
  <2>1. ServiceTypes
    BY NamesAssumption DEF Init, NewReader, ServiceTypes
  <2>2. RingIsWhole
    BY RingAssumption DEF Init, NewRing, RingIsWhole, Start, Smaller
  <2>3. LastIsSpawned /\ SpawnedOnce
    BY DEF Init, LastIsSpawned, SpawnedOnce
  <2> QED
    BY <2>1, <2>2, <2>3 DEF ServiceInv
<1>3. CallsAreSent /\ WritesAreSentOnce /\ WriteAnswersAreTrue
  BY DEF Init, CallsAreSent, WritesAreSentOnce, WriteAnswersAreTrue, InFlight
<1> QED
  BY <1>1, <1>2, <1>3, CallsInvSplit

\* The invariant of the calls and of the service, from which the next three theorems follow.
THEOREM CallsInvariant == Spec => []CallsInv
<1>1. CallsInv /\ [Next]_vars => CallsInv'
  <2> SUFFICES ASSUME CallsInv, [Next]_vars
               PROVE  CallsInv'
    OBVIOUS
  <2>1. CASE Next
    <3>1. CallTypes' /\ CallsAreSent' /\ WritesAreSentOnce' /\ WriteAnswersAreTrue'
      BY <2>1, CallsStep
    <3>2. ServiceInv'
      BY <2>1, ServiceStep
    <3> QED
      BY <3>1, <3>2 DEF CallsInv, TypeOK, CallTypes, ServiceInv, ServiceTypes
  <2>2. CASE UNCHANGED vars
    BY <2>2 DEF vars, callVars, serviceVars, ringVars, readerVars, CallsInv, TypeOK, RingIsWhole, Start,
                LastIsSpawned, SpawnedOnce, CallsAreSent, WritesAreSentOnce, WriteAnswersAreTrue
  <2> QED
    BY <2>1, <2>2
<1> QED
  BY <1>1, CallsInit, PTL DEF Spec

\* Type correctness: every call, request, terminal and cursor is one the code can make.
THEOREM TypeCorrect == Spec => []TypeOK
<1>1. CallsInv => TypeOK
  BY DEF CallsInv
<1> QED
  BY <1>1, CallsInvariant, PTL

\* The ring holds the cursors before the end without a gap, as many as the limit allows, whatever
\* the lengths of the chunks (ring.js:5-18).
THEOREM RingKeepsWhatItCan == Spec => []RingIsWhole
<1>1. CallsInv => RingIsWhole
  BY DEF CallsInv
<1> QED
  BY <1>1, CallsInvariant, PTL

\* What the gateway says of a write is so, whatever is still in a socket when it gives up on the
\* service, and whichever of the two is restarted (terminal-client.js:19-76).
THEOREM WritesAreToldTruly == Spec => []WriteAnswersAreTrue
<1>1. CallsInv => WriteAnswersAreTrue
  BY DEF CallsInv
<1> QED
  BY <1>1, CallsInvariant, PTL

\* However often a spawn is tried again, and whichever answers are lost, an instance of the
\* service starts one terminal under a key (service.js:31-33, 46-47).
THEOREM OneTerminalPerLife == Spec => []SpawnedOnce
<1>1. CallsInv => SpawnedOnce
  BY DEF CallsInv
<1> QED
  BY <1>1, CallsInvariant, PTL

----
(* Reading *)

\* The calls that are in flight were so before, with the same arguments.
NoneSetsOut == \A c \in Call : at'[c] \in InFlight => at[c] \in InFlight /\ args'[c] = args[c]

LEMMA ServingSetsNoneOut ==
  ASSUME TypeOK, NEW c \in Call, Serve(c)
  PROVE  NoneSetsOut
<1>1. PICK what \in Code : Served(c, what)
  BY ServeServes
<1>2. CASE UNCHANGED callVars
  BY <1>2 DEF NoneSetsOut, callVars
<1>3. CASE Answered(c, what)
  BY <1>3 DEF NoneSetsOut, Answered, InFlight
<1> QED
  BY <1>1, <1>2, <1>3 DEF Served, MayAnswer

\* Only the last terminal is one of the present instance of the service.
LEMMA CurrentIsLast ==
  ASSUME CallsInv, NEW t, Current(t)
  PROVE  spawned # NoSpawn /\ t = Len(terminals)
<1>1. t \in 1 .. Len(terminals) /\ Len(terminals) \in Nat /\ terminals[t] \in Terminal /\ terminals[t].life = life
  BY DEF Current, CallsInv, TypeOK
<1>2. terminals[t].life \in Nat
  BY <1>1 DEF Terminal
<1> QED
  BY <1>1, <1>2 DEF CallsInv, LastIsSpawned

\* The reader is left alone.
LEMMA ReaderStays ==
  ASSUME ReaderInv, ReadsGoOn, NoneSetsOut, UNCHANGED <<readerVars, known>>
  PROVE  ReaderInv' /\ ReadsGoOn'
BY DEF ReaderInv, ReadsGoOn, NoneSetsOut, readerVars

\* The client is given a terminal, which it knows already or which is newer than what it knows.
LEMMA GivenTerminal ==
  ASSUME CallsInv, ReaderInv, ReadsGoOn, NoneSetsOut, NEW c \in Call,
         NEW t \in Nat, known # NoTerminal => known <= t,
         RespondsWithTerminal(c, t)
  PROVE  /\ ReaderInv' /\ ReadsGoOn'
         /\ UNCHANGED <<readerVars, known>> \/ (known' = t /\ cursor' = 0)
<1>1. CASE UNCHANGED <<readerVars, known>>
  BY <1>1, ReaderStays
<1>2. CASE known' = t /\ t # known /\ cursor' = 0 /\ received' = <<>> /\ missed' = 0
  <2>1. ReaderInv'
    BY <1>2 DEF ReaderInv
  <2>2. known # NoTerminal => known \in Nat /\ known < t
    BY <1>2 DEF CallsInv, TypeOK
  <2>3. known' # NoTerminal
    BY <1>2, NamesAssumption
  <2>4. ReadsGoOn'
    BY <1>2, <2>2, <2>3 DEF ReadsGoOn, NoneSetsOut
  <2> QED
    BY <1>2, <2>1, <2>4
<1> QED
  BY <1>1, <1>2 DEF RespondsWithTerminal, readerVars

LEMMA ReadingStep ==
  ASSUME ShortChunks, OneReader, ReadingInv, Next
  PROVE  StreamIsKept' /\ ReaderInv' /\ ReadsGoOn' /\ NotPastEnd'
<1>1. /\ CallsInv /\ TypeOK /\ RingIsWhole /\ StreamIsKept /\ ReaderInv /\ ReadsGoOn /\ NotPastEnd
      /\ at \in [Call -> Place] /\ args \in [Call -> Asking]
      /\ end \in Nat /\ cursor \in Nat
      /\ known \in {NoTerminal} \cup DOMAIN terminals
      /\ DOMAIN terminals = 1 .. Len(terminals) /\ Len(terminals) \in Nat
      /\ life \in Nat
  BY DEF ReadingInv, CallsInv, TypeOK, ReaderInv, RingIsWhole
<1>2. ASSUME UNCHANGED ringVars
      PROVE  StreamIsKept' /\ end' = end
  BY <1>1, <1>2 DEF StreamIsKept, ringVars
<1>3. ASSUME UNCHANGED ringVars, UNCHANGED <<readerVars, known>>, life' = life, NoneSetsOut,
             DOMAIN terminals' = DOMAIN terminals,
             \A t \in DOMAIN terminals : terminals'[t].life = terminals[t].life
      PROVE  StreamIsKept' /\ ReaderInv' /\ ReadsGoOn' /\ NotPastEnd'
  <2>1. ReaderInv' /\ ReadsGoOn'
    BY <1>1, <1>3, ReaderStays
  <2>2. NotPastEnd'
    BY <1>1, <1>2, <1>3 DEF NotPastEnd, Current, readerVars
  <2> QED
    BY <1>2, <1>3, <2>1, <2>2
<1>4. ASSUME NEW c \in Call, Invoke(c)
      PROVE  StreamIsKept' /\ ReaderInv' /\ ReadsGoOn' /\ NotPastEnd'
  <2>1. PICK a \in Options[c] : (a.op # "spawn" => known # NoTerminal) /\ args' = [args EXCEPT ![c] = Request(a)]
    BY <1>4 DEF Invoke
  <2>2. /\ at' = [at EXCEPT ![c] = "posted"]
        /\ UNCHANGED <<ringVars, terminals, readerVars, known, life>>
    BY <1>4 DEF Invoke, Goes, serviceVars
  <2>3. args'[c] = [asked |-> a, terminal |-> IF a.op = "spawn" THEN NoTerminal ELSE known,
                    cursor |-> IF a.op = "output" THEN cursor ELSE 0]
    BY <1>1, <2>1 DEF Request
  <2>4. args'[c].asked.op = "output" => known # NoTerminal /\ args'[c].terminal = known /\ args'[c].cursor = cursor
    BY <2>1, <2>3
  <2>5. \A d \in Call \ {c} : at'[d] = at[d] /\ args'[d] = args[d]
    BY <1>1, <2>1, <2>2
  <2>6. known # NoTerminal => known \in Nat /\ known <= known
    BY <1>1
  <2>7. ReadsGoOn'
    <3> SUFFICES ASSUME NEW d \in Call, at'[d] \in InFlight, args'[d].asked.op = "output"
                 PROVE  /\ known # NoTerminal /\ args'[d].terminal \in Nat
                        /\ args'[d].terminal <= known
                        /\ args'[d].terminal = known => args'[d].cursor = cursor
      BY <2>2 DEF ReadsGoOn, readerVars
    <3>1. CASE d = c
      BY <2>4, <2>6, <3>1
    <3>2. CASE d # c
      BY <1>1, <2>5, <3>2 DEF ReadsGoOn
    <3> QED
      BY <3>1, <3>2
  <2>8. ReaderInv' /\ NotPastEnd'
    BY <1>1, <1>2, <2>2 DEF ReaderInv, NotPastEnd, Current, readerVars
  <2> QED
    BY <1>2, <2>2, <2>7, <2>8
<1>5. ASSUME NEW c \in Call, Reject(c) \/ NotServed(c) \/ Connect(c) \/ GiveUp(c)
      PROVE  StreamIsKept' /\ ReaderInv' /\ ReadsGoOn' /\ NotPastEnd'
  <2>1. UNCHANGED <<ringVars, terminals, readerVars, known, life>>
    BY <1>5 DEF Reject, NotServed, Connect, GiveUp, serviceVars
  <2>2. NoneSetsOut
    <3>1. CASE Reject(c)
      BY <1>1, <3>1 DEF Reject, Answers, Goes, NoneSetsOut, InFlight
    <3>2. CASE Connect(c)
      BY <1>1, <3>2 DEF Connect, Goes, NoneSetsOut, InFlight
    <3>3. CASE \E what \in Code : Returns(c, what)
      <4>1. PICK what \in Code : Answered(c, what)
        BY <1>1, <3>3, ReturnsAnswers
      <4> QED
        BY <4>1 DEF Answered, NoneSetsOut, InFlight
    <3>4. NotServed(c) \/ GiveUp(c) => \E what \in Code : Returns(c, what)
      <4>1. {"terminal_not_found", "terminal_unavailable", "terminal_write_outcome_unknown"} \subseteq Code
        BY DEF Code
      <4> QED
        BY <4>1 DEF NotServed, GiveUp
    <3> QED
      BY <1>5, <3>1, <3>2, <3>3, <3>4
  <2> QED
    BY <1>3, <2>1, <2>2
<1>6. ASSUME NEW c \in Call, RefuseSpawn(c) \/ Write(c) \/ ResizeOrSignal(c)
      PROVE  StreamIsKept' /\ ReaderInv' /\ ReadsGoOn' /\ NotPastEnd'
  <2>1. NoneSetsOut
    BY <1>1, <1>6, ServingSetsNoneOut DEF Serve
  <2>2. UNCHANGED <<ringVars, terminals, readerVars, known, life>>
    BY <1>6 DEF RefuseSpawn, Write, ResizeOrSignal, Handles
  <2> QED
    BY <1>3, <2>1, <2>2
<1>7. ASSUME NEW c \in Call, SpawnAgain(c)
      PROVE  StreamIsKept' /\ ReaderInv' /\ ReadsGoOn' /\ NotPastEnd'
  <2>1. NoneSetsOut
    BY <1>1, <1>7, ServingSetsNoneOut DEF Serve
  <2>2. UNCHANGED <<ringVars, terminals, life>> /\ spawned # NoSpawn
    BY <1>7 DEF SpawnAgain, Handles
  <2>3. CASE UNCHANGED <<readerVars, known>>
    BY <1>3, <2>1, <2>2, <2>3
  <2>4. CASE RespondsWithTerminal(c, spawned.terminal)
    <3> DEFINE t == spawned.terminal
    <3>1. t = Len(terminals)
      BY <1>1, <2>2 DEF CallsInv, LastIsSpawned
    <3>2. t \in Nat /\ (known # NoTerminal => known <= t)
      BY <1>1, <3>1
    <3> HIDE DEF t
    <3>3. RespondsWithTerminal(c, t)
      BY <2>4 DEF t
    <3>4. /\ ReaderInv' /\ ReadsGoOn'
          /\ UNCHANGED <<readerVars, known>> \/ (known' = t /\ cursor' = 0)
      BY <1>1, <2>1, <3>2, <3>3, GivenTerminal
    <3>5. NotPastEnd'
      BY <1>1, <1>2, <2>2, <3>4 DEF NotPastEnd, Current, readerVars
    <3> QED
      BY <1>2, <2>2, <3>4, <3>5
  <2> QED
    BY <1>7, <2>3, <2>4 DEF SpawnAgain
<1>8. ASSUME NEW c \in Call, Spawn(c)
      PROVE  StreamIsKept' /\ ReaderInv' /\ ReadsGoOn' /\ NotPastEnd'
  <2>1. NoneSetsOut
    BY <1>1, <1>8, ServingSetsNoneOut DEF Serve
  <2> DEFINE l == Len(terminals)
             new == [state |-> "running", life |-> life]
  <2>2. EmptyRing /\ terminals' = Append(terminals, new) /\ life' = life /\ spawned = NoSpawn
    BY <1>8 DEF Spawn, NewTerminal, Handles
  <2>3. Len(terminals') = l + 1 /\ \A t \in 1 .. l : terminals'[t] = terminals[t]
    BY <1>1, <2>2 DEF TypeOK
  <2>4. StreamIsKept' /\ end' = 0
    BY <2>2, EmptyRingIsWhole
  <2>5. l + 1 \in Nat /\ (known # NoTerminal => known <= l + 1)
    BY <1>1
  <2>6. RespondsWithTerminal(c, l + 1)
    BY <1>8, <2>3 DEF Spawn
  <2>7. /\ ReaderInv' /\ ReadsGoOn'
        /\ UNCHANGED <<readerVars, known>> \/ (known' = l + 1 /\ cursor' = 0)
    BY <1>1, <2>1, <2>5, <2>6, GivenTerminal
  <2>8. NotPastEnd'
    <3>1. CASE UNCHANGED <<readerVars, known>>
      <4>1. known = NoTerminal => known \notin DOMAIN terminals'
        BY <1>1, <2>3, NamesAssumption, ServiceStep DEF ServiceInv, ServiceTypes
      <4>2. known # NoTerminal => terminals'[known].life = terminals[known].life /\ ~Current(known)
        BY <1>1, <2>2, <2>3, CurrentIsLast
      <4>3. ~Current(known)'
        BY <1>1, <2>2, <3>1, <4>1, <4>2 DEF Current
      <4> QED
        BY <4>3 DEF NotPastEnd
    <3>2. CASE cursor' = 0
      BY <2>4, <3>2 DEF NotPastEnd
    <3> QED
      BY <2>7, <3>1, <3>2
  <2> QED
    BY <2>4, <2>7, <2>8
<1>9. ASSUME NEW c \in Call, Output(c)
      PROVE  StreamIsKept' /\ ReaderInv' /\ ReadsGoOn' /\ NotPastEnd'
  <2>1. /\ NoneSetsOut
        /\ UNCHANGED <<ringVars, terminals, known, life>>
        /\ c \in line /\ args[c].asked.op = "output"
    BY <1>1, <1>9, ServingSetsNoneOut DEF Serve, Output, Handles
  <2> DEFINE max == args[c].asked.max_bytes
             from == args[c].cursor
  <2>2. args[c].asked \in Options[c] /\ max \in Nat \ {0}
    BY <1>1, <2>1 DEF CallsInv, CallsAreSent, InRange
  <2>3. CASE UNCHANGED readerVars
    BY <1>3, <2>1, <2>3
  <2>4. CASE /\ Current(args[c].terminal) /\ args[c].terminal = known
             /\ at[c] = "sent" /\ Returns(c, "ok") /\ Take(Read(from, max))
    <3>1. from = cursor
      BY <1>1, <2>1, <2>4 DEF ReadsGoOn, InFlight
    <3>2. cursor <= end
      BY <1>1, <2>4 DEF NotPastEnd
    <3>3. ReaderInv' /\ cursor' <= end
      BY <1>1, <2>2, <2>4, <3>1, <3>2, TakeKeepsReader
    <3>4. StreamIsKept' /\ end' = end
      BY <1>2, <2>1
    <3>5. NotPastEnd'
      BY <3>3, <3>4 DEF NotPastEnd
    <3>6. at'[c] \notin InFlight
      <4>1. Answered(c, "ok")
        BY <1>1, <2>4, ReturnsAnswers DEF Code
      <4> QED
        BY <4>1 DEF Answered, InFlight
    <3>7. ASSUME NEW d \in Call, d # c, at'[d] \in InFlight
          PROVE  args'[d].asked.op # "output"
      <4>1. at[d] \in InFlight /\ args'[d] = args[d]
        BY <2>1, <3>7 DEF NoneSetsOut
      <4>2. args[d].asked \in Options[d]
        BY <1>1, <4>1 DEF CallsInv, CallsAreSent
      <4> QED
        BY <2>1, <2>2, <3>7, <4>1, <4>2 DEF OneReader
    <3>8. ReadsGoOn'
      BY <3>6, <3>7 DEF ReadsGoOn
    <3> QED
      BY <3>3, <3>4, <3>5, <3>8
  <2> QED
    BY <1>9, <2>3, <2>4 DEF Output, RespondsWithOutput
<1>10. ASSUME NEW c \in Call, Close(c)
       PROVE  StreamIsKept' /\ ReaderInv' /\ ReadsGoOn' /\ NotPastEnd'
  <2>1. /\ NoneSetsOut
        /\ UNCHANGED <<ringVars, readerVars, known, life>>
    BY <1>1, <1>10, ServingSetsNoneOut DEF Serve, Close, Handles
  <2> DEFINE t == args[c].terminal
  <2>2. CASE terminals' = terminals
    BY <1>3, <2>1, <2>2
  <2>3. CASE t \in DOMAIN terminals /\ terminals' = [terminals EXCEPT ![t].state = "closed"]
    <3>1. /\ terminals' \in Seq(Terminal) /\ Len(terminals') = Len(terminals)
          /\ \A u \in DOMAIN terminals : terminals'[u].life = terminals[u].life
      BY <1>1, <2>3, StateChanges, CallsInvSplit
    <3>2. DOMAIN terminals' = DOMAIN terminals
      BY <1>1, <3>1
    <3> QED
      BY <1>3, <2>1, <3>1, <3>2
  <2> QED
    BY <1>10, <2>2, <2>3 DEF Close, Current
<1>11. ASSUME NEW n \in Chunk, ShellWrites(n)
       PROVE  StreamIsKept' /\ ReaderInv' /\ ReadsGoOn' /\ NotPastEnd'
  <2>1. UNCHANGED <<callVars, terminals, readerVars, known, life>> /\ AppendChunk(n)
    BY <1>11 DEF ShellWrites
  <2>2. n <= Limit
    BY DEF ShortChunks
  <2>3. RingIsWhole' /\ StreamIsKept' /\ end <= end'
    BY <1>1, <2>1, <2>2, AppendKeepsRing
  <2>4. NoneSetsOut
    BY <2>1 DEF NoneSetsOut, callVars
  <2>5. ReaderInv' /\ ReadsGoOn'
    BY <1>1, <2>1, <2>4, ReaderStays
  <2>6. NotPastEnd'
    <3>1. end' \in Nat
      BY <2>3 DEF RingIsWhole
    <3> QED
      BY <1>1, <2>1, <2>3, <3>1 DEF NotPastEnd, Current, readerVars
  <2> QED
    BY <2>3, <2>5, <2>6
<1>12. ASSUME ShellEnds
       PROVE  StreamIsKept' /\ ReaderInv' /\ ReadsGoOn' /\ NotPastEnd'
  <2>1. PICK t \in DOMAIN terminals : terminals' = [terminals EXCEPT ![t].state = "exited"]
    BY <1>12 DEF ShellEnds
  <2>2. /\ terminals' \in Seq(Terminal) /\ Len(terminals') = Len(terminals)
        /\ \A u \in DOMAIN terminals : terminals'[u].life = terminals[u].life
    BY <1>1, <2>1, StateChanges, CallsInvSplit
  <2>3. DOMAIN terminals' = DOMAIN terminals
    BY <1>1, <2>2
  <2>4. NoneSetsOut /\ UNCHANGED <<ringVars, readerVars, known, life>>
    BY <1>12 DEF ShellEnds, NoneSetsOut, callVars
  <2> QED
    BY <1>3, <2>2, <2>3, <2>4
<1>13. ASSUME ServiceRestart
       PROVE  StreamIsKept' /\ ReaderInv' /\ ReadsGoOn' /\ NotPastEnd'
  <2>1. EmptyRing /\ life' = life + 1 /\ UNCHANGED <<callVars, terminals, readerVars, known>>
    BY <1>13 DEF ServiceRestart
  <2>2. StreamIsKept'
    BY <2>1, EmptyRingIsWhole
  <2>3. NoneSetsOut
    BY <2>1 DEF NoneSetsOut, callVars
  <2>4. ReaderInv' /\ ReadsGoOn'
    BY <1>1, <2>1, <2>3, ReaderStays
  <2>5. NotPastEnd'
    <3>1. \A t \in DOMAIN terminals : terminals[t] \in Terminal /\ terminals[t].life <= life
      BY <1>1 DEF TypeOK, CallsInv, LastIsSpawned
    <3>2. \A t \in DOMAIN terminals : terminals[t].life \in Nat
      BY <3>1 DEF Terminal
    <3>3. ~Current(known)'
      BY <1>1, <2>1, <3>1, <3>2 DEF Current
    <3> QED
      BY <3>3 DEF NotPastEnd
  <2> QED
    BY <2>2, <2>4, <2>5
<1>14. ASSUME GatewayRestart
       PROVE  StreamIsKept' /\ ReaderInv' /\ ReadsGoOn' /\ NotPastEnd'
  <2>1. UNCHANGED <<args, ringVars, terminals, readerVars, known, life>>
    BY <1>14 DEF GatewayRestart, serviceVars
  <2>2. NoneSetsOut
    BY <1>1, <1>14 DEF GatewayRestart, NoneSetsOut, InFlight
  <2> QED
    BY <1>3, <2>1, <2>2
<1> QED
  BY <1>4, <1>5, <1>6, <1>7, <1>8, <1>9, <1>10, <1>11, <1>12, <1>13, <1>14 DEF Next, Serve

\* As long as no chunk is longer than the ring and one call reads at a time, a client that goes on
\* from next_cursor gets the stream in order, each byte once, and is told of every byte it does not
\* get (ring.js:5-32, service.js:50-75); and no more is evicted than the limit asks for.
THEOREM NothingIsMissed ==
  ASSUME ShortChunks, OneReader
  PROVE  Spec => []NothingMissedSilently
<1>1. Init => ReadingInv
  <2> SUFFICES ASSUME Init
               PROVE  ReadingInv
    OBVIOUS
  <2>1. StreamIsKept /\ ReaderInv
    BY DEF Init, NewRing, NewReader, StreamIsKept, ReaderInv
  <2>2. ReadsGoOn
    BY DEF Init, ReadsGoOn, InFlight
  <2>3. NotPastEnd
    BY DEF Init, NewRing, NewReader, NotPastEnd
  <2> QED
    BY <2>1, <2>2, <2>3, CallsInit DEF ReadingInv
<1>2. ReadingInv /\ CallsInv' /\ [Next]_vars => ReadingInv'
  <2> SUFFICES ASSUME ReadingInv, CallsInv', [Next]_vars
               PROVE  ReadingInv'
    OBVIOUS
  <2>1. CASE Next
    BY <2>1, ReadingStep DEF ReadingInv
  <2>2. CASE UNCHANGED vars
    BY <2>2 DEF ReadingInv, vars, callVars, serviceVars, ringVars, readerVars, StreamIsKept, ReaderInv,
                ReadsGoOn, NotPastEnd, Current
  <2> QED
    BY <2>1, <2>2
<1>3. ReadingInv => NothingMissedSilently
  <2> SUFFICES ASSUME ReadingInv
               PROVE  NothingMissedSilently
    OBVIOUS
  <2>1. end - Start = Smaller(end, Limit)
    BY DEF ReadingInv, CallsInv, RingIsWhole
  <2>2. /\ received \in Seq(Nat) /\ Len(received) \in Nat /\ missed \in Nat /\ cursor \in Nat
        /\ cursor = Len(received) + missed
        /\ \A i \in 2 .. Len(received) : received[i - 1] < received[i]
    BY DEF ReadingInv, ReaderInv
  <2>3. Len(received) = 0 => missed = 0
    BY <2>2 DEF ReadingInv, ReaderInv
  <2>4. Len(received) # 0 => received[Len(received)] = cursor - 1
    BY <2>2 DEF ReadingInv, ReaderInv
  <2> QED
    BY <2>1, <2>2, <2>3, <2>4 DEF NothingMissedSilently
<1> QED
  BY <1>1, <1>2, <1>3, CallsInvariant, PTL DEF Spec

====
