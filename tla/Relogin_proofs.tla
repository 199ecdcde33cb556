---------------------------- MODULE Relogin_proofs ----------------------------
(***************************************************************************)
(* Proofs about the lock file and the pre-flight of `--relogin`, for any   *)
(* number of ricepilots, destinations, lock files and changes by anybody   *)
(* else.                                                                   *)
(***************************************************************************)
EXTENDS Relogin, FiniteSetTheorems, TLAPS

-----------------------------------------------------------------------------
(***************************************************************************)
(* The order in which gather reads                                         *)
(***************************************************************************)

Before == {"current", "journal", "retired", "rescue", "rows"}
After == {"lock", "socket", "units"}

\* The destinations in some order, each once.
LEMMA DestSequence ==
    /\ Cardinality(Dest) \in Nat
    /\ SetToSeq(Dest) \in [1..Cardinality(Dest) -> Dest]
<1>1. Cardinality(Dest) \in Nat /\ ExistsBijection(1..Cardinality(Dest), Dest)
  BY DestAssumption, FS_CardinalityType
<1>2. \E f \in [1..Cardinality(Dest) -> Dest] : IsInjective(f)
  BY <1>1 DEF ExistsBijection, Bijection, Injection
<1> QED BY <1>1, <1>2 DEF SetToSeq

\* A sequence over a set is one over any larger set.
LEMMA WiderSeq ==
    ASSUME NEW S, NEW T, S \subseteq T, NEW s \in Seq(S)
    PROVE  s \in Seq(T)
  OBVIOUS

\* What is where in two sequences put together.
LEMMA Concatenated ==
    ASSUME NEW S, NEW s \in Seq(S), NEW t \in Seq(S)
    PROVE  /\ s \o t \in Seq(S) /\ Len(s \o t) = Len(s) + Len(t)
           /\ \A i \in 1..Len(s) : (s \o t)[i] = s[i]
           /\ \A i \in Len(s) + 1..Len(s) + Len(t) : (s \o t)[i] = t[i - Len(s)]
  OBVIOUS

\* The rows are read before the links, and what is read is one of the facts
\* ReadOf knows.
LEMMA OrderOfReads ==
    /\ Len(Order) \in Nat \ {0}
    /\ DOMAIN Order = 1..Len(Order)
    /\ \A i \in 1..Len(Order) : Order[i] \in Before \union Dest \union After
    /\ \A i \in 1..Len(Order) : Order[i] = "rows" => i = 5
    /\ \A i \in 1..Len(Order) : Order[i] \in Dest => i > 5
<1> DEFINE n == Cardinality(Dest)
           first == <<"current", "journal", "retired", "rescue", "rows">>
           last == <<"lock", "socket", "units">>
           mid == SetToSeq(Dest)
<1>1. n \in Nat /\ mid \in [1..n -> Dest]
  BY DestSequence
<1>2. mid \in Seq(Dest) /\ Len(mid) = n
  BY <1>1
<1>3. first \in Seq(Before) /\ Len(first) = 5 /\ last \in Seq(After) /\ Len(last) = 3
  BY DEF Before, After
<1> DEFINE All == Before \union Dest \union After
<1>4. first \in Seq(All) /\ mid \in Seq(All) /\ last \in Seq(All)
  <2>1. Before \subseteq All /\ Dest \subseteq All /\ After \subseteq All
    OBVIOUS
  <2> HIDE DEF All, first, mid, last
  <2> QED BY <1>2, <1>3, <2>1, WiderSeq
<1>14. /\ first[1] \in Before /\ first[1] # "rows" /\ first[2] \in Before /\ first[2] # "rows"
       /\ first[3] \in Before /\ first[3] # "rows" /\ first[4] \in Before /\ first[4] # "rows"
       /\ first[5] \in Before
  BY DEF Before
<1>15. last[1] \in After /\ last[2] \in After /\ last[3] \in After
  BY DEF After
<1>5. Order = (first \o mid) \o last
  BY DEF Order
<1> HIDE DEF n, first, mid, last, All
<1> DEFINE both == first \o mid
<1>16. /\ both \in Seq(All) /\ Len(both) = n + 5
       /\ \A i \in 1..5 : both[i] = first[i]
       /\ \A i \in 6..(n + 5) : both[i] = mid[i - 5]
  <2>1. /\ both \in Seq(All) /\ Len(both) = Len(first) + Len(mid)
        /\ \A i \in 1..Len(first) : both[i] = first[i]
        /\ \A i \in Len(first) + 1..Len(first) + Len(mid) : both[i] = mid[i - Len(first)]
    BY <1>4, Concatenated
  <2> HIDE DEF both
  <2>2. Len(both) = n + 5 /\ Len(first) + Len(mid) = n + 5 /\ Len(first) + 1 = 6
    BY <1>1, <1>2, <1>3, <2>1
  <2> QED BY <1>3, <2>1, <2>2
<1>17. /\ Len(Order) = n + 8 /\ Order \in Seq(All)
       /\ \A i \in 1..(n + 5) : Order[i] = both[i]
       /\ \A i \in (n + 6)..(n + 8) : Order[i] = last[i - (n + 5)]
  <2> HIDE DEF both
  <2>1. /\ both \o last \in Seq(All) /\ Len(both \o last) = Len(both) + Len(last)
        /\ \A i \in 1..Len(both) : (both \o last)[i] = both[i]
        /\ \A i \in Len(both) + 1..Len(both) + Len(last) :
                (both \o last)[i] = last[i - Len(both)]
    BY <1>4, <1>16, Concatenated
  <2>2. Len(both) + Len(last) = n + 8 /\ Len(both) + 1 = n + 6
    BY <1>1, <1>3, <1>16
  <2>3. Order = both \o last
    BY <1>5 DEF both
  <2> QED BY <1>16, <2>1, <2>2, <2>3
<1> HIDE DEF both
<1>6. \A i \in 1..5 : Order[i] \in Before /\ (Order[i] = "rows" => i = 5)
  <2>1. \A i \in 1..5 : Order[i] = first[i]
    BY <1>1, <1>16, <1>17
  <2>2. \A i \in 1..5 : i = 1 \/ i = 2 \/ i = 3 \/ i = 4 \/ i = 5
    OBVIOUS
  <2> QED BY <1>14, <2>1, <2>2
<1>7. \A i \in 6..(n + 5) : Order[i] \in Dest
  <2> SUFFICES ASSUME NEW i \in 6..(n + 5) PROVE Order[i] \in Dest
    OBVIOUS
  <2>1. i - 5 \in 1..n /\ i \in 1..(n + 5)
    BY <1>1
  <2> QED BY <1>1, <1>16, <1>17, <2>1
<1>8. \A i \in (n + 6)..(n + 8) : Order[i] \in After
  <2> SUFFICES ASSUME NEW i \in (n + 6)..(n + 8) PROVE Order[i] \in After
    OBVIOUS
  <2>1. i - (n + 5) = 1 \/ i - (n + 5) = 2 \/ i - (n + 5) = 3
    BY <1>1
  <2> QED BY <1>15, <1>17, <2>1
<1>9. \A i \in 1..(n + 8) : i \in 1..5 \/ i \in 6..(n + 5) \/ i \in (n + 6)..(n + 8)
  BY <1>1
<1>10. Dest \intersect (Before \union After) = {} /\ "rows" \notin After
  BY WordsAssumption DEF Before, After
<1>11. DOMAIN Order = 1..Len(Order) /\ Len(Order) \in Nat \ {0}
  BY <1>1, <1>17
<1>12. ASSUME NEW i \in 1..Len(Order)
       PROVE  /\ Order[i] \in Before \union Dest \union After
              /\ Order[i] = "rows" => i = 5
              /\ Order[i] \in Dest => i > 5
  <2>1. CASE i \in 1..5
    BY <1>6, <1>10, <2>1
  <2>2. CASE i \in 6..(n + 5)
    <3>1. Order[i] \in Dest /\ i > 5
      BY <1>1, <1>7, <2>2
    <3>2. "rows" \in Before
      BY DEF Before
    <3> QED BY <1>10, <3>1, <3>2
  <2>3. CASE i \in (n + 6)..(n + 8)
    BY <1>8, <1>10, <2>3
  <2> QED BY <1>17, <1>9, <1>12, <2>1, <2>2, <2>3
<1> QED BY <1>11, <1>12

-----------------------------------------------------------------------------
(***************************************************************************)
(* Type correctness                                                        *)
(***************************************************************************)

\* The parts of the type, each disturbed by few of the steps.
LockTyped ==
    /\ at \in {Absent, Symlink, Fifo} \union 1..MaxFiles
    /\ files \in 0..MaxFiles
    /\ moved \in BOOLEAN

Pc == {"start", "opening", "locking", "deciding", "crossing", "pointing", "settling",
       "retiring", "reading", "judging", "asking", "stopping", "gone"}

MemoryTyped ==
    /\ fd \in [Proc -> {Absent, Another, Fifo} \union 1..MaxFiles]
    /\ pc \in [Proc -> Pc]
    /\ gen \in [Proc -> Nat]
    /\ next \in [Proc -> 0..Len(Order)]
    /\ answered \subseteq Proc

RecordsTyped ==
    /\ inflight \in Proc \union {Nobody}
    /\ retired \subseteq Nat
    /\ current \in Nat
    /\ script \in Scripts
    /\ link \in [Dest -> Thing]
    /\ row \in [Dest -> Thing]

SessionTyped ==
    socket \in Sockets /\ units \in 0..2 /\ changes \in 0..MaxChanges /\ env \in [Proc -> Environment]

SeenTyped == seen \in [Proc -> Sight]

\* The parts are the type.
LEMMA TypeParts ==
    TypeOK <=> /\ LockTyped /\ MemoryTyped /\ RecordsTyped /\ SessionTyped /\ SeenTyped
               /\ since \in [Proc -> SUBSET Fact]
  BY DEF TypeOK, LockTyped, MemoryTyped, RecordsTyped, SessionTyped, SeenTyped, Pc, Generations

\* Whoever reads has something left to read.
ReadsOn == \A p \in Proc : pc[p] = "reading" => next[p] \in 1..Len(Order)

\* What one process does, the answer and its death included.
Moves(p) == Step(p) \/ Answer(p) \/ Die(p)

\* What a step of p leaves alone: all that the others remember.
Apart(p) ==
    \A q \in Proc \ {p} :
        /\ pc'[q] = pc[q] /\ fd'[q] = fd[q] /\ gen'[q] = gen[q] /\ next'[q] = next[q]
        /\ seen'[q] = seen[q] /\ (q \in answered' <=> q \in answered)

\* The lock's path and its file.
LEMMA LockTypedStep ==
    ASSUME LockTyped, [Next]_vars
    PROVE  LockTyped'
<1>. USE BoundsAssumption DEF LockTyped, lockfile
<1>1. ASSUME NEW p \in Proc, Open(p) PROVE LockTyped'
  BY <1>1 DEF Open, Creates
<1>2. CASE MoveLockFile
  BY <1>2 DEF MoveLockFile
<1>3. CASE UNCHANGED lockfile
  BY <1>3
<1> QED
  BY <1>1, <1>2, <1>3 DEF Next, Step, Look, Lock, Begin, Cross, Point, Settle, Retire, Read,
     Judge, UwsmStop, Answer, Die, Change, vars

\* A process that goes forgets everything, and nobody else does.
LEMMA Going ==
    ASSUME MemoryTyped, SeenTyped, NEW p \in Proc, Goes(p)
    PROVE  /\ MemoryTyped' /\ Apart(p)
           /\ pc'[p] = "gone" /\ seen'[p] = Unread /\ p \notin answered'
  BY DEF Goes, To, MemoryTyped, SeenTyped, Apart, Pc, Absent

\* A process that goes on remembers what it did.
LEMMA Continuing ==
    ASSUME MemoryTyped, SeenTyped, NEW p \in Proc, NEW step \in Pc, Continues(p, step)
    PROVE  MemoryTyped' /\ Apart(p) /\ pc'[p] = step /\ UNCHANGED memory
  BY DEF Continues, To, MemoryTyped, SeenTyped, Apart, Pc, memory

\* A step of p changes what p remembers and nobody else's memory, and only a
\* step to a read leaves something to read.
LEMMA MemoryStep ==
    ASSUME LockTyped, MemoryTyped, SeenTyped, ReadsOn, current \in Nat,
           NEW p \in Proc, Moves(p)
    PROVE  MemoryTyped' /\ Apart(p) /\ ReadsOn'
<1>0. Len(Order) \in Nat \ {0}
  BY OrderOfReads
<1>1. CASE Goes(p)
  BY <1>1, Going DEF ReadsOn, Apart
<1>2. ASSUME NEW step \in Pc \ {"reading"}, Continues(p, step)
      PROVE  MemoryTyped' /\ Apart(p) /\ ReadsOn'
  BY <1>2, Continuing DEF ReadsOn, Apart
<1>3. ASSUME NEW file \in {Fifo} \union 1..MaxFiles, Opens(p, file)
      PROVE  MemoryTyped' /\ Apart(p) /\ ReadsOn'
  <2>1. MemoryTyped' /\ Apart(p) /\ pc'[p] = "locking"
    BY <1>3 DEF Opens, To, MemoryTyped, SeenTyped, Apart, Pc
  <2> QED BY <2>1 DEF ReadsOn, Apart
<1>4. CASE Cross(p)
  <2>1. MemoryTyped' /\ Apart(p) /\ pc'[p] = "pointing"
    BY <1>4 DEF Cross, To, MemoryTyped, SeenTyped, Apart, Pc
  <2> QED BY <2>1 DEF ReadsOn, Apart
<1>5. CASE Retire(p)
  <2>1. MemoryTyped' /\ Apart(p) /\ next'[p] = 1
    BY <1>0, <1>5 DEF Retire, To, MemoryTyped, SeenTyped, Apart, Pc
  <2> QED BY <1>0, <2>1 DEF ReadsOn, Apart
<1>6. CASE Read(p)
  <2>1. next[p] \in 1..Len(Order)
    BY <1>6 DEF Read, ReadsOn
  <2>2. UNCHANGED <<fd, gen, answered>> /\ \A q \in Proc \ {p} : seen'[q] = seen[q]
    BY <1>6 DEF Read, SeenTyped
  <2>3. CASE next[p] < Len(Order)
    <3>1. next' = [next EXCEPT ![p] = next[p] + 1] /\ pc' = pc
      BY <1>6, <2>3 DEF Read
    <3>2. next[p] + 1 \in 1..Len(Order)
      BY <1>0, <2>1, <2>3
    <3>3. MemoryTyped' /\ Apart(p) /\ next'[p] = next[p] + 1
      BY <1>0, <2>2, <3>1, <3>2 DEF MemoryTyped, Apart
    <3> QED BY <3>1, <3>2, <3>3 DEF ReadsOn, Apart
  <2>4. CASE ~(next[p] < Len(Order))
    <3>1. next' = [next EXCEPT ![p] = 0] /\ pc' = [pc EXCEPT ![p] = "judging"]
      BY <1>6, <2>4 DEF Read, To
    <3>3. MemoryTyped' /\ Apart(p) /\ pc'[p] = "judging"
      BY <1>0, <2>2, <3>1 DEF MemoryTyped, Apart, Pc
    <3> QED BY <3>1, <3>3 DEF ReadsOn, Apart
  <2> QED BY <2>3, <2>4
<1>7. CASE Judge(p) /\ ~Goes(p)
  <2>1. MemoryTyped' /\ Apart(p) /\ pc'[p] \in {"asking", "stopping"}
    BY <1>7 DEF Judge, To, MemoryTyped, SeenTyped, Apart, Pc
  <2> QED BY <2>1 DEF ReadsOn, Apart
<1>8. CASE Answer(p) /\ ~Goes(p)
  <2>1. /\ answered' = answered \union {p} /\ next' = [next EXCEPT ![p] = 1]
        /\ pc' = [pc EXCEPT ![p] = "reading"] /\ UNCHANGED <<fd, gen, seen>>
    BY <1>8 DEF Answer, Yes, To
  <2>2. MemoryTyped' /\ next'[p] = 1
    BY <1>0, <2>1 DEF MemoryTyped, Pc
  <2>3. Apart(p)
    BY <2>1 DEF MemoryTyped, Apart
  <2> QED BY <1>0, <2>2, <2>3 DEF ReadsOn, Apart
<1>9. CASE Open(p)
  <2>1. CASE at = Absent /\ files < MaxFiles /\ Opens(p, files + 1)
    BY <1>3, <2>1, BoundsAssumption DEF LockTyped
  <2>2. CASE at \notin {Absent, Symlink} /\ Opens(p, at)
    BY <1>3, <2>2 DEF LockTyped
  <2> QED BY <1>1, <1>9, <2>1, <2>2 DEF Open, Creates
<1>10. CASE Look(p) \/ Lock(p) \/ Begin(p) \/ Point(p) \/ Settle(p)
  BY <1>1, <1>2, <1>10 DEF Look, Lock, Begin, Point, Settle, Pc
<1>11. CASE UwsmStop(p) \/ Die(p)
  BY <1>1, <1>11 DEF UwsmStop, Die
<1> QED
  BY <1>1, <1>4, <1>5, <1>6, <1>7, <1>8, <1>9, <1>10, <1>11 DEF Moves, Step

\* The records keep their types.
LEMMA RecordsStep ==
    ASSUME RecordsTyped, MemoryTyped, [Next]_vars
    PROVE  RecordsTyped'
<1>0. \A to \in Source \union {"nothing", "other"} : Is(to) \in Thing
  BY DEF Is, Thing, Generations
<1>. USE DEF RecordsTyped, records
<1>1. ASSUME NEW p \in Proc, Begin(p) PROVE RecordsTyped'
  BY <1>1 DEF Begin
<1>2. ASSUME NEW p \in Proc, Cross(p) PROVE RecordsTyped'
  <2>1. \A d \in Dest : (IF Want[p][d] = "nothing" THEN Is("nothing")
                         ELSE [to |-> Want[p][d], id |-> current + 1]) \in Thing
    BY <1>0, WantAssumption DEF Thing, Generations
  <2> QED BY <1>2, <2>1 DEF Cross
<1>3. ASSUME NEW p \in Proc, Point(p) PROVE RecordsTyped'
  BY <1>3 DEF Point, MemoryTyped
<1>4. ASSUME NEW p \in Proc, Settle(p) PROVE RecordsTyped'
  <2>1. gen[p] - 1 \in Scripts
    BY DEF MemoryTyped, Scripts, Missing, Edited, Generations
  <2>2. \A d \in Dest : (IF Want[p][d] = "nothing" THEN Is("nothing") ELSE link[d]) \in Thing
    BY <1>0
  <2> QED BY <1>4, <2>1, <2>2 DEF Settle
<1>5. ASSUME NEW p \in Proc, Retire(p) PROVE RecordsTyped'
  BY <1>5 DEF Retire, MemoryTyped
<1>6. CASE Change
  <2>1. CASE UNCHANGED records
    BY <2>1
  <2>2. ASSUME NEW d \in Dest, NEW to \in Source \union {"nothing", "other"},
               link' = [link EXCEPT ![d] = Is(to)],
               UNCHANGED <<inflight, retired, current, script, row>>
        PROVE  RecordsTyped'
    BY <1>0, <2>2
  <2>3. CASE script' \in {Missing, Edited} /\ UNCHANGED <<inflight, retired, current, link, row>>
    BY <2>3 DEF Scripts
  <2> QED BY <1>6, <2>1, <2>2, <2>3 DEF Change
<1>7. CASE UNCHANGED records
  BY <1>7
<1> QED
  BY <1>1, <1>2, <1>3, <1>4, <1>5, <1>6, <1>7 DEF Next, Step, Look, Open, Lock, Read, Judge,
     UwsmStop, Answer, Die, vars

\* The session, the environments and the count of changes keep theirs.
LEMMA SessionStep ==
    ASSUME SessionTyped, [Next]_vars
    PROVE  SessionTyped'
<1>. USE BoundsAssumption DEF SessionTyped, session, Sockets
<1>1. ASSUME NEW p \in Proc, UwsmStop(p) PROVE SessionTyped'
  BY <1>1 DEF UwsmStop
<1>2. ASSUME NEW p \in Proc, Read(p) PROVE SessionTyped'
  BY <1>2 DEF Read
<1>3. CASE Change
  BY <1>3 DEF Change
<1>4. CASE UNCHANGED <<session, changes, env>>
  BY <1>4
<1> QED
  BY <1>1, <1>2, <1>3, <1>4 DEF Next, Step, Look, Open, Lock, Begin, Cross, Point, Settle,
     Retire, Judge, Answer, Die, vars

\* What each read adds to what p has seen, fact by fact.
LEMMA ReadEffect ==
    ASSUME SeenTyped, NEW p \in Proc
    PROVE  /\ ReadOf(p, "current") = [seen[p] EXCEPT !.current = current]
           /\ ReadOf(p, "journal") = [seen[p] EXCEPT !.journal = YesNo(inflight # Nobody)]
           /\ ReadOf(p, "retired") = [seen[p] EXCEPT !.done = YesNo(gen[p] \in retired)]
           /\ ReadOf(p, "rescue") = [seen[p] EXCEPT !.script = script]
           /\ ReadOf(p, "rows") = [seen[p] EXCEPT !.rows = row]
           /\ \A d \in Dest : ReadOf(p, d) = [seen[p] EXCEPT !.found[d] = link[d]]
           /\ ReadOf(p, "lock") = [seen[p] EXCEPT !.lock = YesNo(IsAtItsPath(p))]
           /\ ReadOf(p, "socket") = [seen[p] EXCEPT !.socket = socket]
           /\ ReadOf(p, "units") = [seen[p] EXCEPT !.units = units]
  BY WordsAssumption DEF ReadOf

\* And field by field: a read changes the field of its fact and no other.
LEMMA ReadSees ==
    ASSUME SeenTyped, NEW p \in Proc, NEW f \in Before \union Dest \union After
    PROVE  /\ f # "current" => ReadOf(p, f).current = seen[p].current
           /\ f = "current" => ReadOf(p, f).current = current
           /\ f # "journal" => ReadOf(p, f).journal = seen[p].journal
           /\ f = "journal" => (ReadOf(p, f).journal = "no" <=> inflight = Nobody)
           /\ f # "retired" => ReadOf(p, f).done = seen[p].done
           /\ f = "retired" => (ReadOf(p, f).done = "yes" <=> gen[p] \in retired)
           /\ f # "rescue" => ReadOf(p, f).script = seen[p].script
           /\ f = "rescue" => ReadOf(p, f).script = script
           /\ f # "rows" => ReadOf(p, f).rows = seen[p].rows
           /\ f = "rows" => ReadOf(p, f).rows = row
           /\ \A d \in Dest \ {f} : ReadOf(p, f).found[d] = seen[p].found[d]
           /\ f \in Dest => ReadOf(p, f).found[f] = link[f]
           /\ f # "lock" => ReadOf(p, f).lock = seen[p].lock
           /\ f = "lock" => (ReadOf(p, f).lock = "yes" <=> IsAtItsPath(p))
           /\ f # "socket" => ReadOf(p, f).socket = seen[p].socket
           /\ f = "socket" => ReadOf(p, f).socket = socket
           /\ f # "units" => ReadOf(p, f).units = seen[p].units
           /\ f = "units" => ReadOf(p, f).units = units
<1> DEFINE r == seen[p]
<1>0. r \in Sight
  BY DEF SeenTyped
<1>9. "current" \notin Dest /\ "journal" \notin Dest /\ "retired" \notin Dest
      /\ "rescue" \notin Dest /\ "rows" \notin Dest /\ "lock" \notin Dest
      /\ "socket" \notin Dest /\ "units" \notin Dest
  BY WordsAssumption
<1>1. CASE f = "current"
  <2>1. ReadOf(p, f) = [r EXCEPT !.current = current]
    BY <1>1, ReadEffect
  <2> QED BY <1>0, <1>9, <1>1, <2>1 DEF Sight
<1>2. CASE f = "journal"
  <2>1. ReadOf(p, f) = [r EXCEPT !.journal = YesNo(inflight # Nobody)]
    BY <1>2, ReadEffect
  <2>2. YesNo(inflight # Nobody) = "no" <=> inflight = Nobody
    BY DEF YesNo
  <2> QED BY <1>0, <1>9, <1>2, <2>1, <2>2 DEF Sight
<1>3. CASE f = "retired"
  <2>1. ReadOf(p, f) = [r EXCEPT !.done = YesNo(gen[p] \in retired)]
    BY <1>3, ReadEffect
  <2>2. YesNo(gen[p] \in retired) = "yes" <=> gen[p] \in retired
    BY DEF YesNo
  <2> QED BY <1>0, <1>9, <1>3, <2>1, <2>2 DEF Sight
<1>4. CASE f = "rescue"
  <2>1. ReadOf(p, f) = [r EXCEPT !.script = script]
    BY <1>4, ReadEffect
  <2> QED BY <1>0, <1>9, <1>4, <2>1 DEF Sight
<1>5. CASE f = "rows"
  <2>1. ReadOf(p, f) = [r EXCEPT !.rows = row]
    BY <1>5, ReadEffect
  <2> QED BY <1>0, <1>9, <1>5, <2>1 DEF Sight
<1>6. CASE f = "lock"
  <2>1. ReadOf(p, f) = [r EXCEPT !.lock = YesNo(IsAtItsPath(p))]
    BY <1>6, ReadEffect
  <2>2. YesNo(IsAtItsPath(p)) = "yes" <=> IsAtItsPath(p)
    BY DEF YesNo
  <2> QED BY <1>0, <1>9, <1>6, <2>1, <2>2 DEF Sight
<1>7. CASE f = "socket"
  <2>1. ReadOf(p, f) = [r EXCEPT !.socket = socket]
    BY <1>7, ReadEffect
  <2> QED BY <1>0, <1>9, <1>7, <2>1 DEF Sight
<1>8. CASE f = "units"
  <2>1. ReadOf(p, f) = [r EXCEPT !.units = units]
    BY <1>8, ReadEffect
  <2> QED BY <1>0, <1>9, <1>8, <2>1 DEF Sight
<1>10. CASE f \in Dest
  <2>1. ReadOf(p, f) = [r EXCEPT !.found[f] = link[f]]
    BY <1>10, ReadEffect
  <2> QED BY <1>0, <1>9, <1>10, <2>1 DEF Sight
<1> QED
  BY <1>1, <1>2, <1>3, <1>4, <1>5, <1>6, <1>7, <1>8, <1>10 DEF Before, After

\* A read leaves something of the kind it reads.
LEMMA ReadTyped ==
    ASSUME RecordsTyped, SessionTyped, SeenTyped, NEW p \in Proc,
           NEW f \in Before \union Dest \union After
    PROVE  ReadOf(p, f) \in Sight
<1> DEFINE r == seen[p]
<1>0. r \in Sight
  BY DEF SeenTyped
<1>1. CASE f = "current"
  <2>1. [r EXCEPT !.current = current] \in Sight
    BY <1>0 DEF Sight, RecordsTyped, Generations
  <2> QED BY <1>1, <2>1, ReadEffect
<1>2. CASE f = "journal"
  <2>1. \A a \in Answers : [r EXCEPT !.journal = a] \in Sight
    BY <1>0 DEF Sight
  <2>2. YesNo(inflight # Nobody) \in Answers
    BY DEF YesNo, Answers
  <2> QED BY <1>2, <2>1, <2>2, ReadEffect
<1>3. CASE f = "retired"
  <2>1. \A a \in Answers : [r EXCEPT !.done = a] \in Sight
    BY <1>0 DEF Sight
  <2>2. YesNo(gen[p] \in retired) \in Answers
    BY DEF YesNo, Answers
  <2> QED BY <1>3, <2>1, <2>2, ReadEffect
<1>4. CASE f = "rescue"
  <2>1. [r EXCEPT !.script = script] \in Sight
    BY <1>0 DEF Sight, RecordsTyped
  <2> QED BY <1>4, <2>1, ReadEffect
<1>5. CASE f = "rows"
  <2>1. [r EXCEPT !.rows = row] \in Sight
    BY <1>0 DEF Sight, RecordsTyped
  <2> QED BY <1>5, <2>1, ReadEffect
<1>6. CASE f \in Dest
  <2>1. [r EXCEPT !.found[f] = link[f]] \in Sight
    BY <1>0, <1>6 DEF Sight, RecordsTyped
  <2> QED BY <1>6, <2>1, ReadEffect
<1>7. CASE f = "lock"
  <2>1. \A a \in Answers : [r EXCEPT !.lock = a] \in Sight
    BY <1>0 DEF Sight
  <2>2. YesNo(IsAtItsPath(p)) \in Answers
    BY DEF YesNo, Answers
  <2> QED BY <1>7, <2>1, <2>2, ReadEffect
<1>8. CASE f = "socket"
  <2>1. [r EXCEPT !.socket = socket] \in Sight
    BY <1>0 DEF Sight, SessionTyped
  <2> QED BY <1>8, <2>1, ReadEffect
<1>9. CASE f = "units"
  <2>1. [r EXCEPT !.units = units] \in Sight
    BY <1>0 DEF Sight, SessionTyped
  <2> QED BY <1>9, <2>1, ReadEffect
<1> QED
  BY <1>1, <1>2, <1>3, <1>4, <1>5, <1>6, <1>7, <1>8, <1>9 DEF Before, After

\* Nothing read yet is of the type too.
LEMMA UnreadTyped == Unread \in Sight
  BY DEF Unread, Sight, Answers, Is, Thing, Unreadable, Generations

\* Every process has seen what it can have read.
LEMMA SeenStep ==
    ASSUME RecordsTyped, SessionTyped, MemoryTyped, SeenTyped, ReadsOn, [Next]_vars
    PROVE  SeenTyped'
<1>. USE UnreadTyped DEF SeenTyped
<1>1. ASSUME NEW p \in Proc, seen' = [seen EXCEPT ![p] = Unread] PROVE SeenTyped'
  BY <1>1
<1>2. ASSUME NEW p \in Proc, Read(p) PROVE SeenTyped'
  <2>1. Order[next[p]] \in Before \union Dest \union After
    BY <1>2, OrderOfReads DEF Read, ReadsOn
  <2>2. ReadOf(p, Order[next[p]]) \in Sight
    BY <2>1, ReadTyped
  <2> QED BY <1>2, <2>2 DEF Read
<1>3. CASE UNCHANGED seen
  BY <1>3
<1> QED
  BY <1>1, <1>2, <1>3 DEF Next, Step, Look, Open, Opens, Lock, Begin, Cross, Point, Settle,
     Retire, Judge, UwsmStop, Answer, Yes, Die, Goes, Continues, Change, memory, vars

\* Nobody but p's own steps touches what p remembers.
LEMMA ChangeApart ==
    ASSUME Change \/ UNCHANGED vars
    PROVE  UNCHANGED <<pc, env, memory>>
  BY DEF Change, vars, memory

\* The type and what makes it inductive.
Typed == TypeOK /\ ReadsOn

\* Every step keeps the type.
LEMMA TypedStep ==
    ASSUME Typed, [Next]_vars
    PROVE  Typed'
<1>1. LockTyped /\ MemoryTyped /\ RecordsTyped /\ SessionTyped /\ SeenTyped /\ ReadsOn
  BY TypeParts DEF Typed
<1>2. LockTyped' /\ RecordsTyped' /\ SessionTyped' /\ SeenTyped'
  BY <1>1, LockTypedStep, RecordsStep, SessionStep, SeenStep
<1>3. MemoryTyped' /\ ReadsOn'
  <2>1. ASSUME NEW p \in Proc, Moves(p) PROVE MemoryTyped' /\ ReadsOn'
    BY <1>1, <2>1, MemoryStep DEF RecordsTyped
  <2>2. CASE Change \/ UNCHANGED vars
    BY <1>1, <2>2, ChangeApart DEF MemoryTyped, ReadsOn, memory
  <2> QED BY <2>1, <2>2 DEF Next, Moves
<1>4. since' \in [Proc -> SUBSET Fact]
  <2>1. CASE Watch
    BY <2>1, TypeParts DEF Watch, Typed
  <2>2. CASE UNCHANGED vars
    BY <2>2, TypeParts DEF vars, Typed
  <2> QED BY <2>1, <2>2 DEF Next
<1> QED BY <1>2, <1>3, <1>4 DEF Typed, TypeOK, LockTyped, MemoryTyped, RecordsTyped, SessionTyped, SeenTyped, Pc, Generations

\* Init is of the type.
LEMMA InitTyped ==
    ASSUME Init
    PROVE  Typed
<1>1. 1 \in 1..MaxFiles /\ 0 \in 0..MaxFiles /\ 1 \in 0..MaxFiles
  BY BoundsAssumption
<1>2. LockTyped
  BY <1>1 DEF Init, LockTyped, Absent
<1>3. Len(Order) \in Nat
  BY OrderOfReads
<1>4. MemoryTyped /\ ReadsOn
  BY <1>3 DEF Init, MemoryTyped, Pc, ReadsOn
<1>5. RecordsTyped
  <2>1. PICK s \in [Dest -> Source] :
            link = [d \in Dest |-> [to |-> s[d], id |-> 1]] /\ row = link
    BY DEF Init
  <2>2. link \in [Dest -> Thing]
    BY <2>1 DEF Thing, Generations
  <2> QED BY <2>1, <2>2 DEF Init, RecordsTyped, Scripts, Generations
<1>6. SessionTyped
  BY BoundsAssumption DEF Init, SessionTyped, Sockets
<1>7. SeenTyped /\ since \in [Proc -> SUBSET Fact]
  BY UnreadTyped DEF Init, SeenTyped
<1> QED BY <1>2, <1>4, <1>5, <1>6, <1>7, TypeParts DEF Typed

\* Type correctness, and whoever reads has something left to read.
THEOREM ReloginIsTyped == Spec => []Typed
<1>1. Init => Typed
  BY InitTyped
<1>2. Typed /\ [Next]_vars => Typed'
  BY TypedStep
<1> QED BY <1>1, <1>2, PTL DEF Spec

-----------------------------------------------------------------------------
(***************************************************************************)
(* The lock                                                                *)
(***************************************************************************)

\* What is a file of the user's at the lock's path is the last one made, a
\* descriptor is one of those, and no two processes hold the same one.
LockInv ==
    /\ at > 0 => at = files
    /\ ~moved => at = files /\ files \in {0, 1}
    /\ \A p \in Proc : pc[p] = "locking" => fd[p] \in {Fifo} \union 1..files
    /\ \A p \in Proc : Holding(p) => fd[p] \in 1..files
    /\ \A p, q \in Proc : p # q /\ Holding(p) /\ Holding(q) => fd[p] # fd[q]

\* While the path is untouched there is one file, and one holder.
LEMMA OneHolder ==
    ASSUME LockInv, ~moved, NEW p \in Proc, NEW q \in Proc, Holding(p), Holding(q)
    PROVE  p = q
  BY DEF LockInv

\* A step with which nobody comes to hold a lock or opens a file.
LEMMA LockInvKept ==
    ASSUME LockInv, UNCHANGED lockfile,
           \A q \in Proc : \/ pc'[q] = "gone"
                           \/ pc'[q] \in {"start", "opening"}
                           \/ /\ fd'[q] = fd[q]
                              /\ \/ pc'[q] = pc[q]
                                 \/ Holding(q) /\ Holding(q)'
    PROVE  LockInv'
  BY DEF LockInv, lockfile, Holding

\* Every step keeps it.
LEMMA LockInvStep ==
    ASSUME Typed, LockInv, [Next]_vars
    PROVE  LockInv'
<1>0. LockTyped /\ MemoryTyped /\ SeenTyped
  BY TypeParts DEF Typed
<1>1. ASSUME NEW p \in Proc, Open(p) PROVE LockInv'
  <2>1. Apart(p)
    BY <1>0, <1>1, MemoryStep, TypeParts DEF Typed, Moves, Step, RecordsTyped
  <2>2. CASE Creates /\ Opens(p, files + 1)
    <3>1. at' = files + 1 /\ files' = files + 1 /\ at = 0 /\ moved' = moved
      BY <1>1, <2>2 DEF Creates, Open, Absent
    <3>2. pc'[p] = "locking" /\ fd'[p] = files + 1
      BY <1>0, <2>2 DEF Opens, To, MemoryTyped
    <3>3. files \in Nat
      BY <1>0 DEF LockTyped
    <3> QED BY <2>1, <3>1, <3>2, <3>3 DEF LockInv, Apart, Holding
  <2>3. CASE Goes(p) /\ UNCHANGED lockfile
    BY <1>0, <2>3, Going, LockInvKept DEF Apart
  <2>4. CASE at \notin {Absent, Symlink} /\ Opens(p, at) /\ UNCHANGED lockfile
    <3>2. pc'[p] = "locking" /\ fd'[p] = at
      BY <1>0, <2>4 DEF Opens, To, MemoryTyped
    <3>3. at \in {Fifo} \union 1..files
      BY <1>0, <2>4 DEF LockTyped, LockInv
    <3> QED BY <2>1, <2>4, <3>2, <3>3 DEF LockInv, Apart, Holding, lockfile
  <2> QED BY <1>1, <2>2, <2>3, <2>4 DEF Open, lockfile
<1>2. ASSUME NEW p \in Proc, Lock(p) PROVE LockInv'
  <2>1. Apart(p) /\ UNCHANGED lockfile /\ pc[p] = "locking"
    BY <1>0, <1>2, MemoryStep, TypeParts DEF Typed, Moves, Step, RecordsTyped, Lock
  <2>2. CASE Goes(p)
    BY <1>0, <2>1, <2>2, Going, LockInvKept DEF Apart
  <2>3. CASE fd[p] # Fifo /\ ~Taken(p) /\ Continues(p, "deciding")
    <3>1. pc'[p] = "deciding" /\ fd' = fd
      BY <1>0, <2>3, Continuing DEF Pc, memory
    <3>2. fd[p] \in 1..files /\ \A q \in Proc \ {p} : Holding(q) => fd[q] # fd[p]
      BY <2>1, <2>3 DEF LockInv, Taken
    <3> QED BY <2>1, <3>1, <3>2 DEF LockInv, Apart, Holding, lockfile
  <2> QED BY <1>2, <2>2, <2>3 DEF Lock
<1>3. ASSUME NEW p \in Proc, Look(p) PROVE LockInv'
  <2>1. Apart(p) /\ UNCHANGED lockfile
    BY <1>0, <1>3, MemoryStep, TypeParts DEF Typed, Moves, Step, RecordsTyped, Look
  <2>2. pc'[p] \in {"gone", "opening"}
    BY <1>0, <1>3, Going, Continuing DEF Look, Pc
  <2> QED BY <2>1, <2>2, LockInvKept DEF Apart
<1>4. ASSUME NEW p \in Proc,
             \/ Begin(p) \/ Cross(p) \/ Point(p) \/ Settle(p) \/ Retire(p)
             \/ Read(p) \/ Judge(p) \/ UwsmStop(p) \/ Answer(p) \/ Die(p)
      PROVE  LockInv'
  <2>1. Apart(p)
    BY <1>0, <1>4, MemoryStep, TypeParts DEF Typed, Moves, Step, RecordsTyped
  <2>2. UNCHANGED lockfile
    BY <1>4 DEF Begin, Cross, Point, Settle, Retire, Read, Judge, UwsmStop, Answer, Die
  <2>3. CASE Goes(p)
    BY <1>0, <2>1, <2>2, <2>3, Going, LockInvKept DEF Apart
  <2>4. CASE ~Goes(p)
    <3>1. Holding(p) /\ fd' = fd
      BY <1>4, <2>4 DEF Begin, Cross, Point, Settle, Retire, Read, Judge, UwsmStop, Answer,
         Yes, Die, Continues, memory, Holding
    <3>2. Holding(p)'
      <4>1. pc'[p] \in Pc \ {"start", "opening", "locking", "gone"}
        BY <1>0, <1>4, <2>4 DEF Begin, Cross, Point, Settle, Retire, Read, Judge, UwsmStop,
           Answer, Yes, Die, Continues, To, MemoryTyped, Pc
      <4> QED BY <4>1 DEF Holding
    <3> QED BY <2>1, <2>2, <3>1, <3>2, LockInvKept DEF Apart
  <2> QED BY <2>3, <2>4
<1>5. CASE Change
  <2>1. UNCHANGED <<pc, fd>>
    BY <1>5, ChangeApart DEF memory
  <2>2. CASE MoveLockFile
    <3>1. moved' = TRUE /\ files' \in {files, files + 1}
          /\ (at' \in {Absent, Symlink, Fifo} \/ at' = files')
      BY <2>2 DEF MoveLockFile
    <3>2. files \in Nat
      BY <1>0 DEF LockTyped
    <3> QED BY <2>1, <3>1, <3>2 DEF LockInv, Holding, Absent, Symlink, Fifo
  <2>3. CASE UNCHANGED lockfile
    BY <2>1, <2>3, LockInvKept
  <2> QED BY <1>5, <2>2, <2>3 DEF Change, lockfile
<1>6. CASE UNCHANGED vars
  BY <1>6, LockInvKept DEF vars, memory
<1> QED BY <1>1, <1>2, <1>3, <1>4, <1>5, <1>6 DEF Next, Step

\* Nobody locked a file that replaced the lock of a process that found its
\* own at the path.
THEOREM OnlyOlderLocks == Spec => OthersHoldOlderFiles
<1>1. Init => LockInv
  BY BoundsAssumption DEF Init, LockInv, Holding, Absent
<1>2. Typed /\ LockInv /\ [Next]_vars => LockInv'
  BY LockInvStep
<1>3. Typed /\ LockInv /\ [Next]_vars =>
        [\A p \in Proc : seen'[p].lock = "yes" /\ seen[p].lock # "yes" =>
            \A q \in Proc \ {p} : Holding(q) => fd[q] < fd[p]]_vars
  <2> SUFFICES ASSUME Typed, LockInv, Next, NEW p \in Proc,
                      seen'[p].lock = "yes", seen[p].lock # "yes",
                      NEW q \in Proc \ {p}, Holding(q)
               PROVE  fd[q] < fd[p]
    BY DEF vars
  <2>0. LockTyped /\ MemoryTyped /\ SeenTyped /\ RecordsTyped
    BY TypeParts DEF Typed
  <2>1. Unread.lock # "yes"
    BY DEF Unread
  <2>2. Moves(p) /\ ~Goes(p)
    <3>1. ASSUME NEW r \in Proc \ {p}, Moves(r) PROVE FALSE
      BY <2>0, <3>1, MemoryStep DEF Apart, Typed, RecordsTyped
    <3>2. ~Change
      BY ChangeApart DEF memory
    <3>3. ~Goes(p)
      BY <2>0, <2>1, Going
    <3> QED BY <3>1, <3>2, <3>3 DEF Next, Moves
  <2>3. Read(p) /\ seen'[p] = ReadOf(p, Order[next[p]])
    <3>1. seen'[p] # seen[p] /\ seen'[p] # Unread
      BY <2>1
    <3>2. CASE Judge(p)
      BY <2>0, <2>2, <3>1, <3>2 DEF Judge, SeenTyped
    <3>3. CASE Read(p)
      BY <2>0, <3>1, <3>3 DEF Read, SeenTyped
    <3>4. ASSUME UNCHANGED seen PROVE FALSE
      BY <3>1, <3>4
    <3> QED BY <2>2, <3>2, <3>3, <3>4 DEF Moves, Step, Look, Open, Opens, Lock, Begin, Cross, Point, Settle,
     Retire, UwsmStop, Answer, Yes, Die, Continues, memory
  <2>4. next[p] \in 1..Len(Order) /\ pc[p] = "reading"
    BY <2>3 DEF Read, Typed, ReadsOn
  <2>5. IsAtItsPath(p)
    <3> DEFINE f == Order[next[p]]
    <3>1. f \in Before \union Dest \union After
      BY <2>4, OrderOfReads
    <3>2. /\ f = "lock" => (ReadOf(p, f).lock = "yes" <=> IsAtItsPath(p))
          /\ f # "lock" => ReadOf(p, f).lock = seen[p].lock
      <4> HIDE DEF f
      <4> QED BY <2>0, <3>1, ReadSees
    <3> QED BY <2>3, <3>2
  <2>6. Holding(p)
    BY <2>4 DEF Holding
  <2> QED BY <2>0, <2>5, <2>6 DEF LockInv, IsAtItsPath, LockTyped
<1> QED BY <1>1, <1>2, <1>3, ReloginIsTyped, PTL DEF Spec, OthersHoldOlderFiles

-----------------------------------------------------------------------------
(***************************************************************************)
(* What a pre-flight has to go by                                          *)
(***************************************************************************)

\* Nothing is kept from one pre-flight to the next, the links are read after
\* the rows, and only a pre-flight after the answer ends in a stop.
SeenInv ==
    /\ \A p \in Proc : pc[p] \notin {"reading", "judging"} => seen[p] = Unread
    /\ \A p \in Proc : pc[p] = "reading" /\ next[p] <= 5 =>
            \A d \in Dest : seen[p].found[d] = Is("unreadable")
    /\ \A p \in answered : pc[p] \in {"reading", "judging", "stopping"}
    /\ \A p \in Proc : pc[p] = "stopping" => p \in answered

\* What nothing that was read looks like.
LEMMA UnreadFields ==
    /\ Unread.current = -3 /\ Unread.journal = "unreadable" /\ Unread.done = "unreadable"
    /\ Unread.script = -3 /\ Unread.lock = "unreadable" /\ Unread.socket = "unreadable"
    /\ Unread.units = -3 /\ Is("unreadable").to = "unreadable"
    /\ \A d \in Dest : Unread.rows[d] = Is("unreadable") /\ Unread.found[d] = Is("unreadable")
  BY DEF Unread, Unreadable, Is

\* No switch wants what could not be read.
LEMMA Wanted == \A p \in Proc, d \in Dest : Want[p][d] # "unreadable"
  BY WantAssumption, WordsAssumption

\* A step of p disturbs only what is said of p.
LEMMA SeenInvApart ==
    ASSUME SeenInv, NEW p \in Proc, Apart(p),
           pc'[p] \notin {"reading", "judging"} => seen'[p] = Unread,
           pc'[p] = "reading" /\ next'[p] <= 5 =>
                \A d \in Dest : seen'[p].found[d] = Is("unreadable"),
           p \in answered' => pc'[p] \in {"reading", "judging", "stopping"},
           pc'[p] = "stopping" => p \in answered',
           answered' \subseteq Proc
    PROVE  SeenInv'
  BY DEF SeenInv, Apart

\* What one read of p does to p.
LEMMA ReadStep ==
    ASSUME Typed, NEW p \in Proc, Read(p)
    PROVE  /\ next[p] \in 1..Len(Order) /\ Order[next[p]] \in Before \union Dest \union After
           /\ pc[p] = "reading" /\ UNCHANGED <<lockfile, records, session, gen, fd, answered>>
           /\ \/ seen'[p] = ReadOf(p, Order[next[p]])
              \/ seen'[p] = seen[p]
           /\ \/ pc'[p] = "reading" /\ next'[p] = next[p] + 1
              \/ pc'[p] = "judging"
<1>0. MemoryTyped /\ SeenTyped /\ ReadsOn
  BY TypeParts DEF Typed
<1>1. pc[p] = "reading" /\ UNCHANGED <<lockfile, records, session, gen, fd, answered>>
  BY DEF Read
<1>2. next[p] \in 1..Len(Order)
  BY <1>0, <1>1 DEF ReadsOn
<1>3. Order[next[p]] \in Before \union Dest \union After
  BY <1>2, OrderOfReads
<1>4. seen'[p] = ReadOf(p, Order[next[p]]) \/ seen'[p] = seen[p]
  BY <1>0 DEF Read, SeenTyped
<1>5. (pc'[p] = "reading" /\ next'[p] = next[p] + 1) \/ pc'[p] = "judging"
  BY <1>0, <1>1 DEF Read, To, MemoryTyped
<1> QED BY <1>1, <1>2, <1>3, <1>4, <1>5

\* Every step keeps it.
LEMMA SeenInvStep ==
    ASSUME Typed, SeenInv, [Next]_vars
    PROVE  SeenInv'
<1>0. LockTyped /\ MemoryTyped /\ SeenTyped /\ RecordsTyped /\ ReadsOn
  BY TypeParts DEF Typed
<1>1. ASSUME NEW p \in Proc, Moves(p) PROVE SeenInv'
  <2>1. Apart(p) /\ answered' \subseteq Proc
    BY <1>0, <1>1, MemoryStep DEF RecordsTyped, MemoryTyped
  <2>2. CASE Goes(p)
    BY <1>0, <2>1, <2>2, Going, SeenInvApart
  <2>3. CASE Read(p)
    <3>1. /\ next[p] \in 1..Len(Order) /\ Order[next[p]] \in Before \union Dest \union After
          /\ pc[p] = "reading" /\ answered' = answered
          /\ seen'[p] = ReadOf(p, Order[next[p]]) \/ seen'[p] = seen[p]
          /\ \/ pc'[p] = "reading" /\ next'[p] = next[p] + 1
             \/ pc'[p] = "judging"
      BY <2>3, ReadStep
    <3>2. ASSUME pc'[p] = "reading" /\ next'[p] <= 5, NEW d \in Dest
          PROVE  seen'[p].found[d] = Is("unreadable")
      <4>1. next[p] <= 5 /\ next'[p] = next[p] + 1 /\ next[p] < 5
        BY <1>0, <3>1, <3>2 DEF MemoryTyped
      <4>2. seen[p].found[d] = Is("unreadable")
        BY <3>1, <4>1 DEF SeenInv
      <4>3. Order[next[p]] \notin Dest
        BY <3>1, <4>1, OrderOfReads
      <4>4. ReadOf(p, Order[next[p]]).found[d] = seen[p].found[d]
        <5> DEFINE f == Order[next[p]]
        <5>1. f \in Before \union Dest \union After /\ d # f
          BY <3>1, <4>3
        <5> HIDE DEF f
        <5>2. ReadOf(p, f).found[d] = seen[p].found[d]
          BY <1>0, <5>1, ReadSees
        <5> QED BY <5>2 DEF f
      <4> QED BY <3>1, <4>2, <4>4
    <3>3. p \in answered' => pc'[p] \in {"reading", "judging", "stopping"}
      BY <3>1
    <3> QED BY <2>1, <3>1, <3>2, <3>3, SeenInvApart
  <2>4. CASE Judge(p) /\ ~Goes(p)
    <3>1. /\ pc'[p] = (IF p \in answered THEN "stopping" ELSE "asking")
          /\ seen'[p] = Unread /\ answered' = answered
      BY <1>0, <2>4 DEF Judge, To, MemoryTyped, SeenTyped
    <3> QED BY <2>1, <3>1, SeenInvApart
  <2>5. CASE Answer(p) /\ ~Goes(p)
    <3>1. /\ pc[p] = "asking" /\ pc'[p] = "reading" /\ seen' = seen
      BY <1>0, <2>5 DEF Answer, Yes, To, MemoryTyped
    <3>2. seen'[p] = Unread
      BY <3>1 DEF SeenInv
    <3> QED BY <2>1, <3>1, <3>2, UnreadFields, SeenInvApart
  <2>6. CASE Retire(p)
    <3>1. pc[p] = "retiring" /\ pc'[p] = "reading" /\ seen' = seen /\ answered' = answered
      BY <1>0, <2>6 DEF Retire, To, MemoryTyped
    <3>2. seen'[p] = Unread
      BY <3>1 DEF SeenInv
    <3> QED BY <2>1, <3>1, <3>2, UnreadFields, SeenInvApart
  <2>7. CASE /\ Look(p) \/ Open(p) \/ Lock(p) \/ Begin(p) \/ Cross(p) \/ Point(p) \/ Settle(p)
             /\ ~Goes(p)
    <3>1. seen' = seen /\ answered' = answered
      BY <2>7 DEF Look, Open, Opens, Lock, Begin, Cross, Point, Settle, Continues, memory
    <3>2. pc[p] \notin {"reading", "judging", "stopping"}
      BY <2>7 DEF Look, Open, Lock, Begin, Cross, Point, Settle
    <3>3. pc'[p] \notin {"reading", "judging", "stopping"}
      BY <1>0, <2>7 DEF Look, Open, Opens, Lock, Begin, Cross, Point, Settle, Continues, To,
         MemoryTyped
    <3>4. seen'[p] = Unread /\ p \notin answered'
      BY <3>1, <3>2 DEF SeenInv
    <3> QED BY <2>1, <3>3, <3>4, SeenInvApart
  <2>8. CASE UwsmStop(p) \/ Die(p)
    BY <2>2, <2>8 DEF UwsmStop, Die
  <2> QED BY <1>1, <2>2, <2>3, <2>4, <2>5, <2>6, <2>7, <2>8 DEF Moves, Step
<1>2. CASE Change \/ UNCHANGED vars
  BY <1>2, ChangeApart DEF SeenInv, memory
<1> QED BY <1>1, <1>2 DEF Next, Moves

-----------------------------------------------------------------------------
(***************************************************************************)
(* The settled state, while nobody touches the lock's path                 *)
(***************************************************************************)

\* The one holder's switch is the last one: from its pointer on it is
\* current, from its end on no journal is in flight, and what it read of the
\* rows is what they still are.
SettledInv ==
    ~moved => \A p \in Proc :
        /\ pc[p] \in {"settling", "retiring", "reading", "judging", "asking", "stopping"} =>
                current = gen[p]
        /\ pc[p] \in {"reading", "judging", "asking", "stopping"} => inflight = Nobody
        /\ pc[p] \in {"reading", "judging"} =>
                (seen[p].rows = row \/ \A d \in Dest : seen[p].rows[d] = Is("unreadable"))
        /\ pc[p] \in {"asking", "stopping"} => \A d \in Dest : row[d].to = Want[p][d]

\* A step of the holder disturbs only what is said of the holder.
LEMMA SettledApart ==
    ASSUME Typed, LockInv, SettledInv, NEW p \in Proc, Apart(p), Holding(p), moved' = moved,
           ~moved =>
             /\ pc'[p] \in {"settling", "retiring", "reading", "judging", "asking", "stopping"} =>
                    current' = gen'[p]
             /\ pc'[p] \in {"reading", "judging", "asking", "stopping"} => inflight' = Nobody
             /\ pc'[p] \in {"reading", "judging"} =>
                  (seen'[p].rows = row' \/ \A d \in Dest : seen'[p].rows[d] = Is("unreadable"))
             /\ pc'[p] \in {"asking", "stopping"} => \A d \in Dest : row'[d].to = Want[p][d]
    PROVE  SettledInv'
<1>1. ASSUME ~moved, NEW q \in Proc \ {p}
      PROVE  pc'[q] \in {"start", "opening", "locking", "gone"}
  BY <1>1, OneHolder DEF Apart, Holding
<1> QED BY <1>1 DEF SettledInv

\* A step that leaves the records alone, and p alone is another.
LEMMA SettledKept ==
    ASSUME SettledInv, NEW p \in Proc, Apart(p), moved' = moved, UNCHANGED <<current, inflight, row>>,
           pc'[p] \in {"start", "opening", "locking", "deciding", "gone"}
    PROVE  SettledInv'
  BY DEF SettledInv, Apart

\* A switch that passed its pre-flight has its rows.
LEMMA DecidedRows ==
    ASSUME NEW p \in Proc, DecideDests(p),
           seen[p].rows = row \/ \A d \in Dest : seen[p].rows[d] = Is("unreadable")
    PROVE  \A d \in Dest : row[d].to = Want[p][d]
  BY Wanted, UnreadFields DEF DecideDests

\* Every step keeps it.
LEMMA SettledInvStep ==
    ASSUME Typed, LockInv, SeenInv, SettledInv, [Next]_vars
    PROVE  SettledInv'
<1>0. LockTyped /\ MemoryTyped /\ SeenTyped /\ RecordsTyped /\ ReadsOn
  BY TypeParts DEF Typed
<1>1. ASSUME NEW p \in Proc, Moves(p) PROVE SettledInv'
  <2>1. Apart(p)
    BY <1>0, <1>1, MemoryStep DEF RecordsTyped
  <2>2. moved' = moved
    BY <1>1 DEF Moves, Step, Look, Open, Lock, Begin, Cross, Point, Settle, Retire, Read, Judge,
       UwsmStop, Answer, Die, lockfile
  <2>3. CASE Look(p) \/ Open(p) \/ Lock(p) \/ UwsmStop(p) \/ Die(p)
    <3>1. UNCHANGED <<current, inflight, row>>
      BY <2>3 DEF Look, Open, Lock, UwsmStop, Die, records
    <3>2. pc'[p] \in {"start", "opening", "locking", "deciding", "gone"}
      BY <1>0, <2>3, Going DEF Look, Open, Opens, Lock, UwsmStop, Die, Continues, To, MemoryTyped
    <3> QED BY <2>1, <2>2, <3>1, <3>2, SettledKept
  <2>4. CASE Begin(p)
    <3>1. pc'[p] \in {"crossing", "gone"} /\ Holding(p)
      BY <1>0, <2>4, Going DEF Begin, Continues, To, MemoryTyped, Holding
    <3> QED BY <2>1, <2>2, <3>1, SettledApart
  <2>5. CASE Cross(p)
    <3>1. pc'[p] = "pointing" /\ Holding(p)
      BY <1>0, <2>5 DEF Cross, To, MemoryTyped, Holding
    <3> QED BY <2>1, <2>2, <3>1, SettledApart
  <2>6. CASE Point(p)
    <3>1. pc'[p] = "settling" /\ Holding(p) /\ current' = gen[p] /\ gen' = gen
      BY <1>0, <2>6 DEF Point, Continues, To, MemoryTyped, Holding, memory
    <3> QED BY <2>1, <2>2, <3>1, SettledApart
  <2>7. CASE Settle(p)
    <3>1. pc[p] = "settling" /\ Holding(p) /\ current' = current
      BY <2>7 DEF Settle, Holding
    <3>2. pc'[p] = "gone" \/ (pc'[p] = "retiring" /\ gen' = gen)
      BY <1>0, <2>7, Going DEF Settle, Continues, To, MemoryTyped, memory
    <3>3. ~moved => current = gen[p]
      BY <3>1 DEF SettledInv
    <3> QED BY <2>1, <2>2, <3>1, <3>2, <3>3, SettledApart
  <2>8. CASE Retire(p)
    <3>1. /\ pc[p] = "retiring" /\ Holding(p) /\ pc'[p] = "reading" /\ inflight' = Nobody
          /\ UNCHANGED <<current, gen, seen>>
      BY <1>0, <2>8 DEF Retire, To, MemoryTyped, Holding
    <3>2. ~moved => current = gen[p]
      BY <3>1 DEF SettledInv
    <3>3. seen'[p] = Unread
      BY <3>1 DEF SeenInv
    <3> QED BY <2>1, <2>2, <3>1, <3>2, <3>3, UnreadFields, SettledApart
  <2>9. CASE Read(p)
    <3>1. /\ next[p] \in 1..Len(Order) /\ Order[next[p]] \in Before \union Dest \union After
          /\ pc[p] = "reading" /\ Holding(p) /\ UNCHANGED <<current, inflight, row, gen>>
          /\ seen'[p] = ReadOf(p, Order[next[p]]) \/ seen'[p] = seen[p]
          /\ pc'[p] \in {"reading", "judging"}
      BY <2>9, ReadStep DEF Holding, records
    <3>2. ~moved => /\ current = gen[p] /\ inflight = Nobody
                    /\ seen[p].rows = row \/ \A d \in Dest : seen[p].rows[d] = Is("unreadable")
      BY <3>1 DEF SettledInv
    <3>3. seen'[p].rows = row \/ seen'[p].rows = seen[p].rows
      <4> DEFINE f == Order[next[p]]
      <4>1. f \in Before \union Dest \union After
        BY <3>1
      <4>2. ReadOf(p, f).rows = row \/ ReadOf(p, f).rows = seen[p].rows
        <5> HIDE DEF f
        <5> QED BY <1>0, <4>1, ReadSees
      <4> QED BY <3>1, <4>2
    <3> QED BY <2>1, <2>2, <3>1, <3>2, <3>3, SettledApart
  <2>10. CASE Judge(p)
    <3>1. pc[p] = "judging" /\ Holding(p) /\ UNCHANGED <<current, inflight, row>>
      BY <2>10 DEF Judge, Holding, records
    <3>2. \/ pc'[p] = "gone"
          \/ pc'[p] \in {"asking", "stopping"} /\ gen' = gen /\ DecideDests(p)
      BY <1>0, <2>10, Going DEF Judge, Decide, To, MemoryTyped
    <3>3. ~moved => /\ current = gen[p] /\ inflight = Nobody
                    /\ seen[p].rows = row \/ \A d \in Dest : seen[p].rows[d] = Is("unreadable")
      BY <3>1 DEF SettledInv
    <3> QED BY <2>1, <2>2, <3>1, <3>2, <3>3, DecidedRows, SettledApart
  <2>11. CASE Answer(p)
    <3>1. pc[p] = "asking" /\ Holding(p) /\ UNCHANGED <<current, inflight, row>>
      BY <2>11 DEF Answer, Holding, records
    <3>2. pc'[p] = "gone" \/ (pc'[p] = "reading" /\ gen' = gen /\ seen' = seen)
      BY <1>0, <2>11, Going DEF Answer, Yes, To, MemoryTyped
    <3>3. seen[p] = Unread /\ (~moved => current = gen[p] /\ inflight = Nobody)
      BY <3>1 DEF SeenInv, SettledInv
    <3> QED BY <2>1, <2>2, <3>1, <3>2, <3>3, UnreadFields, SettledApart
  <2> QED
    BY <1>1, <2>3, <2>4, <2>5, <2>6, <2>7, <2>8, <2>9, <2>10, <2>11 DEF Moves, Step
<1>2. CASE Change
  <2>1. UNCHANGED <<pc, gen, seen, current, inflight, row>>
    BY <1>2, ChangeApart DEF Change, records, memory
  <2>2. moved' = moved \/ moved' = TRUE
    BY <1>2 DEF Change, MoveLockFile, lockfile
  <2> QED BY <2>1, <2>2 DEF SettledInv
<1>3. CASE UNCHANGED vars
  BY <1>3 DEF vars, records, memory, lockfile, SettledInv
<1> QED BY <1>1, <1>2, <1>3 DEF Next, Moves

\* What holds of the lock, of what was read and of the settled state.
ReloginInv == Typed /\ LockInv /\ SeenInv /\ SettledInv

\* Initially so.
LEMMA InitReloginInv ==
    ASSUME Init
    PROVE  ReloginInv
<1>1. LockInv
  BY BoundsAssumption DEF Init, LockInv, Holding, Absent
<1>2. SeenInv
  BY DEF Init, SeenInv
<1>3. SettledInv
  BY DEF Init, SettledInv
<1> QED BY <1>1, <1>2, <1>3, InitTyped DEF ReloginInv

\* The invariant the rest rests on.
THEOREM ReloginIsCareful == Spec => []ReloginInv
<1>1. Init => ReloginInv
  BY InitReloginInv
<1>2. ReloginInv /\ [Next]_vars => ReloginInv'
  BY TypedStep, LockInvStep, SeenInvStep, SettledInvStep DEF ReloginInv
<1> QED BY <1>1, <1>2, PTL DEF Spec

\* While nobody touches the lock's path, the session ends only on the
\* settled state of the switch that asked.
THEOREM StopsSettled == Spec => []SettledWhenStopping
<1>1. ReloginInv => SettledWhenStopping
  BY DEF ReloginInv, SettledInv, SettledWhenStopping
<1> QED BY <1>1, ReloginIsCareful, PTL

-----------------------------------------------------------------------------
(***************************************************************************)
(* What the stop goes by                                                   *)
(***************************************************************************)

\* What p has read of a fact speaks for the switch of generation n.
Good(r, n, p, f) ==
    /\ f = "current" => r.current = n
    /\ f = "journal" => r.journal = "no"
    /\ f = "retired" => r.done = "yes"
    /\ f = "rescue" => r.script = n - 1
    /\ f = "rows" => \A d \in Dest : r.rows[d].to = Want[p][d]
    /\ f \in Dest => r.found[f].to = Want[p][f] /\ r.rows[f] = r.found[f]
    /\ f = "lock" => r.lock = "yes"
    /\ f = "socket" => r.socket = "socket"
    /\ f = "units" => r.units = 1

\* Fact by fact.
LEMMA GoodCases ==
    ASSUME NEW r, NEW n, NEW p
    PROVE  /\ Good(r, n, p, "current") <=> r.current = n
           /\ Good(r, n, p, "journal") <=> r.journal = "no"
           /\ Good(r, n, p, "retired") <=> r.done = "yes"
           /\ Good(r, n, p, "rescue") <=> r.script = n - 1
           /\ Good(r, n, p, "rows") <=> \A d \in Dest : r.rows[d].to = Want[p][d]
           /\ \A d \in Dest : Good(r, n, p, d) <=> /\ r.found[d].to = Want[p][d]
                                                    /\ r.rows[d] = r.found[d]
           /\ Good(r, n, p, "lock") <=> r.lock = "yes"
           /\ Good(r, n, p, "socket") <=> r.socket = "socket"
           /\ Good(r, n, p, "units") <=> r.units = 1
  BY WordsAssumption DEF Good

\* What was read after the answer and speaks for the switch was true after
\* the answer.
SinceInv ==
    /\ \A p \in answered : pc[p] \in {"reading", "judging"} =>
            \A f \in Fact : Good(seen[p], gen[p], p, f) => f \in since[p]
    /\ \A p \in Proc : pc[p] = "stopping" => since[p] = Fact

\* All that is to be read is one of the facts True and ReadOf know.
LEMMA Facts == Fact \subseteq Before \union Dest \union After
  BY OrderOfReads DEF Fact

\* What makes each fact true after a step.
LEMMA TrueAfter ==
    ASSUME NEW p \in Proc, NEW f \in Before \union Dest \union After,
           f = "current" => current' = gen'[p],
           f = "journal" => inflight' = Nobody,
           f = "retired" => gen'[p] \in retired',
           f = "rescue" => script' = gen'[p] - 1,
           f = "rows" => \A d \in Dest : row'[d].to = Want[p][d],
           f \in Dest => /\ link'[f].to = Want[p][f]
                         /\ link'[f] = IF moved' THEN seen'[p].rows[f] ELSE row'[f],
           f = "lock" => at' = fd'[p],
           f = "socket" => socket' = "socket",
           f = "units" => units' = 1
    PROVE  True(p, f)'
  BY WordsAssumption DEF True, Before, After

\* The history of a process that was told yes and lives on only grows, by
\* what is true.
LEMMA Watched ==
    ASSUME Watch, NEW p \in Proc, p \in answered', pc'[p] # "gone"
    PROVE  since'[p] = since[p] \union {f \in Fact : True(p, f)'}
  BY DEF Watch

\* Everything a switch has to pass speaks for it.
LEMMA DecidedGood ==
    ASSUME NEW p \in Proc, Decide(p), NEW f \in Before \union Dest \union After
    PROVE  Good(seen[p], gen[p], p, f)
<1>1. \A d \in Dest : seen[p].rows[d].to = Want[p][d]
  BY DEF Decide, DecideDests
<1> QED BY <1>1 DEF Decide, DecideSwitch, DecideJournal, DecideRescue, DecideDests, DecideLock,
     DecideSession, Good

\* At the answer nothing speaks for the switch that is not so by then.
LEMMA UnreadNotGood ==
    ASSUME Typed, NEW p \in Proc, seen[p] = Unread, NEW f \in Before \union Dest \union After, Good(seen[p], gen[p], p, f)
    PROVE  f = "rows" /\ Dest = {}
<1>1. gen[p] \in Nat
  BY TypeParts DEF Typed, MemoryTyped
<1>2. f \notin {"current", "rescue", "units"}
  BY <1>1, UnreadFields, GoodCases
<1>3. f \notin {"journal", "retired", "lock", "socket"}
  BY UnreadFields, GoodCases
<1>4. f \notin Dest
  BY UnreadFields, Wanted DEF Good
<1>5. f = "rows" => Dest = {}
  BY UnreadFields, Wanted, GoodCases
<1> QED BY <1>2, <1>3, <1>4, <1>5 DEF Before, After

\* What speaks for the switch after a read spoke for it before, or was read
\* just now.
LEMMA GoodBefore ==
    ASSUME Typed, NEW p \in Proc, Read(p), NEW f \in Before \union Dest \union After, Good(seen'[p], gen'[p], p, f),
           \/ seen'[p] = seen[p]
           \/ Order[next[p]] # f /\ ~(f \in Dest /\ Order[next[p]] = "rows")
    PROVE  Good(seen[p], gen[p], p, f)
<1>0. SeenTyped
  BY TypeParts DEF Typed
<1>1. gen' = gen
  BY DEF Read
<1>2. CASE seen'[p] = seen[p]
  BY <1>1, <1>2 DEF Good
<1>3. CASE /\ seen'[p] = ReadOf(p, Order[next[p]])
           /\ Order[next[p]] # f /\ ~(f \in Dest /\ Order[next[p]] = "rows")
  <2> DEFINE g == Order[next[p]]
  <2>1. g \in Before \union Dest \union After /\ seen'[p] = ReadOf(p, g)
        /\ g # f /\ ~(f \in Dest /\ g = "rows")
    BY <1>3, ReadStep
  <2> DEFINE r == ReadOf(p, g)
  <2> HIDE DEF g
  <2>11. /\ f = "current" => r.current = seen[p].current
         /\ f = "journal" => r.journal = seen[p].journal
         /\ f = "retired" => r.done = seen[p].done
         /\ f = "rescue" => r.script = seen[p].script
         /\ f = "rows" => r.rows = seen[p].rows
         /\ f \in Dest => r.rows = seen[p].rows /\ r.found[f] = seen[p].found[f]
         /\ f = "lock" => r.lock = seen[p].lock
         /\ f = "socket" => r.socket = seen[p].socket
         /\ f = "units" => r.units = seen[p].units
    BY <1>0, <2>1, ReadSees
  <2>2. CASE f = "current"
    BY <1>1, <2>1, <2>2, <2>11, GoodCases
  <2>3. CASE f = "journal"
    BY <1>1, <2>1, <2>3, <2>11, GoodCases
  <2>4. CASE f = "retired"
    BY <1>1, <2>1, <2>4, <2>11, GoodCases
  <2>5. CASE f = "rescue"
    BY <1>1, <2>1, <2>5, <2>11, GoodCases
  <2>6. CASE f = "rows"
    BY <1>1, <2>1, <2>6, <2>11, GoodCases
  <2>7. CASE f \in Dest
    BY <1>1, <2>1, <2>7, <2>11, WordsAssumption DEF Good
  <2>8. CASE f = "lock"
    BY <1>1, <2>1, <2>8, <2>11, GoodCases
  <2>9. CASE f = "socket"
    BY <1>1, <2>1, <2>9, <2>11, GoodCases
  <2>10. CASE f = "units"
    BY <1>1, <2>1, <2>10, <2>11, GoodCases
  <2> QED
    BY <2>2, <2>3, <2>4, <2>5, <2>6, <2>7, <2>8, <2>9, <2>10 DEF Before, After
<1> QED BY <1>2, <1>3, ReadStep

\* What was read just now and speaks for the switch is so.
LEMMA GoodNow ==
    ASSUME ReloginInv, NEW p \in Proc, Read(p), NEW f \in Before \union Dest \union After,
           f = Order[next[p]], seen'[p] = ReadOf(p, f), Good(seen'[p], gen'[p], p, f)
    PROVE  True(p, f)'
<1>0. SeenTyped
  BY TypeParts DEF ReloginInv, Typed
<1>1. UNCHANGED <<gen, fd, current, inflight, retired, script, link, row, socket, units, at, moved>>
      /\ pc[p] = "reading"
  BY DEF Read, records, session, lockfile
<1>11. /\ f = "current" => seen'[p].current = current
       /\ f = "journal" => (seen'[p].journal = "no" <=> inflight = Nobody)
       /\ f = "retired" => (seen'[p].done = "yes" <=> gen[p] \in retired)
       /\ f = "rescue" => seen'[p].script = script
       /\ f = "rows" => seen'[p].rows = row
       /\ f # "rows" => seen'[p].rows = seen[p].rows
       /\ f \in Dest => seen'[p].found[f] = link[f]
       /\ f = "lock" => (seen'[p].lock = "yes" <=> IsAtItsPath(p))
       /\ f = "socket" => seen'[p].socket = socket
       /\ f = "units" => seen'[p].units = units
  BY <1>0, ReadSees
<1>2. CASE f = "current"
  BY <1>1, <1>2, <1>11, GoodCases, TrueAfter, WordsAssumption
<1>3. CASE f = "journal"
  BY <1>1, <1>3, <1>11, GoodCases, TrueAfter, WordsAssumption
<1>4. CASE f = "retired"
  BY <1>1, <1>4, <1>11, GoodCases, TrueAfter, WordsAssumption
<1>5. CASE f = "rescue"
  BY <1>1, <1>5, <1>11, GoodCases, TrueAfter, WordsAssumption
<1>6. CASE f = "rows"
  BY <1>1, <1>6, <1>11, GoodCases, TrueAfter, WordsAssumption
<1>7. CASE f \in Dest
  <2>1. /\ seen'[p].found[f] = link[f] /\ seen'[p].rows = seen[p].rows
        /\ link[f].to = Want[p][f] /\ seen[p].rows[f] = link[f]
    BY <1>7, <1>11, WordsAssumption DEF Good
  <2>2. seen[p].rows[f] # Is("unreadable")
    BY <1>7, <2>1, Wanted, UnreadFields
  <2>3. ~moved => seen[p].rows[f] = row[f]
    BY <1>1, <1>7, <2>2 DEF ReloginInv, SettledInv
  <2> QED BY <1>1, <1>7, <2>1, <2>3, TrueAfter, WordsAssumption
<1>8. CASE f = "lock"
  BY <1>1, <1>8, <1>11, GoodCases, TrueAfter, WordsAssumption DEF IsAtItsPath
<1>9. CASE f = "socket"
  BY <1>1, <1>9, <1>11, GoodCases, TrueAfter, WordsAssumption
<1>10. CASE f = "units"
  BY <1>1, <1>10, <1>11, GoodCases, TrueAfter, WordsAssumption
<1> QED
  BY <1>2, <1>3, <1>4, <1>5, <1>6, <1>7, <1>8, <1>9, <1>10 DEF Before, After

\* The rows are read before the links: no link speaks for the switch when
\* they are.
LEMMA RowsBeforeLinks ==
    ASSUME ReloginInv, NEW p \in Proc, Read(p), Order[next[p]] = "rows", NEW d \in Dest,
           seen'[p] = ReadOf(p, "rows")
    PROVE  ~Good(seen'[p], gen'[p], p, d)
<1>0. SeenTyped
  BY TypeParts DEF ReloginInv, Typed
<1>1. next[p] = 5 /\ pc[p] = "reading"
  BY ReadStep, OrderOfReads DEF ReloginInv
<1>2. seen[p].found[d] = Is("unreadable")
  BY <1>1 DEF ReloginInv, SeenInv
<1>3. "rows" \in Before /\ d # "rows"
  BY WordsAssumption DEF Before
<1>4. ReadOf(p, "rows").found[d] = seen[p].found[d]
  <2>1. "rows" \in Before \union Dest \union After
    BY <1>3
  <2> QED BY <1>0, <1>3, <2>1, ReadSees
<1> QED BY <1>2, <1>4, UnreadFields, Wanted DEF Good

\* A step that leaves p alone keeps what is said of p.
LEMMA SinceKept ==
    ASSUME Typed, SinceInv, Watch, NEW p \in Proc, pc'[p] = pc[p], seen'[p] = seen[p], gen'[p] = gen[p],
           p \in answered' <=> p \in answered, pc[p] = "stopping" => p \in answered
    PROVE  /\ p \in answered' /\ pc'[p] \in {"reading", "judging"} =>
                \A f \in Fact : Good(seen'[p], gen'[p], p, f) => f \in since'[p]
           /\ pc'[p] = "stopping" => since'[p] = Fact
<1>1. \A f \in Fact : Good(seen'[p], gen'[p], p, f) => Good(seen[p], gen[p], p, f)
  OBVIOUS
<1>2. p \in answered' /\ pc'[p] # "gone" => since[p] \subseteq since'[p] /\ since'[p] \subseteq since[p] \union Fact
  BY Watched
<1> QED BY <1>1, <1>2 DEF SinceInv

\* Every step keeps it.
LEMMA SinceInvStep ==
    ASSUME ReloginInv, SinceInv, [Next]_vars
    PROVE  SinceInv'
<1>0. Typed /\ LockTyped /\ MemoryTyped /\ SeenTyped /\ RecordsTyped /\ ReadsOn /\ SeenInv
  BY TypeParts DEF ReloginInv, Typed
<1>1. ASSUME NEW p \in Proc, Moves(p), Watch PROVE SinceInv'
  <2>1. Apart(p) /\ answered' \subseteq Proc
    BY <1>0, <1>1, MemoryStep DEF RecordsTyped, MemoryTyped
  <2>2. ASSUME NEW q \in Proc \ {p}
        PROVE  /\ q \in answered' /\ pc'[q] \in {"reading", "judging"} =>
                    \A f \in Fact : Good(seen'[q], gen'[q], q, f) => f \in since'[q]
               /\ pc'[q] = "stopping" => since'[q] = Fact
    BY <1>0, <1>1, <2>1, SinceKept DEF Apart, SeenInv
  <2> SUFFICES /\ p \in answered' /\ pc'[p] \in {"reading", "judging"} =>
                    \A f \in Fact : Good(seen'[p], gen'[p], p, f) => f \in since'[p]
               /\ pc'[p] = "stopping" => since'[p] = Fact
    BY <2>1, <2>2 DEF SinceInv
  <2>3. CASE Goes(p)
    BY <1>0, <2>3, Going
  <2>4. CASE Read(p)
    <3> SUFFICES ASSUME p \in answered, NEW f \in Fact, Good(seen'[p], gen'[p], p, f) PROVE f \in since'[p]
      BY <2>4, ReadStep, <1>0
    <3>1. /\ Order[next[p]] \in Before \union Dest \union After
          /\ pc[p] = "reading" /\ answered' = answered /\ pc'[p] # "gone"
          /\ seen'[p] = ReadOf(p, Order[next[p]]) \/ seen'[p] = seen[p]
      BY <1>0, <2>4, ReadStep
    <3>2. since[p] \subseteq since'[p] /\ (True(p, f)' => f \in since'[p])
      BY <1>1, <3>1, Watched
    <3>3. f \in Before \union Dest \union After
      BY Facts
    <3>4. Good(seen[p], gen[p], p, f) => f \in since[p]
      BY <3>1 DEF SinceInv
    <3>5. CASE seen'[p] = seen[p]
      BY <1>0, <2>4, <3>2, <3>3, <3>4, <3>5, GoodBefore
    <3>6. CASE seen'[p] = ReadOf(p, Order[next[p]])
      <4>1. CASE Order[next[p]] = f
        BY <2>4, <3>2, <3>3, <3>6, <4>1, GoodNow
      <4>2. CASE f \in Dest /\ Order[next[p]] = "rows"
        BY <2>4, <3>6, <4>2, RowsBeforeLinks
      <4>3. CASE Order[next[p]] # f /\ ~(f \in Dest /\ Order[next[p]] = "rows")
        BY <1>0, <2>4, <3>2, <3>3, <3>4, <4>3, GoodBefore
      <4> QED BY <4>1, <4>2, <4>3
    <3> QED BY <3>1, <3>5, <3>6
  <2>5. CASE Judge(p) /\ ~Goes(p)
    <3>1. /\ pc[p] = "judging" /\ Decide(p) /\ answered' = answered
          /\ pc'[p] = (IF p \in answered THEN "stopping" ELSE "asking")
      BY <1>0, <2>5 DEF Judge, To, MemoryTyped
    <3>2. p \in answered => Fact \subseteq since[p]
      BY <3>1, DecidedGood, Facts DEF SinceInv
    <3>3. p \in answered => since[p] \subseteq since'[p] /\ since'[p] \subseteq since[p] \union Fact
      BY <1>1, <3>1, Watched
    <3>4. since[p] \subseteq Fact
      BY <1>0, TypeParts DEF Typed
    <3> QED BY <3>1, <3>2, <3>3, <3>4
  <2>6. CASE Answer(p) /\ ~Goes(p)
    <3>1. /\ pc[p] = "asking" /\ pc'[p] = "reading" /\ seen' = seen /\ gen' = gen /\ p \in answered'
      BY <1>0, <2>6 DEF Answer, Yes, To, MemoryTyped
    <3>2. seen[p] = Unread
      BY <3>1, <1>0 DEF SeenInv
    <3> SUFFICES ASSUME NEW f \in Fact, Good(seen'[p], gen'[p], p, f) PROVE f \in since'[p]
      BY <3>1
    <3>3. Good(seen[p], gen[p], p, f)
      BY <3>1
    <3>4. f \in Before \union Dest \union After
      BY Facts
    <3>5. f = "rows" /\ Dest = {}
      BY <1>0, <3>2, <3>3, <3>4, UnreadNotGood
    <3>6. True(p, f)'
      BY <3>4, <3>5, TrueAfter
    <3> QED BY <1>1, <3>1, <3>6, Watched
  <2>7. CASE ~Goes(p) /\ ~Read(p) /\ ~Judge(p) /\ ~Answer(p)
    <3>1. answered' = answered
      BY <1>1, <2>7 DEF Moves, Step, Look, Open, Opens, Lock, Begin, Cross, Point, Settle,
         Retire, UwsmStop, Die, Continues, memory
    <3>2. pc[p] \notin {"reading", "judging", "stopping"}
      BY <1>1, <2>7 DEF Moves, Step, Look, Open, Lock, Begin, Cross, Point, Settle, Retire,
         UwsmStop, Die
    <3>3. pc'[p] # "stopping"
      BY <1>0, <1>1, <2>7 DEF Moves, Step, Look, Open, Opens, Lock, Begin, Cross, Point,
         Settle, Retire, UwsmStop, Die, Continues, To, MemoryTyped
    <3> QED BY <1>0, <3>1, <3>2, <3>3 DEF SeenInv
  <2> QED BY <2>3, <2>4, <2>5, <2>6, <2>7
<1>2. CASE Change /\ Watch
  <2>1. UNCHANGED <<pc, seen, gen, answered>>
    BY <1>2, ChangeApart DEF memory
  <2> QED BY <1>0, <1>2, <2>1, SinceKept DEF SinceInv, SeenInv, MemoryTyped
<1>3. CASE UNCHANGED vars
  BY <1>3 DEF SinceInv, vars, memory
<1> QED BY <1>1, <1>2, <1>3 DEF Next, Moves

\* `uwsm stop` runs on nothing that was only so before the answer.
THEOREM StopsOnTruth == Spec => []StopsOnWhatWasTrue
<1>1. Init => SinceInv
  BY DEF Init, SinceInv
<1>2. ReloginInv /\ SinceInv /\ [Next]_vars => SinceInv'
  BY SinceInvStep
<1>3. SinceInv => StopsOnWhatWasTrue
  BY DEF SinceInv, StopsOnWhatWasTrue
<1> QED BY <1>1, <1>2, <1>3, ReloginIsCareful, PTL DEF Spec
=============================================================================
