----------------------------- MODULE Exec_proofs -----------------------------
(***************************************************************************)
(* Proofs about one supervised child, for any calls, pipe sizes, caps,     *)
(* time limits and amounts of output, whatever the child and its helper    *)
(* do.                                                                     *)
(***************************************************************************)
EXTENDS Exec, TLAPS

-----------------------------------------------------------------------------
(***************************************************************************)
(* Type correctness                                                        *)
(***************************************************************************)

\* The parts of the type, each disturbed by few of the steps.
ControlTyped ==
    /\ phase \in {"asked", "watching", "killing", "reaping", "collecting", "done"}
    /\ child \in {"none", "running", "zombie", "reaped"}
    /\ status \in {"none", "0", "1", "signal"}
    /\ helper \in {"none", "group", "away", "gone"}
    /\ pid \in {"child", "stranger"} /\ struck \in BOOLEAN
    /\ result.is \in {"pending", "refused", "not started", "timed out", "answer"}

CallTyped == call \in Calls /\ sandbox \in BOOLEAN /\ live \in BOOLEAN

ClockTyped == clock \in 0..(IF Limit > Grace THEN Limit ELSE Grace) /\ tofeed \in 0..Input

PipesTyped ==
    pipe \in [Out \union {"in"} -> 0..PipeSize] /\ written \in [Out -> 0..MaxWritten]

Buffer == [kept : 0..Cap, truncated : BOOLEAN, ended : BOOLEAN]
DrainedTyped == drained \in [Out -> Buffer]

Kept == [kept : 0..Cap, truncated : BOOLEAN]
GotTyped == got \in [Out -> Kept \union {Pending}]

\* The parts are the type.
LEMMA TypeParts ==
    TypeOK <=> /\ ControlTyped /\ CallTyped /\ ClockTyped
               /\ PipesTyped /\ DrainedTyped /\ GotTyped
  BY DEF TypeOK, ControlTyped, CallTyped, ClockTyped, PipesTyped, DrainedTyped, GotTyped,
     Buffer, Kept

\* What a result, and what run takes of a stream, can be told by.
LEMMA ResultFields ==
    /\ Pending.is = "pending"
    /\ \A what : Failure(what).is = what
    /\ \A code, kept, cut : /\ Answer(code, kept, cut).is = "answer"
                            /\ Answer(code, kept, cut).kept = kept
                            /\ Answer(code, kept, cut).truncated = cut
  BY DEF Pending, Failure, Answer

\* How run's last steps end it.
LEMMA EndingSteps ==
    ASSUME GivesUp \/ Reap \/ Report
    PROVE  /\ phase' = "done" /\ UNCHANGED <<status, helper, pid, struck>>
           /\ GivesUp => child' = child /\ result'.is \in {"refused", "not started"}
           /\ Reap => child' = "reaped" /\ result'.is = "timed out"
           /\ Report => child' = child /\ result'.is = "answer"
<1>1. CASE GivesUp
  BY <1>1, ResultFields DEF GivesUp, Reap, Report, Ends, process
<1>2. CASE Reap
  BY <1>2, ResultFields DEF GivesUp, Reap, Report, Ends, process
<1>3. CASE Report
  <2>1. PICK kept, cut : result' = Answer(status, kept, cut)
    BY <1>3 DEF Report, Ends
  <2>2. result'.is = "answer"
    BY <2>1 DEF Answer
  <2> QED BY <1>3, <2>2 DEF GivesUp, Reap, Report, Ends, process
<1> QED BY <1>1, <1>2, <1>3

\* The child and run stay in their phases.
LEMMA ControlStep ==
    ASSUME ControlTyped, [Next]_vars
    PROVE  ControlTyped'
<1>. USE DEF ControlTyped, process
<1>1. CASE GivesUp \/ Reap \/ Report
  BY <1>1, EndingSteps
<1>2. CASE Start \/ Exited \/ Overrun \/ Kill
  BY <1>2 DEF Start, Exited, Overrun, Kill
<1>3. ASSUME NEW s \in Out, Collect(s) \/ Drain(s) \/ Writes(s) PROVE ControlTyped'
  BY <1>3 DEF Collect, Drain, Writes
<1>4. CASE Feed \/ ChildReads \/ Tick
  BY <1>4 DEF Feed, ChildReads, Tick
<1>5. CASE Helps \/ Exits \/ Reuse
  BY <1>5 DEF Helps, Exits, Reuse
<1>6. CASE UNCHANGED vars
  <2>1. UNCHANGED <<phase, child, status, helper, pid, struck, result>>
    BY <1>6 DEF vars
  <2> QED BY <2>1, Zenon
<1> QED BY <1>1, <1>2, <1>3, <1>4, <1>5, <1>6 DEF Next, Supervises

\* What is asked stays asked, and time stays within its limits.
LEMMA ClockStep ==
    ASSUME CallTyped, ClockTyped, [Next]_vars
    PROVE  CallTyped' /\ ClockTyped'
<1>. USE SizeAssumption DEF CallTyped, ClockTyped, asked
<1>1. CASE Start
  BY <1>1 DEF Start
<1>2. CASE Exited
  BY <1>2 DEF Exited
<1>3. CASE Feed
  BY <1>3 DEF Feed
<1>4. CASE Tick
  BY <1>4 DEF Tick
<1>5. ASSUME NEW s \in Out, Collect(s) PROVE CallTyped' /\ ClockTyped'
  BY <1>5 DEF Collect
<1>6. CASE UNCHANGED <<call, sandbox, live, clock, tofeed>>
  BY <1>6
<1> QED
  BY <1>1, <1>2, <1>3, <1>4, <1>5, <1>6 DEF Next, Supervises, GivesUp, Overrun, Kill, Reap,
     Report, Drain, Writes, ChildReads, Helps, Exits, Reuse, vars

\* A pipe holds at most PipeSize, whoever writes and whoever reads.
LEMMA PipesStep ==
    ASSUME PipesTyped, [Next]_vars
    PROVE  PipesTyped'
<1>. USE SizeAssumption DEF PipesTyped, streams, Out
<1>1. CASE Feed \/ ChildReads
  BY <1>1 DEF Feed, ChildReads
<1>2. ASSUME NEW s \in Out, Drain(s) PROVE PipesTyped'
  BY <1>2 DEF Drain
<1>3. ASSUME NEW s \in Out, Writes(s) PROVE PipesTyped'
  BY <1>3 DEF Writes
<1>4. CASE UNCHANGED <<pipe, written>>
  BY <1>4
<1> QED
  BY <1>1, <1>2, <1>3, <1>4 DEF Next, Supervises, GivesUp, Start, Exited, Overrun, Kill, Reap,
     Collect, Report, Helps, Exits, Reuse, Tick, vars

\* What one read makes of a reader's buffer.
LEMMA DrainEffect ==
    ASSUME DrainedTyped, NEW s \in Out, Drain(s)
    PROVE  /\ \A t \in Out \ {s} : drained'[t] = drained[t]
           /\ \/ /\ pipe[s] > 0 /\ pipe' = [pipe EXCEPT ![s] = @ - 1]
                 /\ drained'[s] = [kept |-> IF drained[s].kept < Cap THEN drained[s].kept + 1
                                            ELSE drained[s].kept,
                                   truncated |-> drained[s].truncated \/ drained[s].kept = Cap,
                                   ended |-> FALSE]
              \/ /\ pipe[s] = 0 /\ ~Open /\ pipe' = pipe
                 /\ drained'[s] = [kept |-> drained[s].kept,
                                   truncated |-> drained[s].truncated, ended |-> TRUE]
           /\ drained' = [t \in Out |-> drained'[t]]
  BY DEF Drain, DrainedTyped, Buffer

\* A reader keeps at most the cap.
LEMMA DrainedStep ==
    ASSUME DrainedTyped, [Next]_vars
    PROVE  DrainedTyped'
<1>1. ASSUME NEW s \in Out, Drain(s) PROVE DrainedTyped'
  <2>1. drained'[s] \in Buffer
    <3>1. /\ drained[s].kept \in 0..Cap /\ drained[s].truncated \in BOOLEAN
          /\ (drained[s].truncated \/ drained[s].kept = Cap) \in BOOLEAN
      BY DEF DrainedTyped, Buffer
    <3>2. (IF drained[s].kept < Cap THEN drained[s].kept + 1 ELSE drained[s].kept) \in 0..Cap
      BY <3>1, SizeAssumption
    <3>3. \A k \in 0..Cap, t, e \in BOOLEAN :
                [kept |-> k, truncated |-> t, ended |-> e] \in Buffer
      BY DEF Buffer
    <3>4. CASE drained'[s] = [kept |-> drained[s].kept, truncated |-> drained[s].truncated,
                              ended |-> TRUE]
      BY <3>1, <3>3, <3>4
    <3> DEFINE more == IF drained[s].kept < Cap THEN drained[s].kept + 1 ELSE drained[s].kept
               cut == drained[s].truncated \/ drained[s].kept = Cap
    <3>5. CASE drained'[s] = [kept |-> more, truncated |-> cut, ended |-> FALSE]
      <4>1. more \in 0..Cap /\ cut \in BOOLEAN
        BY <3>1, <3>2
      <4> HIDE DEF more, cut
      <4> QED BY <3>3, <3>5, <4>1
    <3> QED BY <1>1, <3>4, <3>5, DrainEffect
  <2>2. \A t \in Out : drained'[t] \in Buffer
    BY <1>1, <2>1, DrainEffect DEF DrainedTyped
  <2>3. drained' = [t \in Out |-> drained'[t]]
    BY <1>1, DrainEffect
  <2> QED BY <2>2, <2>3 DEF DrainedTyped
<1>2. CASE UNCHANGED drained
  BY <1>2 DEF DrainedTyped
<1> QED
  BY <1>1, <1>2 DEF Next, Supervises, GivesUp, Start, Exited, Overrun, Kill, Reap,
     Collect, Report, Feed, Writes, ChildReads, Helps, Exits, Reuse, Tick, vars

\* Nor is what run takes of a reader more than that.
LEMMA GotStep ==
    ASSUME GotTyped, DrainedTyped, [Next]_vars
    PROVE  GotTyped'
<1>1. ASSUME NEW s \in Out, Collect(s) PROVE GotTyped'
  <2>1. Collected(s) \subseteq Kept
    <3>1. drained[s].kept \in 0..Cap /\ drained[s].truncated \in BOOLEAN
      BY DEF DrainedTyped, Buffer
    <3>2. Takes(s) \in Kept /\ [kept |-> 0, truncated |-> TRUE] \in Kept
      BY <3>1, SizeAssumption DEF Takes, Kept
    <3> QED BY <3>2 DEF Collected
  <2> QED BY <1>1, <2>1 DEF Collect, GotTyped
<1>2. CASE UNCHANGED got
  BY <1>2 DEF GotTyped
<1> QED
  BY <1>1, <1>2 DEF Next, Supervises, GivesUp, Start, Exited, Overrun, Kill, Reap,
     Report, Feed, Drain, Writes, ChildReads, Helps, Exits, Reuse, Tick, vars

\* Every variable stays in its type, under every step of run, of its threads,
\* of the child and of time.
THEOREM RunIsTyped == Spec => []TypeOK
<1>1. Init => TypeOK
  <2> SUFFICES ASSUME Init PROVE TypeOK
    OBVIOUS
  <2>1. ControlTyped /\ CallTyped
    BY ResultFields DEF Init, ControlTyped, CallTyped
  <2>4. ClockTyped /\ PipesTyped
    BY SizeAssumption DEF Init, ClockTyped, PipesTyped
  <2>2. [kept |-> 0, truncated |-> FALSE, ended |-> FALSE] \in Buffer
    BY SizeAssumption DEF Buffer
  <2>3. DrainedTyped /\ GotTyped
    BY <2>2 DEF Init, DrainedTyped, GotTyped
  <2> QED BY <2>1, <2>3, <2>4, TypeParts
<1>2. TypeOK /\ [Next]_vars => TypeOK'
  <2> SUFFICES ASSUME TypeOK, [Next]_vars PROVE TypeOK'
    OBVIOUS
  <2>1. ControlTyped' /\ CallTyped' /\ ClockTyped' /\ PipesTyped' /\ DrainedTyped' /\ GotTyped'
    BY TypeParts, ControlStep, ClockStep, PipesStep, DrainedStep, GotStep
  <2>2. TypeOK' <=> /\ ControlTyped' /\ CallTyped' /\ ClockTyped'
                    /\ PipesTyped' /\ DrainedTyped' /\ GotTyped'
    BY TypeParts, PTL
  <2> QED BY <2>1, <2>2
<1> QED BY <1>1, <1>2, PTL DEF Spec

-----------------------------------------------------------------------------
(***************************************************************************)
(* A timeout kills its own.  The child's number is its own as long as      *)
(* nobody has waited for it, and run waits for it last.                    *)
(***************************************************************************)

\* Where the child is in each phase, and whose its number is.
Whose ==
    /\ phase = "asked" => child = "none" /\ helper = "none"
    /\ phase \in {"watching", "killing"} => child \in {"running", "zombie"}
    /\ phase = "reaping" => child = "zombie" /\ helper # "group"
    /\ phase = "collecting" => child = "reaped"
    /\ pid = "stranger" => child = "reaped"
    /\ result.is # "pending" => phase = "done"
    /\ result.is = "answer" => child = "reaped"
    /\ TimeoutKillsItsOwn

\* A helper in the group is started by a running child, and by nobody else.
LEMMA WhoseStep ==
    ASSUME ControlTyped, Whose, [Next]_vars
    PROVE  Whose'
<1>. USE DEF ControlTyped, Whose, TimeoutKillsItsOwn, process
<1>1. CASE GivesUp
  BY <1>1, EndingSteps DEF GivesUp
<1>2. CASE Start
  BY <1>2 DEF Start
<1>3. CASE Exited \/ Overrun \/ Kill
  <2>1. CASE Exited
    BY <2>1 DEF Exited, Watching
  <2>2. CASE Overrun
    BY <2>2 DEF Overrun, Watching
  <2>3. CASE Kill
    BY <2>3 DEF Kill
  <2> QED BY <1>3, <2>1, <2>2, <2>3
<1>4. CASE Reap
  BY <1>4, EndingSteps DEF Reap
<1>5. ASSUME NEW s \in Out, Collect(s) PROVE Whose'
  BY <1>5 DEF Collect
<1>6. CASE Report
  BY <1>6, EndingSteps DEF Report
<1>7. ASSUME NEW s \in Out, Drain(s) \/ Writes(s) PROVE Whose'
  <2>1. UNCHANGED <<phase, child, helper, pid, struck, result>>
    BY <1>7 DEF Drain, Writes
  <2> QED BY <2>1
<1>8. CASE Feed \/ ChildReads \/ Tick
  <2>1. UNCHANGED <<phase, child, helper, pid, struck, result>>
    BY <1>8 DEF Feed, ChildReads, Tick
  <2> QED BY <2>1
<1>9. CASE Helps \/ Exits \/ Reuse
  <2>1. CASE Helps
    BY <2>1 DEF Helps
  <2>2. CASE Exits
    BY <2>2 DEF Exits
  <2>3. CASE Reuse
    BY <2>3 DEF Reuse
  <2> QED BY <1>9, <2>1, <2>2, <2>3
<1>10. CASE UNCHANGED vars
  BY <1>10 DEF vars
<1> QED
  BY <1>1, <1>2, <1>3, <1>4, <1>5, <1>6, <1>7, <1>8, <1>9, <1>10 DEF Next, Supervises

\* Whose holds of every behaviour.
LEMMA WhoseHolds == Spec => []Whose
<1>1. Init => Whose
  BY ResultFields DEF Init, Whose, TimeoutKillsItsOwn
<1>2. TypeOK /\ Whose /\ [Next]_vars => Whose'
  BY WhoseStep, TypeParts
<1> QED BY <1>1, <1>2, RunIsTyped, PTL DEF Spec

\* The error of a timeout is true: the child is gone with all that it started
\* in its group, and no signal went to a process that was given its number.
THEOREM KillsItsOwn == Spec => []TimeoutKillsItsOwn
<1>1. Whose => TimeoutKillsItsOwn
  BY DEF Whose
<1> QED BY <1>1, WhoseHolds, PTL

-----------------------------------------------------------------------------
(***************************************************************************)
(* An answer is honest.  A reader thread's buffer is a function of how     *)
(* much it has read; run takes it only when the stream has ended, or gives *)
(* it up when somebody else has it open.                                   *)
(***************************************************************************)

\* How much the reader of a stream has read.
Consumed(s) == written[s] - pipe[s]

\* What a reader keeps, and what it says of the rest.
Buffered ==
    \A s \in Out :
        /\ Consumed(s) >= 0
        /\ drained[s].kept = IF Consumed(s) <= Cap THEN Consumed(s) ELSE Cap
        /\ drained[s].truncated <=> Consumed(s) > Cap
        /\ drained[s].ended => pipe[s] = 0 /\ ~Open /\ phase # "asked"

\* What run has of a stream: all of it, or nothing, and then there was a
\* helper; once time has passed since the child was reaped, a stream that has
\* not ended is a helper's.
Gathered ==
    /\ \A s \in Out : got[s] # Pending =>
          \/ drained[s].ended /\ got[s] = Takes(s)
          \/ helper # "none" /\ got[s] = [kept |-> 0, truncated |-> TRUE]
    /\ phase = "collecting" /\ clock > 0 /\ helper = "none" => \A s \in Out : drained[s].ended
    /\ result.is = "answer" =>
          /\ \A s \in Out : got[s] # Pending
          /\ result.kept = [s \in Out |-> got[s].kept]
          /\ result.truncated = (\E s \in Out : got[s].truncated)

\* Nobody opens a stream again that has been closed.
LEMMA StaysClosed ==
    ASSUME ControlTyped, Whose, [Next]_vars, phase # "asked", ~Open
    PROVE  phase' # "asked" /\ ~Open'
<1>1. child # "running" /\ helper \in {"none", "gone"}
  BY DEF Open, ControlTyped
<1>2. phase' # "asked" /\ child' # "running" /\ helper' \in {"none", "gone"}
  BY <1>1 DEF Next, Supervises, GivesUp, Start, Exited, Overrun, Kill, Reap, Collect, Report,
     Feed, Drain, Writes, ChildReads, Helps, Exits, Reuse, Tick, Ends, vars, process
<1> QED BY <1>2 DEF Open

\* A reader's buffer stays the function of what it has read.
LEMMA BufferedStep ==
    ASSUME PipesTyped, DrainedTyped, ControlTyped, Whose, Buffered, [Next]_vars
    PROVE  Buffered'
<1>1. ASSUME NEW s \in Out, Drain(s) PROVE Buffered'
  <2>1. /\ UNCHANGED <<phase, child, helper, written>> /\ phase # "asked"
        /\ \A t \in Out \ {s} : pipe'[t] = pipe[t] /\ drained'[t] = drained[t]
    BY <1>1, DrainEffect DEF Drain, process, PipesTyped
  <2>2. Open' = Open
    BY <2>1 DEF Open
  <2>3. CASE /\ pipe[s] > 0 /\ pipe' = [pipe EXCEPT ![s] = @ - 1]
             /\ drained'[s] = [kept |-> IF drained[s].kept < Cap THEN drained[s].kept + 1
                                        ELSE drained[s].kept,
                               truncated |-> drained[s].truncated \/ drained[s].kept = Cap,
                               ended |-> FALSE]
    <3>1. /\ pipe'[s] = pipe[s] - 1
          /\ drained'[s].kept = IF drained[s].kept < Cap THEN drained[s].kept + 1
                                ELSE drained[s].kept
          /\ drained'[s].truncated <=> (drained[s].truncated \/ drained[s].kept = Cap)
          /\ ~drained'[s].ended
      <4>1. pipe'[s] = pipe[s] - 1
        BY <2>3 DEF PipesTyped
      <4> DEFINE more == IF drained[s].kept < Cap THEN drained[s].kept + 1 ELSE drained[s].kept
                 cut == drained[s].truncated \/ drained[s].kept = Cap
      <4>2. drained'[s] = [kept |-> more, truncated |-> cut, ended |-> FALSE]
        BY <2>3
      <4> HIDE DEF more, cut
      <4>3. drained'[s].kept = more /\ drained'[s].truncated = cut /\ ~drained'[s].ended
        BY <4>2
      <4> QED BY <4>1, <4>3 DEF more, cut
    <3>2. pipe[s] \in Nat /\ written[s] \in Nat
      BY DEF PipesTyped
    <3>3. /\ drained[s].kept = IF Consumed(s) <= Cap THEN Consumed(s) ELSE Cap
          /\ drained[s].truncated <=> Consumed(s) > Cap
          /\ Consumed(s) >= 0
      BY DEF Buffered
    <3>4. Consumed(s)' = Consumed(s) + 1 /\ Consumed(s) \in Int
      BY <2>1, <3>1, <3>2 DEF Consumed
    <3>5. /\ drained'[s].kept = IF Consumed(s)' <= Cap THEN Consumed(s)' ELSE Cap
          /\ Consumed(s)' >= 0
      BY <3>1, <3>3, <3>4, SizeAssumption
    <3>6. drained'[s].truncated <=> Consumed(s)' > Cap
      BY <3>1, <3>3, <3>4, SizeAssumption
    <3>7. \A t \in Out \ {s} : Consumed(t)' = Consumed(t)
      BY <2>1 DEF Consumed
    <3> QED BY <2>1, <2>2, <3>1, <3>5, <3>6, <3>7 DEF Buffered
  <2>4. CASE /\ pipe[s] = 0 /\ ~Open /\ pipe' = pipe
             /\ drained'[s] = [kept |-> drained[s].kept,
                               truncated |-> drained[s].truncated, ended |-> TRUE]
    <3>1. /\ drained'[s].kept = drained[s].kept
          /\ drained'[s].truncated = drained[s].truncated
      BY <2>4
    <3>2. \A t \in Out : Consumed(t)' = Consumed(t)
      BY <2>1, <2>4 DEF Consumed
    <3> QED BY <2>1, <2>2, <2>4, <3>1, <3>2 DEF Buffered
  <2> QED BY <1>1, <2>3, <2>4, DrainEffect
<1>2. ASSUME NEW s \in Out, Writes(s) PROVE Buffered'
  <2>1. /\ UNCHANGED <<phase, child, helper, drained>> /\ Open
        /\ pipe' = [pipe EXCEPT ![s] = @ + 1] /\ written' = [written EXCEPT ![s] = @ + 1]
    BY <1>2 DEF Writes, process
  <2>2. \A t \in Out : Consumed(t)' = Consumed(t) /\ ~drained[t].ended
    <3>1. \A t \in Out : pipe[t] \in Nat /\ written[t] \in Nat
      BY DEF PipesTyped
    <3>2. /\ pipe'[s] = pipe[s] + 1 /\ written'[s] = written[s] + 1
          /\ \A t \in Out \ {s} : pipe'[t] = pipe[t] /\ written'[t] = written[t]
      BY <2>1 DEF PipesTyped
    <3> QED BY <2>1, <3>1, <3>2 DEF Consumed, Buffered
  <2> QED BY <2>1, <2>2 DEF Buffered
<1>3. ASSUME UNCHANGED <<written, drained>>, \A s \in Out : pipe'[s] = pipe[s]
      PROVE  Buffered'
  BY <1>3, StaysClosed DEF Buffered, Consumed
<1>4. CASE Feed \/ ChildReads
  <2>1. UNCHANGED <<written, drained>> /\ \A s \in Out : pipe'[s] = pipe[s]
    BY <1>4 DEF Feed, ChildReads, PipesTyped, Out
  <2> QED BY <1>3, <2>1
<1> QED
  BY <1>1, <1>2, <1>3, <1>4 DEF Next, Supervises, GivesUp, Start, Exited, Overrun, Kill, Reap,
     Collect, Report, Helps, Exits, Reuse, Tick, vars, streams

\* A stream that ended stays as it was when it ended.
LEMMA EndedStays ==
    ASSUME DrainedTyped, [Next]_vars, NEW s \in Out, drained[s].ended
    PROVE  drained'[s] = drained[s]
<1>1. ASSUME NEW t \in Out, Drain(t) PROVE drained'[s] = drained[s]
  BY <1>1, DrainEffect DEF Drain
<1> QED
  BY <1>1 DEF Next, Supervises, GivesUp, Start, Exited, Overrun, Kill, Reap, Collect, Report,
     Feed, Writes, ChildReads, Helps, Exits, Reuse, Tick, vars

\* What the child started is remembered: a helper is never forgotten.
LEMMA HelperStays ==
    ASSUME Whose, [Next]_vars, helper # "none"
    PROVE  helper' # "none"
  BY DEF Next, Supervises, GivesUp, Start, Exited, Overrun, Kill, Reap, Collect, Report,
     Feed, Drain, Writes, ChildReads, Helps, Exits, Reuse, Tick, vars, process

\* What run took of a stream is not one that is still to come.
LEMMA TakenIsNotPending ==
    ASSUME NEW k, NEW t
    PROVE  [kept |-> k, truncated |-> t] # Pending
<1>1. DOMAIN [kept |-> k, truncated |-> t] = {"kept", "truncated"} /\ DOMAIN Pending = {"is"}
  BY DEF Pending
<1> QED BY <1>1

\* What run has gathered stays true while helpers and readers go on.
LEMMA GatheredStep ==
    ASSUME ClockTyped, DrainedTyped, GotTyped, Whose, Gathered, [Next]_vars
    PROVE  Gathered'
<1>1. ASSUME UNCHANGED <<got, result>>,
             phase' = "collecting" /\ clock' > 0 => phase = "collecting" /\ clock > 0
      PROVE  Gathered'
  <2>1. ASSUME NEW s \in Out, drained[s].ended PROVE drained'[s] = drained[s]
    BY <2>1, EndedStays
  <2>2. ASSUME NEW s \in Out, got[s] # Pending
        PROVE  \/ drained'[s].ended /\ got[s] = Takes(s)'
               \/ helper' # "none" /\ got[s] = [kept |-> 0, truncated |-> TRUE]
    BY <2>1, <2>2, HelperStays DEF Gathered, Takes
  <2>3. helper' = "none" => helper = "none"
    BY HelperStays
  <2> QED BY <1>1, <2>1, <2>2, <2>3 DEF Gathered
<1>2. ASSUME NEW s \in Out, Collect(s) PROVE Gathered'
  <2>1. /\ UNCHANGED <<phase, drained, helper, result>> /\ clock' = 0
        /\ phase = "collecting" /\ got[s] = Pending
    BY <1>2 DEF Collect, process
  <2>2. PICK what \in Collected(s) : got' = [got EXCEPT ![s] = what]
    BY <1>2 DEF Collect
  <2>3. ~drained[s].ended => clock >= Grace /\ clock > 0
    BY <2>2, SizeAssumption DEF Collected, GivenUp, ClockTyped
  <2>4. \/ drained[s].ended /\ what = Takes(s)
        \/ helper # "none" /\ what = [kept |-> 0, truncated |-> TRUE]
    BY <2>1, <2>2, <2>3 DEF Collected, GivenUp, Gathered
  <2>5. result.is # "answer"
    BY <2>1 DEF Whose
  <2>6. got'[s] = what /\ \A t \in Out \ {s} : got'[t] = got[t]
    BY <2>2 DEF GotTyped
  <2>7. Takes(s)' = Takes(s) /\ \A t \in Out : Takes(t)' = Takes(t)
    BY <2>1 DEF Takes
  <2>8. \A t \in Out : got'[t] # Pending =>
            \/ drained'[t].ended /\ got'[t] = Takes(t)'
            \/ helper' # "none" /\ got'[t] = [kept |-> 0, truncated |-> TRUE]
    BY <2>1, <2>4, <2>6, <2>7 DEF Gathered
  <2>9. ~(phase' = "collecting" /\ clock' > 0) /\ result'.is # "answer"
    BY <2>1, <2>5
  <2> QED BY <2>8, <2>9 DEF Gathered
<1>3. CASE Report
  <2>1. /\ \A s \in Out : got[s] # Pending
        /\ UNCHANGED <<drained, helper, got>> /\ phase' = "done"
        /\ result' = Answer(status, [s \in Out |-> got[s].kept], \E s \in Out : got[s].truncated)
    BY <1>3 DEF Report, Ends, process
  <2>2. /\ result'.kept = [s \in Out |-> got[s].kept]
        /\ result'.truncated = (\E s \in Out : got[s].truncated)
    BY <2>1 DEF Answer
  <2> QED BY <2>1, <2>2 DEF Gathered, Takes
<1>4. CASE GivesUp \/ Reap
  <2>1. UNCHANGED <<drained, helper, got>> /\ phase' = "done" /\ result'.is # "answer"
    BY <1>4, EndingSteps DEF GivesUp, Reap
  <2> QED BY <2>1 DEF Gathered, Takes
<1>5. CASE Tick
  <2>1. UNCHANGED <<phase, child, helper, drained, got, result>>
    BY <1>5 DEF Tick, process
  <2>2. phase = "collecting" /\ helper = "none" => \A s \in Out : drained[s].ended
    BY <1>5 DEF Tick, Idle, Open, Whose
  <2> QED BY <2>1, <2>2 DEF Gathered, Takes
<1>6. CASE Exited
  BY <1>1, <1>6 DEF Exited
<1>7. CASE Start \/ Overrun \/ Kill
  BY <1>1, <1>7 DEF Start, Overrun, Kill
<1>8. ASSUME NEW s \in Out, Drain(s) \/ Writes(s) PROVE Gathered'
  BY <1>1, <1>8 DEF Drain, Writes
<1>9. CASE Feed \/ ChildReads \/ Helps \/ Exits \/ Reuse \/ UNCHANGED vars
  BY <1>1, <1>9 DEF Feed, ChildReads, Helps, Exits, Reuse, vars
<1> QED
  BY <1>2, <1>3, <1>4, <1>5, <1>6, <1>7, <1>8, <1>9 DEF Next, Supervises

\* A stream that ended, and was not cut, is all that was written to it.
LEMMA GatheredIsHonest ==
    ASSUME PipesTyped, Buffered, Gathered
    PROVE  AnswerIsHonest
<1> SUFFICES ASSUME result.is = "answer"
             PROVE  IF result.truncated
                    THEN helper # "none" \/ \E s \in Out : written[s] > Cap
                    ELSE \A s \in Out : result.kept[s] = written[s]
  BY DEF AnswerIsHonest
<1>1. CASE \E s \in Out : got[s].truncated
  <2>1. PICK s \in Out : got[s].truncated
    BY <1>1
  <2>2. CASE drained[s].ended /\ got[s] = Takes(s)
    <3>1. Consumed(s) > Cap /\ Consumed(s) = written[s] - 0 /\ written[s] \in Nat
      BY <2>1, <2>2 DEF Takes, Buffered, Consumed, PipesTyped
    <3>2. written[s] > Cap
      BY <3>1, SizeAssumption
    <3> QED BY <1>1, <3>2 DEF Gathered
  <2> QED BY <1>1, <2>2 DEF Gathered
<1>2. CASE \A s \in Out : ~got[s].truncated
  <2>1. ASSUME NEW s \in Out PROVE got[s].kept = written[s]
    <3>1. drained[s].ended /\ got[s] = Takes(s)
      BY <1>2 DEF Gathered
    <3>2. ~drained[s].truncated /\ got[s].kept = drained[s].kept
      BY <1>2, <3>1 DEF Takes
    <3>3. drained[s].kept = written[s] - 0
      BY <3>1, <3>2, SizeAssumption DEF Buffered, Consumed, PipesTyped
    <3> QED BY <3>2, <3>3, SizeAssumption DEF PipesTyped
  <2> QED BY <1>2, <2>1 DEF Gathered
<1> QED BY <1>1, <1>2

\* An answer that is not marked truncated is all the child wrote, whatever a
\* helper does meanwhile, and it is marked so only for a cause.
THEOREM AnswersAreHonest == Spec => []AnswerIsHonest
<1>1. Init => Buffered /\ Gathered
  BY SizeAssumption DEF Init, Buffered, Gathered, Consumed, Out, Pending
<1>2. TypeOK /\ Whose /\ Buffered /\ Gathered /\ [Next]_vars => Buffered' /\ Gathered'
  BY BufferedStep, GatheredStep, TypeParts
<1>3. TypeOK /\ Buffered /\ Gathered => AnswerIsHonest
  BY GatheredIsHonest, TypeParts
<1> QED BY <1>1, <1>2, <1>3, RunIsTyped, WhoseHolds, PTL DEF Spec
=============================================================================
