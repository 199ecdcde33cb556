--------------------------- MODULE Journal_proofs ---------------------------
(***************************************************************************)
(* Proofs about one journalled operation, for any number of destinations,  *)
(* any plan, any number of deaths and any number of changes by other       *)
(* programs.                                                               *)
(***************************************************************************)
EXTENDS Journal, TLAPS

-----------------------------------------------------------------------------
(***************************************************************************)
(* Type correctness                                                        *)
(***************************************************************************)

AllKinds == SwitchKinds \union AdoptKinds \union {"none"}

\* Every planned destination has one of the five kinds.
LEMMA KindType ==
    TypeOK => kind \in [Dest -> AllKinds]
  BY KindsAssumption DEF TypeOK, Plans, AllKinds

\* A forward recovery plans a step the executor knows, or refuses.
LEMMA ForwardType ==
    ASSUME TypeOK, NEW d \in Dest
    PROVE  Forward(d) \in Work \union {"unexpected"}
<1>. USE KindType DEF AllKinds, SwitchKinds, AdoptKinds, Work
<1>1. FinishSwap(d) \in Work \union {"unexpected"}
  BY DEF FinishSwap
<1> QED BY <1>1 DEF Forward, Swapping

\* So does a backward one.
LEMMA BackwardType ==
    ASSUME TypeOK, NEW d \in Dest
    PROVE  Backward(d) \in Work \union {"unexpected"}
  BY KindType DEF AllKinds, SwitchKinds, AdoptKinds, Work, Backward

\* What recover plans is something it can do.
LEMMA DecisionType ==
    ASSUME TypeOK, ~Refuses, NEW d \in Dest
    PROVE  Decision(d) \in Work
<1>1. CASE d \in Planned
  BY <1>1, ForwardType, BackwardType DEF Refuses, Decision
<1>2. CASE d \notin Planned
  BY <1>2 DEF Planned, Decision, Forward, Backward, Swapping, Work
<1> QED BY <1>1, <1>2

\* Every variable stays in its type, under every step of every process.
THEOREM TypeCorrect == Spec => []TypeOK
<1>1. Init => TypeOK
  BY BoundsAssumption DEF Init, TypeOK, Nothing, Idle, Modes, Content, Work
<1>2. TypeOK /\ [Next]_vars => TypeOK'
  <2> SUFFICES ASSUME TypeOK, [Next]_vars PROVE TypeOK'
    OBVIOUS
  <2>. USE DEF TypeOK, plan, disk, outside
  <2>1. CASE Begin
    <3>1. Ops \in [Dest -> Work]
      BY KindType DEF Ops, Work, Swapping, AllKinds, SwitchKinds, AdoptKinds
    <3> QED BY <2>1, <3>1 DEF Begin
  <2>2. ASSUME NEW d \in Dest, Step(d) PROVE TypeOK'
    <3>. USE DEF Work, Content, Then
    <3>1. CASE StageLink(d) BY <3>1 DEF StageLink
    <3>2. CASE ExchangeAtomic(d) BY <3>2 DEF ExchangeAtomic
    <3>3. CASE ExchangeFallback(d) BY <3>3 DEF ExchangeFallback
    <3>4. CASE ParkLive(d) BY <3>4 DEF ParkLive
    <3>10. CASE LookLive(d) BY <3>10 DEF LookLive
    <3>5. CASE LandNew(d) BY <3>5 DEF LandNew
    <3>6. CASE CreateLink(d) BY <3>6 DEF CreateLink
    <3>7. CASE DisplaceStaged(d) BY <3>7 DEF DisplaceStaged
    <3>8. CASE DisplaceSwap(d) BY <3>8 DEF DisplaceSwap
    <3>9. CASE RetireLink(d) BY <3>9 DEF RetireLink
    <3> QED BY <2>2, <3>1, <3>2, <3>3, <3>4, <3>5, <3>6, <3>7, <3>8, <3>9, <3>10 DEF Step
  <2>3. CASE Settle BY <2>3 DEF Settle
  <2>4. CASE MarkDone BY <2>4 DEF MarkDone
  <2>5. CASE Recover
    <3>1. Direction \in {"forward", "backward"}
      BY DEF Direction
    <3>2. \A d \in Dest : Decision(d) \in Work
      BY <2>5, DecisionType DEF Recover
    <3> QED BY <2>5, <3>1, <3>2 DEF Recover
  <2>6. CASE StepFails BY <2>6 DEF StepFails, Ends, Idle, Work
  <2>7. CASE Stop BY <2>7, BoundsAssumption DEF Stop, Ends, Idle, Work
  <2>8. ASSUME NEW d \in Dest, NEW c \in Content, Tamper(d, c) PROVE TypeOK'
    BY <2>8, BoundsAssumption DEF Tamper, Content
  <2>9. CASE UNCHANGED vars BY <2>9 DEF vars
  <2> QED BY <2>1, <2>2, <2>3, <2>4, <2>5, <2>6, <2>7, <2>8, <2>9 DEF Next
<1> QED BY <1>1, <1>2, PTL DEF Spec

-----------------------------------------------------------------------------
(***************************************************************************)
(* The invariant.  An adopt of an absent path is left out: its journal is  *)
(* the one recover cannot read (run journal_adopt_absent).                 *)
(***************************************************************************)

Memory(d) ==
    /\ proc \in {"apply", "forward"} => Rest(d) = Forward(d)
    /\ proc = "backward" => work[d] = Backward(d) /\ Side(d) = "old"

\* One rename at one undisturbed destination takes it from one shape to the
\* next, and the process's memory with it.
LEMMA StepAtDest ==
    ASSUME "adoptcreate" \notin Kinds, TypeOK, TypeOK',
           NEW d \in Undisturbed, Shape(d), Memory(d), Step(d)
    PROVE  Shape(d)' /\ Memory(d)'
<1>. DEFINE k == kind[d]
<1>1. /\ k \in {"exchange", "adopt", "create", "retire"}
      /\ d \in Dest
      /\ proc \in {"apply", "forward", "backward"} /\ work[d] # "done"
  BY KindType DEF AllKinds, SwitchKinds, AdoptKinds, Undisturbed, Planned, TypeOK, Plans,
      Step, StageLink, ExchangeAtomic, ExchangeFallback, ParkLive, LookLive, LandNew, CreateLink,
      DisplaceStaged, DisplaceSwap, RetireLink, Turn
<1>2. CASE StageLink(d)
  BY <1>1, <1>2 DEF StageLink, Shape, Memory, Swapping, Forward, Backward, FinishSwap,
     Side, Slots, SwapStages, TypeOK, Then, plan, Rest
<1>3. CASE ExchangeAtomic(d)
  BY <1>1, <1>3 DEF ExchangeAtomic, Shape, Memory, Swapping, Forward, Backward, FinishSwap,
     Side, Slots, SwapStages, TypeOK, Then, plan, Rest
<1>4. CASE ExchangeFallback(d)
  BY <1>1, <1>4 DEF ExchangeFallback, Shape, Memory, Swapping, Forward, Backward, FinishSwap,
     Side, Slots, SwapStages, TypeOK, Then, plan, Rest
<1>5. CASE ParkLive(d)
  BY <1>1, <1>5 DEF ParkLive, Shape, Memory, Swapping, Forward, Backward, FinishSwap,
     Side, Slots, SwapStages, TypeOK, Then, plan, Rest
<1>11. CASE LookLive(d)
  BY <1>1, <1>11 DEF LookLive, disk, Shape, Memory, Swapping, Forward, Backward, FinishSwap,
     Side, Slots, SwapStages, TypeOK, Then, plan, Rest
<1>6. CASE LandNew(d)
  BY <1>1, <1>6 DEF LandNew, Shape, Memory, Swapping, Forward, Backward, FinishSwap,
     Side, Slots, SwapStages, TypeOK, Then, plan, Rest
<1>7. CASE CreateLink(d)
  BY <1>1, <1>7 DEF CreateLink, Shape, Memory, Swapping, Forward, Backward, FinishSwap,
     Side, Slots, SwapStages, TypeOK, Then, plan, Rest
<1>8. CASE DisplaceStaged(d)
  BY <1>1, <1>8 DEF DisplaceStaged, Shape, Memory, Swapping, Forward, Backward, FinishSwap,
     Side, Slots, SwapStages, TypeOK, Then, plan, Rest
<1>9. CASE DisplaceSwap(d)
  BY <1>1, <1>9 DEF DisplaceSwap, Shape, Memory, Swapping, Forward, Backward, FinishSwap,
     Side, Slots, SwapStages, TypeOK, Then, plan, Rest
<1>10. CASE RetireLink(d)
  BY <1>1, <1>10 DEF RetireLink, Shape, Memory, Swapping, Forward, Backward, FinishSwap,
     Side, Slots, SwapStages, TypeOK, Then, plan, Rest
<1> QED BY <1>2, <1>3, <1>4, <1>5, <1>6, <1>7, <1>8, <1>9, <1>10, <1>11 DEF Step

\* A rename at one destination leaves every other one alone.
LEMMA StepElsewhere ==
    ASSUME TypeOK, NEW d \in Dest, NEW e \in Dest \ {d}, Step(d)
    PROVE  /\ live'[e] = live[e] /\ staged'[e] = staged[e] /\ swap'[e] = swap[e]
           /\ attic'[e] = attic[e] /\ work'[e] = work[e]
  BY DEF TypeOK, Step, StageLink, ExchangeAtomic, ExchangeFallback, ParkLive, LookLive, LandNew,
     CreateLink, DisplaceStaged, DisplaceSwap, RetireLink, Then, disk

\* What a step at a destination leaves alone everywhere.
LEMMA StepFrame ==
    ASSUME NEW d \in Dest, Step(d)
    PROVE  /\ UNCHANGED <<kind, mode, journal, proc, records, tampered>>
           /\ proc # "idle" /\ work[d] # "done"
  BY DEF Step, StageLink, ExchangeAtomic, ExchangeFallback, ParkLive, LookLive, LandNew,
     CreateLink, DisplaceStaged, DisplaceSwap, RetireLink, plan, outside, Turn

\* Shape and Memory only look at the destination's own names.
LEMMA Locality ==
    ASSUME NEW e \in Dest, Shape(e), Memory(e),
           kind'[e] = kind[e], mode' = mode, proc' = proc,
           live'[e] = live[e], staged'[e] = staged[e], swap'[e] = swap[e],
           attic'[e] = attic[e], work'[e] = work[e]
    PROVE  Shape(e)' /\ Memory(e)'
<1>1. Slots(e)' = Slots(e) /\ Side(e)' = Side(e)
  BY DEF Slots, Side
<1>2. Forward(e)' = Forward(e) /\ Backward(e)' = Backward(e)
  BY <1>1 DEF Forward, Backward, FinishSwap
<1> QED BY <1>1, <1>2 DEF Shape, Memory, Rest

\* MemoryMatchesDisk, one destination at a time.
LEMMA MemoryEachDest ==
    MemoryMatchesDisk <=> \A d \in Undisturbed : Memory(d)
  BY DEF MemoryMatchesDisk, Memory

\* Shape fixes where a destination is once nothing is left to do.
LEMMA ForwardDone ==
    ASSUME "adoptcreate" \notin Kinds, TypeOK, NEW d \in Undisturbed, Shape(d),
           Forward(d) = "done"
    PROVE  AtNew(d)
<1>1. kind[d] \in {"exchange", "adopt", "create", "retire"}
  BY KindType DEF AllKinds, SwitchKinds, AdoptKinds, Undisturbed, Planned, TypeOK, Plans
<1> QED BY <1>1 DEF Shape, Forward, FinishSwap, Slots, Side, SwapStages, AtNew, Displacing,
           Swapping

\* The same for a backward recovery: what it leaves is the old state.
LEMMA BackwardDone ==
    ASSUME "adoptcreate" \notin Kinds, TypeOK, NEW d \in Undisturbed, Shape(d),
           Backward(d) = "done", Side(d) = "old"
    PROVE  AtOld(d)
<1>1. kind[d] \in {"exchange", "adopt", "create", "retire"}
  BY KindType DEF AllKinds, SwitchKinds, AdoptKinds, Undisturbed, Planned, TypeOK, Plans
<1> QED BY <1>1 DEF Shape, Backward, Slots, Side, SwapStages, AtOld, Displacing, Swapping

\* A destination that is fully new has nothing left to do in any recover.
LEMMA NewIsNotOld ==
    ASSUME TypeOK, NEW d \in Undisturbed, AtNew(d)
    PROVE  Side(d) = "new" /\ Side(d) # "old" /\ Forward(d) = "done"
<1>1. kind[d] \in AllKinds \ {"none"}
  BY KindType DEF Undisturbed, Planned
<1> QED BY <1>1 DEF AllKinds, SwitchKinds, AdoptKinds, AtNew, Side, Forward, FinishSwap,
           Slots, Swapping

\* No plan, and no recover, starts with a rename whose look is behind it.
LEMMA NothingStartsLanding ==
    ASSUME TypeOK, NEW d \in Dest
    PROVE  Ops[d] # "landing" /\ Decision(d) # "landing"
<1>1. kind[d] \in AllKinds
  BY KindType
<1>2. Ops[d] # "landing"
  BY <1>1 DEF Ops, AllKinds, SwitchKinds, AdoptKinds, Swapping
<1>3. FinishSwap(d) # "landing"
  BY DEF FinishSwap
<1>4. Forward(d) # "landing" /\ Backward(d) # "landing"
  BY <1>1, <1>3 DEF Forward, Backward, AllKinds, SwitchKinds, AdoptKinds, Swapping
<1> QED BY <1>2, <1>4 DEF Decision

\* Every step of every process, every death and every change by another
\* program keeps the invariant.
LEMMA InvariantStep ==
    ASSUME "adoptcreate" \notin Kinds, TypeOK, TypeOK', JournalInv, [Next]_vars
    PROVE  JournalInv'
<1>1. ASSUME NEW d \in Dest, Step(d) PROVE JournalInv'
  <2>1. /\ UNCHANGED <<kind, mode, journal, proc, records, tampered>>
        /\ proc # "idle" /\ work[d] # "done" /\ journal = "current"
        /\ Undisturbed' = Undisturbed
    BY <1>1, StepFrame DEF JournalInv, Undisturbed, Planned
  <2>2. ASSUME NEW e \in Undisturbed PROVE Shape(e)' /\ Memory(e)'
    <3>1. Shape(e) /\ Memory(e) /\ e \in Dest
      BY MemoryEachDest DEF JournalInv, Undisturbed, Planned
    <3>2. CASE e = d
      BY <1>1, <3>1, <3>2, StepAtDest
    <3>3. CASE e # d
      BY <1>1, <2>1, <3>1, <3>3, StepElsewhere, Locality
    <3> QED BY <3>2, <3>3
  <2>3. records' = "new" => \A e \in Undisturbed' : AtNew(e)'
    <3> SUFFICES ASSUME records = "new", NEW e \in Undisturbed PROVE AtNew(e)'
      BY <2>1
    <3>1. AtNew(e) /\ Memory(e) /\ e \in Dest
      BY MemoryEachDest DEF JournalInv, Undisturbed, Planned
    <3>2. e # d
      BY <2>1, <3>1, NewIsNotOld DEF Memory, TypeOK, Rest
    <3> QED BY <1>1, <2>1, <3>1, <3>2, StepElsewhere DEF AtNew
  <2> QED
    BY <2>1, <2>2, <2>3, MemoryEachDest DEF JournalInv, AllOrNothing, MemoryMatchesDisk, Memory
<1>2. CASE Begin
  <2>1. /\ UNCHANGED <<kind, mode, live, staged, swap, attic, records, tampered>>
        /\ journal = "none" /\ journal' = "current" /\ proc' = "apply" /\ work' = Ops
        /\ Undisturbed' = Undisturbed
    BY <1>2 DEF Begin, plan, disk, outside, Undisturbed, Planned
  <2>2. ASSUME NEW e \in Undisturbed PROVE Shape(e)' /\ Memory(e)'
    <3>1. e \in Dest /\ kind[e] \in {"exchange", "adopt", "create", "retire"}
      BY KindType DEF AllKinds, SwitchKinds, AdoptKinds, Undisturbed, Planned, TypeOK, Plans
    <3>2. Shape(e) /\ AtOld(e)
      BY <2>1 DEF JournalInv
    <3>3. Forward(e)' = Ops[e]
      BY <2>1, <3>1, <3>2 DEF AtOld, Displacing, Ops, Forward, FinishSwap, Slots, Side, Swapping
    <3> QED BY <2>1, <3>1, <3>2, <3>3, NothingStartsLanding DEF Shape, Slots, Memory, Rest
  <2> QED
    BY <2>1, <2>2 DEF JournalInv, AllOrNothing, MemoryMatchesDisk, Memory, AtNew
<1>3. CASE Settle
  <2>1. /\ UNCHANGED <<kind, mode, live, staged, swap, attic, tampered, journal, proc, work>>
        /\ proc \in {"apply", "forward"} /\ work = Idle /\ records' = "new"
        /\ Undisturbed' = Undisturbed
    BY <1>3 DEF Settle, plan, disk, outside, Undisturbed, Planned
  <2>2. ASSUME NEW e \in Undisturbed PROVE Shape(e)' /\ Memory(e)' /\ AtNew(e)'
    <3>1. Shape(e) /\ Memory(e) /\ e \in Dest
      BY MemoryEachDest DEF JournalInv, Undisturbed, Planned
    <3>2. AtNew(e)
      BY <2>1, <3>1, ForwardDone DEF Memory, Idle, Rest
    <3> QED BY <2>1, <3>1, <3>2, Locality DEF AtNew
  <2> QED
    BY <2>1, <2>2 DEF JournalInv, AllOrNothing, MemoryMatchesDisk, Memory
<1>4. CASE MarkDone
  <2>1. /\ UNCHANGED <<kind, mode, live, staged, swap, attic, tampered, records, work>>
        /\ proc # "idle" /\ work = Idle /\ (proc = "backward" \/ records = "new")
        /\ journal' = "done" /\ proc' = "idle"
        /\ Undisturbed' = Undisturbed
    BY <1>4 DEF MarkDone, plan, disk, outside, Undisturbed, Planned
  <2>2. ASSUME NEW e \in Undisturbed
        PROVE  /\ Shape(e)' /\ (AtNew(e)' <=> AtNew(e)) /\ (AtOld(e)' <=> AtOld(e))
               /\ records = "new" => AtNew(e)
               /\ records # "new" => AtOld(e)
    <3>1. Shape(e) /\ Memory(e) /\ e \in Dest
      BY MemoryEachDest DEF JournalInv, Undisturbed, Planned
    <3>2. records # "new" => AtOld(e)
      BY <2>1, <3>1, BackwardDone DEF Memory, Idle
    <3>3. records = "new" => AtNew(e)
      BY DEF JournalInv
    <3>4. /\ Shape(e)' /\ (AtNew(e)' <=> AtNew(e)) /\ (AtOld(e)' <=> AtOld(e))
      BY <2>1, <3>1 DEF Shape, Slots, AtNew, AtOld
    <3> QED BY <3>2, <3>3, <3>4
  <2> QED
    BY <2>1, <2>2 DEF JournalInv, AllOrNothing, MemoryMatchesDisk, TypeOK
<1>5. CASE Recover
  <2>1. /\ UNCHANGED <<kind, mode, live, staged, swap, attic, tampered, records, journal>>
        /\ journal = "current" /\ ~Refuses /\ proc' = Direction
        /\ work' = [d \in Dest |-> Decision(d)]
        /\ Undisturbed' = Undisturbed
    BY <1>5 DEF Recover, plan, disk, outside, Undisturbed, Planned
  <2>2. ASSUME NEW e \in Undisturbed
        PROVE  /\ Shape(e)' /\ Memory(e)' /\ (AtNew(e)' <=> AtNew(e))
    <3>1. Shape(e) /\ e \in Planned /\ e \in Dest
      BY DEF JournalInv, Undisturbed, Planned
    <3>2. Slots(e)' = Slots(e) /\ Side(e)' = Side(e) /\ (AtNew(e)' <=> AtNew(e))
      BY <2>1 DEF Slots, Side, AtNew
    <3>3. Forward(e)' = Forward(e) /\ Backward(e)' = Backward(e)
      BY <2>1, <3>2 DEF Forward, Backward, FinishSwap
    <3>4. Shape(e)'
      BY <2>1, <3>1, <3>2 DEF Shape
    <3>5. Side(e) \in {"old", "new", "inflight"}
      BY <2>1, <3>1 DEF Refuses, Side
    <3>6. Direction = "backward" => Side(e) = "old"
      BY <3>1, <3>5 DEF Direction
    <3> QED BY <2>1, <3>1, <3>2, <3>3, <3>4, <3>6, NothingStartsLanding
       DEF Memory, Decision, Direction, Rest
  <2> QED
    BY <2>1, <2>2 DEF JournalInv, AllOrNothing, MemoryMatchesDisk, Memory
<1>6. CASE StepFails \/ Stop
  <2>1. /\ UNCHANGED <<kind, mode, live, staged, swap, attic, tampered, records, journal>>
        /\ proc # "idle" /\ proc' = "idle"
        /\ Undisturbed' = Undisturbed
    BY <1>6 DEF StepFails, Stop, Ends, Turn, plan, disk, outside, Undisturbed, Planned
  <2>2. ASSUME NEW e \in Undisturbed
        PROVE  /\ Shape(e)' /\ (AtNew(e)' <=> AtNew(e))
    BY <2>1 DEF JournalInv, Shape, Slots, AtNew
  <2> QED
    BY <2>1, <2>2 DEF JournalInv, AllOrNothing, MemoryMatchesDisk
<1>7. ASSUME NEW d \in Dest, NEW c \in Content, Tamper(d, c) PROVE JournalInv'
  <2>1. /\ UNCHANGED <<kind, mode, staged, swap, attic, journal, proc, work, records>>
        /\ journal = "current" /\ tampered' = tampered \union {d}
        /\ live' = [live EXCEPT ![d] = c]
        /\ Undisturbed' = Undisturbed \ {d}
    BY <1>7 DEF Tamper, plan, Undisturbed, Planned
  <2>2. ASSUME NEW e \in Undisturbed \ {d}
        PROVE  /\ Shape(e)' /\ Memory(e)' /\ (AtNew(e)' <=> AtNew(e))
    <3>1. Shape(e) /\ Memory(e) /\ e \in Dest /\ live'[e] = live[e]
      BY <2>1, MemoryEachDest DEF JournalInv, Undisturbed, Planned, TypeOK
    <3> QED BY <2>1, <3>1, Locality DEF AtNew
  <2> QED
    BY <2>1, <2>2 DEF JournalInv, AllOrNothing, MemoryMatchesDisk, Memory
<1>8. CASE UNCHANGED vars
  <2>1. /\ UNCHANGED <<kind, mode, live, staged, swap, attic, tampered, records, journal, proc, work>>
        /\ Undisturbed' = Undisturbed
    BY <1>8 DEF vars, Undisturbed, Planned
  <2>2. ASSUME NEW e \in Undisturbed
        PROVE  /\ Shape(e)' /\ Memory(e)' /\ (AtNew(e)' <=> AtNew(e)) /\ (AtOld(e)' <=> AtOld(e))
    BY <2>1, MemoryEachDest, Locality DEF JournalInv, Undisturbed, Planned, AtNew, AtOld
  <2> QED
    BY <2>1, <2>2 DEF JournalInv, AllOrNothing, MemoryMatchesDisk, Memory
<1> QED BY <1>1, <1>2, <1>3, <1>4, <1>5, <1>6, <1>7, <1>8 DEF Next

-----------------------------------------------------------------------------
(***************************************************************************)
(* The theorems                                                            *)
(***************************************************************************)

\* The first journal finds every destination as the plan saw it.
LEMMA InvariantInit == Init => JournalInv
<1> SUFFICES ASSUME Init PROVE JournalInv
  OBVIOUS
<1>1. \A d \in Undisturbed : d \in Dest /\ kind[d] \in AllKinds \ {"none"}
  BY KindsAssumption DEF Init, Plans, AllKinds, Undisturbed, Planned
<1>2. \A d \in Undisturbed : Shape(d) /\ AtOld(d)
  BY <1>1 DEF Init, Shape, AtOld, Slots, SwapStages, Nothing, Swapping, Displacing,
     AllKinds, SwitchKinds, AdoptKinds
<1> QED BY <1>2 DEF Init, JournalInv, MemoryMatchesDisk, AllOrNothing

\* The invariant holds of every behaviour.
THEOREM InvariantHolds ==
    ASSUME "adoptcreate" \notin Kinds
    PROVE  Spec => []JournalInv
<1>1. TypeOK /\ TypeOK' /\ JournalInv /\ [Next]_vars => JournalInv'
  BY InvariantStep
<1> QED BY <1>1, InvariantInit, TypeCorrect, PTL DEF Spec

\* R5: however often the process dies, a retired journal means fully new or
\* fully old.
THEOREM NeverMixed ==
    ASSUME "adoptcreate" \notin Kinds
    PROVE  Spec => []AllOrNothing
<1>1. JournalInv => AllOrNothing
  BY DEF JournalInv
<1> QED BY <1>1, InvariantHolds, PTL

\* What a process has in memory is what a recover would read off the disk.
THEOREM MemoryIsDisk ==
    ASSUME "adoptcreate" \notin Kinds
    PROVE  Spec => []MemoryMatchesDisk
<1>1. JournalInv => MemoryMatchesDisk
  BY DEF JournalInv
<1> QED BY <1>1, InvariantHolds, PTL

\* What recover finds at a destination nobody else changed is never foreign,
\* and it knows what to do there in whichever direction it goes.
LEMMA ShapeIsKnown ==
    ASSUME "adoptcreate" \notin Kinds, TypeOK, NEW d \in Undisturbed, Shape(d)
    PROVE  /\ Side(d) \in {"old", "new", "inflight"}
           /\ Forward(d) # "unexpected"
           /\ Side(d) = "old" => Backward(d) # "unexpected"
<1>1. kind[d] \in {"exchange", "adopt", "create", "retire"}
  BY KindType DEF AllKinds, SwitchKinds, AdoptKinds, Undisturbed, Planned, TypeOK, Plans
<1> QED BY <1>1 DEF Shape, Side, Forward, Backward, FinishSwap, Slots, SwapStages, Swapping

\* recover never refuses on a machine no other program touched.
THEOREM RecoverNeverRefuses ==
    ASSUME "adoptcreate" \notin Kinds
    PROVE  Spec => []RefusesOnlyOutsiders
<1>1. TypeOK /\ JournalInv => RefusesOnlyOutsiders
  <2> SUFFICES ASSUME TypeOK, JournalInv, tampered = {}, NEW d \in Planned
               PROVE  Side(d) # "foreign" /\ Decision(d) # "unexpected"
    BY DEF RefusesOnlyOutsiders, Refuses
  <2>1. d \in Undisturbed /\ Shape(d)
    BY DEF JournalInv, Undisturbed
  <2>2. /\ Side(d) \in {"old", "new", "inflight"}
        /\ Forward(d) # "unexpected"
        /\ Side(d) = "old" => Backward(d) # "unexpected"
    BY <2>1, ShapeIsKnown
  <2>3. Direction # "forward" => Side(d) = "old"
    BY <2>2 DEF Direction
  <2>4. Decision(d) \in {Forward(d), Backward(d)} /\ (Direction = "forward" => Decision(d) = Forward(d))
    BY DEF Decision
  <2> QED BY <2>2, <2>3, <2>4
<1> QED BY <1>1, TypeCorrect, InvariantHolds, PTL

\* Nothing is ever planned, or done, for a path the journal does not name.
UnplannedIdle == \A d \in Dest \ Planned : work[d] = "done"

\* UnplannedIdle holds of every behaviour.
LEMMA UnplannedStaysIdle == Spec => []UnplannedIdle
<1>1. Init => UnplannedIdle
  BY DEF Init, UnplannedIdle, Idle
<1>2. TypeOK /\ UnplannedIdle /\ [Next]_vars => UnplannedIdle'
  <2> SUFFICES ASSUME TypeOK, UnplannedIdle, [Next]_vars,
                      NEW d \in Dest, kind'[d] = "none"
               PROVE  work'[d] = "done"
    BY DEF UnplannedIdle, Planned
  <2>1. CASE Begin
    BY <2>1 DEF Begin, plan, Ops, Swapping
  <2>2. ASSUME NEW e \in Dest, Step(e) PROVE work'[d] = "done"
    <3>1. kind' = kind /\ work[e] # "done"
      BY <2>2, StepFrame
    <3>2. work[d] = "done" /\ d # e
      BY <3>1 DEF UnplannedIdle, Planned
    <3> QED BY <2>2, <3>2, StepElsewhere
  <2>3. CASE Settle \/ MarkDone \/ UNCHANGED vars
    BY <2>3 DEF Settle, MarkDone, vars, plan, UnplannedIdle, Planned
  <2>4. CASE Recover
    BY <2>4 DEF Recover, plan, Decision, Forward, Backward, Swapping
  <2>5. CASE StepFails \/ Stop
    BY <2>5 DEF StepFails, Stop, Ends, Idle
  <2>6. ASSUME NEW e \in Dest, NEW c \in Content, Tamper(e, c) PROVE work'[d] = "done"
    BY <2>6 DEF Tamper, plan, UnplannedIdle, Planned
  <2> QED BY <2>1, <2>2, <2>3, <2>4, <2>5, <2>6 DEF Next
<1> QED BY <1>1, <1>2, TypeCorrect, PTL DEF Spec

\* No step of an apply or a recover can fail on such a machine.
THEOREM NoStepFails ==
    ASSUME "adoptcreate" \notin Kinds
    PROVE  Spec => []FailsOnlyOnOutsiders
<1>1. TypeOK /\ JournalInv /\ UnplannedIdle => FailsOnlyOnOutsiders
  <2> SUFFICES ASSUME TypeOK, JournalInv, UnplannedIdle, tampered = {},
                      NEW d \in Dest, Turn(d)
               PROVE  Possible(d)
    BY DEF FailsOnlyOnOutsiders
  <2>1. d \in Undisturbed /\ proc \in {"apply", "forward", "backward"}
    BY DEF Turn, UnplannedIdle, Undisturbed, TypeOK
  <2>2. Shape(d) /\ Memory(d)
    BY <2>1, MemoryEachDest DEF JournalInv
  <2>3. kind[d] \in {"exchange", "adopt", "create", "retire"}
    BY <2>1, KindType DEF AllKinds, SwitchKinds, AdoptKinds, Undisturbed, Planned, TypeOK, Plans
  <2>4. CASE Rest(d) = Forward(d)
    BY <2>2, <2>3, <2>4 DEF Possible, Rest, Shape, Forward, FinishSwap, Slots, Side, SwapStages,
       Swapping
  <2>5. CASE work[d] = Backward(d) /\ Side(d) = "old"
    BY <2>2, <2>3, <2>5 DEF Possible, Shape, Backward, Slots, Side, SwapStages, Swapping
  <2> QED BY <2>1, <2>2, <2>4, <2>5 DEF Memory
<1> QED BY <1>1, TypeCorrect, InvariantHolds, UnplannedStaysIdle, PTL

\* A rename never takes the new link away from a destination that shows it:
\* a Step at d moves the live object only while work[d] is a swap, a creation
\* or a retirement, and Memory says that d is then still old.
LEMMA StepKeepsNew ==
    ASSUME "adoptcreate" \notin Kinds, TypeOK, TypeOK',
           NEW d \in Undisturbed, Shape(d), Memory(d), Step(d), Side(d) = "new"
    PROVE  Side(d)' = "new"
<1>1. /\ kind[d] \in {"exchange", "adopt", "create", "retire"}
      /\ d \in Dest /\ kind' = kind
      /\ proc \in {"apply", "forward", "backward"} /\ work[d] # "done"
  BY KindType, StepFrame DEF AllKinds, SwitchKinds, AdoptKinds, Undisturbed, Planned, TypeOK, Plans
<1>2. Rest(d) = Forward(d)
  BY <1>1 DEF Memory
<1>3. work[d] \in {"displace", "displaceswap", "displaceboth"}
  BY <1>1, <1>2 DEF Forward, FinishSwap, Shape, Slots, SwapStages, Side, Swapping, Rest
<1>4. live'[d] = live[d]
  BY <1>1, <1>3 DEF Step, StageLink, ExchangeAtomic, ExchangeFallback, ParkLive, LookLive, LandNew,
     CreateLink, DisplaceStaged, DisplaceSwap, RetireLink
<1> QED BY <1>1, <1>4 DEF Side

\* A destination that has crossed never goes back.
THEOREM NoWayBack ==
    ASSUME "adoptcreate" \notin Kinds
    PROVE  Spec => CrossedStays
<1>1. ASSUME TypeOK, TypeOK', JournalInv, [Next]_vars
      PROVE  [\A d \in Planned \ tampered' : Side(d) = "new" => Side(d)' = "new"]_vars
  <2> SUFFICES ASSUME TypeOK, TypeOK', JournalInv, Next,
                      NEW d \in Planned, d \notin tampered', Side(d) = "new"
               PROVE  Side(d)' = "new"
    BY <1>1
  <2>1. CASE kind' = kind /\ live' = live
    BY <2>1 DEF Side
  <2>2. ASSUME NEW e \in Dest, Step(e) PROVE Side(d)' = "new"
    <3>1. tampered' = tampered /\ kind' = kind /\ d \in Undisturbed /\ d \in Dest
      BY <2>2, StepFrame DEF Undisturbed, Planned
    <3>2. Shape(d) /\ Memory(d)
      BY <3>1, MemoryEachDest DEF JournalInv
    <3>3. CASE e = d
      BY <2>2, <3>1, <3>2, <3>3, StepKeepsNew
    <3>4. CASE e # d
      BY <2>2, <3>1, <3>4, StepElsewhere DEF Side
    <3> QED BY <3>3, <3>4
  <2>3. ASSUME NEW e \in Dest, NEW c \in Content, Tamper(e, c) PROVE Side(d)' = "new"
    <3>1. kind' = kind /\ tampered' = tampered \union {e} /\ live' = [live EXCEPT ![e] = c]
      BY <2>3 DEF Tamper, plan
    <3>2. live'[d] = live[d]
      BY <3>1 DEF TypeOK, Planned
    <3> QED BY <3>1, <3>2 DEF Side
  <2> QED
    BY <2>1, <2>2, <2>3 DEF Next, Begin, Settle, MarkDone, Recover, StepFails, Stop, Ends,
       plan, disk
<1> QED BY <1>1, TypeCorrect, InvariantHolds, PTL DEF Spec, CrossedStays

\* A destination is on its new side exactly when the live path shows it.
LEMMA NewSideIsLive ==
    ASSUME "adoptcreate" \notin Kinds, TypeOK, NEW d \in Undisturbed, kind[d] # "retire"
    PROVE  Side(d) = "new" <=> live[d] = "new"
<1>1. kind[d] \in {"exchange", "adopt", "create"}
  BY KindType DEF AllKinds, SwitchKinds, AdoptKinds, Undisturbed, Planned, TypeOK, Plans
<1> QED BY <1>1 DEF Side, Swapping

\* When it is a retirement's turn, nothing else is left to do: an apply has
\* its retirements in the last phase, a recover in the last places of the
\* journal, and a backward recover retires nothing.
LEMMA RetirementsTurn ==
    ASSUME "adoptcreate" \notin Kinds, TypeOK, JournalInv,
           NEW d \in Undisturbed, RetireLink(d), NEW e \in Undisturbed, kind[e] # "retire"
    PROVE  live[e] = "new"
<1>1. /\ d \in Dest /\ e \in Dest /\ Memory(d) /\ Memory(e) /\ Shape(e) /\ work[d] = "retire"
      /\ Turn(d) /\ proc \in {"apply", "forward", "backward"}
      /\ kind[d] \in {"exchange", "adopt", "create", "retire"}
      /\ kind[e] \in {"exchange", "adopt", "create"}
  BY KindType, MemoryEachDest DEF RetireLink, Turn, JournalInv, Undisturbed, Planned, TypeOK,
     Plans, AllKinds, SwitchKinds, AdoptKinds
<1>2. proc # "backward"
  BY <1>1 DEF Memory, Backward
<1>3. kind[d] = "retire" /\ d # e
  <2>1. Forward(d) = "retire"
    BY <1>1, <1>2 DEF Memory, Rest
  <2>2. FinishSwap(d) # "retire"
    BY DEF FinishSwap
  <2> QED BY <1>1, <2>1, <2>2 DEF Forward, Swapping
<1>4. Forward(e) # "retire" /\ Rest(e) = Forward(e)
  <2>1. FinishSwap(e) # "retire"
    BY DEF FinishSwap
  <2> QED BY <1>1, <1>2, <2>1 DEF Memory, Forward, Swapping
<1>5. work[e] \in Work /\ work[e] # "retire"
  BY <1>1, <1>4 DEF Rest, TypeOK
<1>6. work[e] = "done"
  <2>1. CASE proc = "apply"
    <3>1. Phase(work[d]) = 5
      BY <1>1 DEF Phase
    <3>2. work[e] # "done" => Phase(work[e]) \in 1..4
      BY <1>5 DEF Work, Phase
    <3> QED BY <1>1, <1>3, <2>1, <3>1, <3>2 DEF Turn
  <2>2. CASE proc = "forward"
    <3>1. Place(d) = 3 /\ Place(e) \in {1, 2}
      BY <1>1, <1>3 DEF Place, AdoptKinds
    <3> QED BY <1>1, <1>3, <2>2, <3>1 DEF Turn
  <2> QED BY <1>1, <1>2, <2>1, <2>2
<1>7. AtNew(e)
  BY <1>1, <1>4, <1>6, ForwardDone DEF Rest
<1> QED BY <1>7 DEF AtNew

\* No link is retired while another destination still shows the old profile.
THEOREM RetirementsComeLast ==
    ASSUME "adoptcreate" \notin Kinds
    PROVE  Spec => []RetiresLast
<1>1. Init => RetiresLast
  BY DEF Init, RetiresLast, Undisturbed, Planned
<1>2. ASSUME TypeOK, TypeOK', JournalInv, RetiresLast, [Next]_vars
      PROVE  RetiresLast'
  <2> SUFFICES ASSUME NEW d \in Undisturbed', NEW e \in Undisturbed',
                      kind'[d] = "retire", live'[d] = "absent", kind'[e] # "retire"
               PROVE  live'[e] = "new"
    BY DEF RetiresLast
  <2>1. CASE UNCHANGED <<kind, live, tampered>>
    BY <1>2, <2>1 DEF RetiresLast, Undisturbed, Planned
  <2>2. ASSUME NEW r \in Dest, Step(r) PROVE live'[e] = "new"
    <3>1. /\ kind' = kind /\ d \in Undisturbed /\ e \in Undisturbed
          /\ d \in Dest /\ e \in Dest /\ d # e
      BY <2>2, StepFrame DEF Undisturbed, Planned
    <3>2. Shape(e) /\ Memory(e) /\ Shape(d) /\ Memory(d)
      BY <1>2, <3>1, MemoryEachDest DEF JournalInv
    <3>3. CASE r = d /\ live[d] # "absent"
      <4>1. RetireLink(d)
        <5>1. proc \in {"apply", "forward"}
          BY <1>2, <2>2, <3>1, <3>2, <3>3, StepFrame DEF TypeOK, Memory, Backward
        <5>2. Rest(d) = "retire"
          BY <1>2, <3>1, <3>2, <3>3, <5>1, StepFrame DEF Memory, Forward, Side, Swapping, Shape, Slots
        <5> QED BY <2>2, <3>3, <5>2 DEF Rest, Step, StageLink, ExchangeAtomic, ExchangeFallback,
                   ParkLive, LookLive, LandNew, CreateLink, DisplaceStaged, DisplaceSwap
      <4>2. live[e] = "new"
        BY <1>2, <3>1, <4>1, RetirementsTurn
      <4> QED BY <1>2, <2>2, <3>1, <3>3, <4>2, StepElsewhere
    <3>4. CASE r # d \/ live[d] = "absent"
      <4>1. live[d] = "absent"
        BY <1>2, <2>2, <3>1, <3>4, StepElsewhere
      <4>2. live[e] = "new"
        BY <1>2, <3>1, <4>1 DEF RetiresLast
      <4>3. CASE r = e
        <5>1. Side(e) = "new"
          BY <1>2, <3>1, <4>2, NewSideIsLive
        <5>2. Side(e)' = "new"
          BY <1>2, <2>2, <3>1, <3>2, <4>3, <5>1, StepKeepsNew
        <5> QED BY <5>2 DEF Side
      <4>4. CASE r # e
        BY <1>2, <2>2, <3>1, <4>2, <4>4, StepElsewhere
      <4> QED BY <4>3, <4>4
    <3> QED BY <3>3, <3>4
  <2>3. ASSUME NEW r \in Dest, NEW c \in Content, Tamper(r, c) PROVE live'[e] = "new"
    <3>1. /\ kind' = kind /\ tampered' = tampered \union {r} /\ live' = [live EXCEPT ![r] = c]
      BY <2>3 DEF Tamper, plan
    <3>2. /\ d \in Undisturbed /\ e \in Undisturbed /\ live'[d] = live[d] /\ live'[e] = live[e]
      BY <1>2, <3>1 DEF Undisturbed, Planned, TypeOK
    <3> QED BY <1>2, <3>1, <3>2 DEF RetiresLast
  <2> QED
    BY <1>2, <2>1, <2>2, <2>3 DEF Next, Begin, Settle, MarkDone, Recover, StepFails, Stop,
       Ends, plan, disk, outside, vars
<1> QED BY <1>1, <1>2, TypeCorrect, InvariantHolds, PTL DEF Spec

\* Destinations are replaced in the order of the journal: nobody begins with
\* one before every earlier one has crossed.
OneByOne ==
    \A d \in Undisturbed, e \in Empty : d < e /\ kind[d] \in Swapping => live[d] = "new"

\* When it is a live path's turn to be parked, the earlier ones have crossed:
\* an apply is in its second phase and past them there, a recover has done with them.
LEMMA ParksInOrder ==
    ASSUME "adoptcreate" \notin Kinds, TypeOK, JournalInv,
           NEW e \in Undisturbed, ParkLive(e),
           NEW d \in Undisturbed, d < e, kind[d] \in Swapping
    PROVE  live[d] = "new"
<1>1. /\ d \in Dest /\ e \in Dest /\ Memory(d) /\ Memory(e) /\ Shape(d) /\ work[e] = "park"
      /\ Turn(e) /\ proc \in {"apply", "forward", "backward"}
      /\ kind[e] \in {"exchange", "adopt", "create", "retire"}
  BY KindType, MemoryEachDest DEF ParkLive, Turn, JournalInv, Undisturbed, Planned, TypeOK,
     Plans, AllKinds, SwitchKinds, AdoptKinds
<1>2. proc # "backward"
  BY <1>1 DEF Memory, Backward
<1>3. kind[e] \in Swapping
  BY <1>1, <1>2 DEF Memory, Rest, Forward, Swapping
<1>4. Rest(d) = FinishSwap(d) /\ work[d] \in Work
  <2>1. Rest(d) = Forward(d) /\ d \in Dest
    BY <1>1, <1>2 DEF Memory, Undisturbed, Planned
  <2>2. Forward(d) = FinishSwap(d)
    BY DEF Forward, Swapping
  <2> QED BY <2>1, <2>2 DEF TypeOK
<1>5. d # e /\ ~(e < d)
  BY <1>1 DEF Dest
<1>6. work[d] \notin {"stage", "exchange", "park", "land", "landing"}
  <2>1. CASE proc = "apply"
    <3>1. Phase(work[e]) = 2
      BY <1>1 DEF Phase
    <3>2. work[d] \in {"stage", "exchange", "park", "land", "landing"}
            => work[d] # "done" /\ Phase(work[d]) \in {1, 2}
      BY DEF Phase
    <3> QED BY <1>1, <1>5, <2>1, <3>1, <3>2 DEF Turn
  <2>2. CASE proc = "forward"
    <3>1. Place(d) = 1 /\ Place(e) = 1
      BY <1>3 DEF Place, AdoptKinds, Swapping
    <3> QED BY <1>1, <1>5, <2>2, <3>1 DEF Turn
  <2> QED BY <1>1, <1>2, <2>1, <2>2
<1>7. FinishSwap(d) \notin {"stage", "exchange", "park", "land"}
  BY <1>4, <1>6 DEF Rest
<1> QED BY <1>1, <1>7 DEF FinishSwap, Shape, Slots, SwapStages

\* OneByOne holds of every behaviour.
LEMMA ReplacedInOrder ==
    ASSUME "adoptcreate" \notin Kinds
    PROVE  Spec => []OneByOne
<1>1. Init => OneByOne
  BY DEF Init, OneByOne, Empty, Undisturbed, Planned, Swapping
<1>2. ASSUME TypeOK, TypeOK', JournalInv, OneByOne, [Next]_vars
      PROVE  OneByOne'
  <2> SUFFICES ASSUME NEW d \in Undisturbed', NEW e \in Undisturbed',
                      kind'[e] \in Swapping, live'[e] = "absent",
                      d < e, kind'[d] \in Swapping
               PROVE  live'[d] = "new"
    BY DEF OneByOne, Empty
  <2>1. CASE UNCHANGED <<kind, live, tampered>>
    BY <1>2, <2>1 DEF OneByOne, Empty, Undisturbed, Planned
  <2>2. ASSUME NEW r \in Dest, Step(r) PROVE live'[d] = "new"
    <3>1. /\ kind' = kind /\ d \in Undisturbed /\ e \in Undisturbed
          /\ d \in Dest /\ e \in Dest
      BY <2>2, StepFrame DEF Undisturbed, Planned
    <3>2. d # e
      BY <3>1 DEF Dest
    <3>3. Shape(e) /\ Memory(e) /\ Shape(d) /\ Memory(d)
      BY <1>2, <3>1, MemoryEachDest DEF JournalInv
    <3>4. CASE r = e /\ live[e] # "absent"
      <4>2. ParkLive(e)
        <5>1. ~RetireLink(e)
          <6>1. proc \in {"apply", "forward", "backward"}
            BY <1>2, <2>2, StepFrame DEF TypeOK
          <6>2. FinishSwap(e) # "retire" /\ Backward(e) # "retire"
            BY DEF FinishSwap, Backward
          <6> QED BY <3>1, <3>3, <6>1, <6>2 DEF RetireLink, Memory, Rest, Forward, Swapping
        <5>2. ~ExchangeAtomic(e) /\ ~LandNew(e) /\ ~CreateLink(e)
          BY <1>2, <3>1 DEF ExchangeAtomic, LandNew, CreateLink, TypeOK
        <5>3. ~StageLink(e) /\ ~ExchangeFallback(e) /\ ~LookLive(e) /\ ~DisplaceStaged(e)
              /\ ~DisplaceSwap(e)
          BY <3>4 DEF StageLink, ExchangeFallback, LookLive, DisplaceStaged, DisplaceSwap, disk
        <5> QED BY <2>2, <3>4, <5>1, <5>2, <5>3 DEF Step
      <4>3. live[d] = "new"
        BY <1>2, <3>1, <4>2, ParksInOrder
      <4> QED BY <1>2, <2>2, <3>1, <3>2, <3>4, <4>3, StepElsewhere
    <3>5. CASE r # e \/ live[e] = "absent"
      <4>1. live[e] = "absent"
        BY <1>2, <2>2, <3>1, <3>5, StepElsewhere
      <4>2. live[d] = "new"
        BY <1>2, <3>1, <4>1 DEF OneByOne, Empty
      <4>3. CASE r = d
        <5>1. kind[d] # "retire" /\ Side(d) = "new"
          BY <1>2, <3>1, <4>2, NewSideIsLive DEF Swapping
        <5>2. Side(d)' = "new"
          BY <1>2, <2>2, <3>1, <3>3, <4>3, <5>1, StepKeepsNew
        <5> QED BY <3>1, <5>1, <5>2 DEF Side
      <4>4. CASE r # d
        BY <1>2, <2>2, <3>1, <4>2, <4>4, StepElsewhere
      <4> QED BY <4>3, <4>4
    <3> QED BY <3>4, <3>5
  <2>3. ASSUME NEW r \in Dest, NEW c \in Content, Tamper(r, c) PROVE live'[d] = "new"
    <3>1. /\ kind' = kind /\ tampered' = tampered \union {r} /\ live' = [live EXCEPT ![r] = c]
      BY <2>3 DEF Tamper, plan
    <3>2. /\ d \in Undisturbed /\ e \in Undisturbed /\ live'[d] = live[d] /\ live'[e] = live[e]
      BY <1>2, <3>1 DEF Undisturbed, Planned, TypeOK
    <3> QED BY <1>2, <3>1, <3>2 DEF OneByOne, Empty
  <2> QED
    BY <1>2, <2>1, <2>2, <2>3 DEF Next, Begin, Settle, MarkDone, Recover, StepFails, Stop,
       Ends, plan, disk, outside, vars
<1> QED BY <1>1, <1>2, TypeCorrect, InvariantHolds, PTL DEF Spec

\* Of the live paths that are being replaced none is ever empty under an atomic
\* exchange and at most one in the fallback, dead or alive, in every recover.
THEOREM NeverTwoEmpty ==
    ASSUME "adoptcreate" \notin Kinds
    PROVE  Spec => []OneEmptyAtMost
<1>1. TypeOK /\ JournalInv /\ OneByOne => OneEmptyAtMost
  <2> SUFFICES ASSUME TypeOK, JournalInv, OneByOne PROVE OneEmptyAtMost
    OBVIOUS
  <2>1. mode = "renameat2" => Empty = {}
    BY DEF JournalInv, Empty, Shape, Slots, SwapStages
  <2>2. ASSUME NEW d \in Empty, NEW e \in Empty PROVE d = e
    <3>1. d \in Undisturbed /\ e \in Undisturbed /\ d \in Int /\ e \in Int
      BY DEF Empty, Undisturbed, Planned, Dest
    <3>2. ~(d < e) /\ ~(e < d)
      BY <3>1 DEF OneByOne, Empty
    <3> QED BY <3>1, <3>2
  <2> QED BY <2>1, <2>2 DEF OneEmptyAtMost
<1> QED BY <1>1, TypeCorrect, InvariantHolds, ReplacedInOrder, PTL

-----------------------------------------------------------------------------
(***************************************************************************)
(* The journalled operation is an atomic switch, as long as nobody but     *)
(* ricepilot touches the live paths: step by step, whatever dies when.     *)
(* That it ends is the fairness part of ImplementsAtomicSwitch and is left *)
(* to the run.                                                             *)
(***************************************************************************)

\* The atomic switch, its fairness aside.
AtomicSafety == Atomic!Init /\ [][Atomic!Next]_(Atomic!vars)

\* The first state is one of the atomic switch.
LEMMA AtomicInit ==
    ASSUME Init
    PROVE  Atomic!Init
<1>1. kind \in [Dest -> AllKinds] /\ Planned # {} /\ Planned \subseteq Dest
  BY KindsAssumption DEF Init, Plans, AllKinds, Planned
<1>2. \A d \in Planned : Side(d) # "new"
  BY <1>1 DEF Init, Side, Planned, AllKinds, SwitchKinds, AdoptKinds, Swapping
<1>3. AbstractSide = [d \in Dest |-> "old"]
  BY <1>2 DEF AbstractSide, Planned
<1>4. records = "old" /\ AbstractOutcome = "planned"
  BY DEF Init, AbstractOutcome
<1> QED BY <1>1, <1>3, <1>4 DEF Atomic!Init

\* What nobody does to the disk or to the records, the atomic switch does not
\* see.
LEMMA AtomicStutter ==
    ASSUME UNCHANGED <<kind, live, records, journal>>
    PROVE  UNCHANGED Atomic!vars
<1>1. Planned' = Planned /\ AbstractSide' = AbstractSide /\ AbstractOutcome' = AbstractOutcome
  BY DEF Planned, AbstractSide, AbstractOutcome, Side
<1> QED BY <1>1 DEF Atomic!vars

\* A rename leaves its destination where it is or takes it across.
LEMMA AtomicRename ==
    ASSUME "adoptcreate" \notin Kinds, TypeOK, TypeOK', JournalInv, UnplannedIdle,
           tampered = {}, NEW d \in Dest, Step(d)
    PROVE  Atomic!Cross(d) \/ UNCHANGED Atomic!vars
<1>1. /\ UNCHANGED <<kind, journal, records>> /\ proc # "idle" /\ work[d] # "done"
      /\ journal = "current"
  BY StepFrame DEF JournalInv
<1>2. d \in Planned /\ d \in Undisturbed /\ Shape(d) /\ Memory(d)
  BY <1>1, MemoryEachDest DEF UnplannedIdle, Undisturbed, JournalInv
<1>3. Side(d) = "new" => Side(d)' = "new"
  BY <1>2, StepKeepsNew
<1>4. \A e \in Dest \ {d} : AbstractSide'[e] = AbstractSide[e]
  BY <1>1, StepElsewhere DEF AbstractSide, Side
<1>5. /\ Planned' = Planned /\ AbstractOutcome' = AbstractOutcome /\ AbstractOutcome = "open"
  BY <1>1 DEF Planned, AbstractOutcome
<1>6. AbstractSide \in [Dest -> {"old", "new"}] /\ AbstractSide' \in [Dest -> {"old", "new"}]
  BY DEF AbstractSide
<1>7. AbstractSide[d] = "new" => AbstractSide'[d] = "new"
  BY <1>1, <1>2, <1>3 DEF AbstractSide
<1>8. CASE AbstractSide[d] = AbstractSide'[d]
  <2>1. AbstractSide' = AbstractSide
    BY <1>4, <1>6, <1>8
  <2> QED BY <1>1, <1>5, <2>1 DEF Atomic!vars
<1>9. CASE AbstractSide[d] # AbstractSide'[d]
  <2>1. AbstractSide[d] = "old" /\ AbstractSide' = [AbstractSide EXCEPT ![d] = "new"]
    BY <1>4, <1>6, <1>7, <1>9
  <2> QED BY <1>1, <1>2, <1>5, <2>1 DEF Atomic!Cross
<1> QED BY <1>8, <1>9

\* The records are written when every destination has crossed.
LEMMA AtomicRecord ==
    ASSUME "adoptcreate" \notin Kinds, TypeOK, JournalInv, tampered = {}, Settle
    PROVE  Atomic!Record
<1>1. /\ UNCHANGED <<kind, live, journal>> /\ proc \in {"apply", "forward"} /\ work = Idle
      /\ records = "old" /\ records' = "new" /\ journal = "current"
  BY DEF Settle, plan, disk, JournalInv
<1>2. ASSUME NEW d \in Planned PROVE AbstractSide[d] = "new"
  <2>1. d \in Undisturbed /\ d \in Dest /\ kind[d] # "none" /\ Shape(d) /\ Memory(d)
    BY MemoryEachDest DEF Undisturbed, Planned, JournalInv
  <2>2. Forward(d) = "done"
    BY <1>1, <2>1 DEF Memory, Rest, Idle
  <2>3. Side(d) = "new"
    BY <2>1, <2>2, ForwardDone, NewIsNotOld
  <2> QED BY <2>1, <2>3 DEF AbstractSide
<1>3. Planned' = Planned /\ AbstractSide' = AbstractSide
  BY <1>1 DEF Planned, AbstractSide, Side
<1>4. AbstractOutcome = "open" /\ AbstractOutcome' = "open"
  BY <1>1 DEF AbstractOutcome
<1> QED BY <1>1, <1>2, <1>3, <1>4 DEF Atomic!Record

\* The journal is retired with every destination on the side the records
\* are on.
LEMMA AtomicEnd ==
    ASSUME JournalInv, TypeOK, tampered = {}, MarkDone
    PROVE  Atomic!Switched \/ Atomic!Abandoned
<1>1. /\ UNCHANGED <<kind, live, records>> /\ proc # "idle" /\ journal = "current"
      /\ journal' = "done" /\ (proc = "backward" \/ records = "new")
  BY DEF MarkDone, plan, disk, JournalInv
<1>2. Planned' = Planned /\ AbstractSide' = AbstractSide
  BY <1>1 DEF Planned, AbstractSide, Side
<1>3. AbstractOutcome = "open"
  BY <1>1 DEF AbstractOutcome
<1>4. CASE records = "new"
  <2>1. AbstractOutcome' = "switched"
    BY <1>1, <1>4 DEF AbstractOutcome
  <2> QED BY <1>1, <1>2, <1>3, <1>4, <2>1 DEF Atomic!Switched
<1>5. CASE records # "new"
  <2>1. AbstractOutcome' = "abandoned"
    BY <1>1, <1>5 DEF AbstractOutcome
  <2>2. ASSUME NEW d \in Planned PROVE AbstractSide[d] = "old"
    <3>1. d \in Dest /\ Memory(d)
      BY MemoryEachDest DEF Undisturbed, Planned, JournalInv
    <3> QED BY <1>1, <1>5, <3>1 DEF Memory, AbstractSide
  <2> QED BY <1>1, <1>2, <1>3, <2>1, <2>2 DEF Atomic!Abandoned
<1> QED BY <1>4, <1>5

\* Every step of a journalled operation is a step of the atomic switch, or
\* one it does not see.
THEOREM IsAtomicSwitch ==
    ASSUME "adoptcreate" \notin Kinds, MaxTampers = 0
    PROVE  Spec => AtomicSafety
<1> DEFINE Alone == tampered = {}
<1>1. Init => Atomic!Init /\ Alone
  BY AtomicInit DEF Init
<1>2. TypeOK /\ Alone /\ [Next]_vars => Alone'
  <2> SUFFICES ASSUME TypeOK, Alone, [Next]_vars PROVE tampered' = {}
    OBVIOUS
  <2>1. ASSUME NEW d \in Dest, Step(d) PROVE tampered' = tampered
    BY <2>1, StepFrame
  <2>2. \A d \in Dest, c \in Content : ~Tamper(d, c)
    BY DEF Tamper, TypeOK
  <2> QED
    BY <2>1, <2>2 DEF Next, Begin, Settle, MarkDone, Recover, StepFails, Stop, Ends, outside, vars
<1>3. ASSUME TypeOK, TypeOK', JournalInv, UnplannedIdle, Alone, [Next]_vars
      PROVE  [Atomic!Next]_(Atomic!vars)
  <2>1. CASE Begin
    <3>1. UNCHANGED <<kind, live, records>> /\ journal = "none" /\ journal' = "current"
      BY <2>1 DEF Begin, plan, disk
    <3>2. Planned' = Planned /\ AbstractSide' = AbstractSide
      BY <3>1 DEF Planned, AbstractSide, Side
    <3>3. AbstractOutcome = "planned" /\ AbstractOutcome' = "open"
      BY <3>1 DEF AbstractOutcome
    <3> QED BY <3>1, <3>2, <3>3 DEF Atomic!Next, Atomic!Begin
  <2>2. ASSUME NEW d \in Dest, Step(d) PROVE [Atomic!Next]_(Atomic!vars)
    BY <1>3, <2>2, AtomicRename DEF Atomic!Next
  <2>3. CASE Settle
    BY <1>3, <2>3, AtomicRecord DEF Atomic!Next
  <2>4. CASE MarkDone
    BY <1>3, <2>4, AtomicEnd DEF Atomic!Next
  <2>5. CASE UNCHANGED <<kind, live, records, journal>>
    BY <2>5, AtomicStutter
  <2>6. \A d \in Dest, c \in Content : ~Tamper(d, c)
    BY <1>3 DEF Tamper, TypeOK
  <2> QED
    BY <1>3, <2>1, <2>2, <2>3, <2>4, <2>5, <2>6 DEF Next, Recover, StepFails, Stop, Ends, plan,
       disk, vars
<1> QED
  BY <1>1, <1>2, <1>3, TypeCorrect, InvariantHolds, UnplannedStaysIdle, PTL DEF Spec, AtomicSafety

-----------------------------------------------------------------------------
(***************************************************************************)
(* Nothing is lost.  This one holds of every kind, the adopt of an absent  *)
(* path included, and of tampered destinations too: it rests on the        *)
(* renames themselves, none of which replaces anything as long as nobody   *)
(* is between the look and the rename of the fallback's last step.         *)
(***************************************************************************)

\* Nothing is not an object, and a live path that was found free still is.
Kept ==
    /\ NothingLost
    /\ \A d \in Dest : "absent" \notin safe[d]
    /\ \A d \in Dest : work[d] = "landing" => live[d] = "absent"

\* Kept is inductive.
THEOREM NothingIsLost ==
    ASSUME Races = FALSE
    PROVE  Spec => []NothingLost
<1>1. Init => Kept
  BY DEF Init, Kept, NothingLost, Idle
<1>2. TypeOK /\ Kept /\ [Next]_vars => Kept'
  <2> SUFFICES ASSUME TypeOK, Kept, [Next]_vars PROVE Kept'
    OBVIOUS
  <2>1. ASSUME NEW d \in Dest, Step(d) PROVE Kept'
    <3>1. safe' = safe
      BY <2>1 DEF Step, StageLink, ExchangeAtomic, ExchangeFallback, ParkLive, LookLive, LandNew,
         CreateLink, DisplaceStaged, DisplaceSwap, RetireLink, outside
    <3>2. {live[d], staged[d], swap[d]} \union attic[d]
          \subseteq {live'[d], staged'[d], swap'[d]} \union attic'[d] \union {"absent"}
      BY <2>1 DEF TypeOK, Kept, Step, StageLink, ExchangeAtomic, ExchangeFallback, ParkLive,
         LookLive, LandNew, CreateLink, DisplaceStaged, DisplaceSwap, RetireLink, disk, plan,
         outside
    <3>3. work'[d] = "landing" => live'[d] = "absent"
      BY <2>1 DEF TypeOK, Step, StageLink, ExchangeAtomic, ExchangeFallback, ParkLive,
         LookLive, LandNew, CreateLink, DisplaceStaged, DisplaceSwap, RetireLink, disk, Then
    <3>4. ASSUME NEW e \in Dest \ {d}
          PROVE  /\ safe'[e] \subseteq {live'[e], staged'[e], swap'[e]} \union attic'[e]
                 /\ work'[e] = "landing" => live'[e] = "absent"
      BY <2>1, <3>1, StepElsewhere DEF Kept, NothingLost
    <3> QED BY <3>1, <3>2, <3>3, <3>4 DEF Kept, NothingLost
  <2>2. ASSUME NEW d \in Dest, NEW c \in Content, Tamper(d, c) PROVE Kept'
    BY <2>2 DEF Tamper, Kept, NothingLost, TypeOK
  <2>3. CASE UNCHANGED <<disk, safe>> /\ (UNCHANGED work \/ work' = Idle)
    BY <2>3 DEF disk, Kept, NothingLost, Idle
  <2>4. CASE Begin \/ Recover
    <3>1. UNCHANGED <<live, staged, swap, attic, safe>>
      BY <2>4 DEF Begin, Recover, disk, outside
    <3>2. \A d \in Dest : work'[d] # "landing"
      BY <2>4, NothingStartsLanding DEF Begin, Recover
    <3> QED BY <3>1, <3>2 DEF Kept, NothingLost
  <2> QED
    BY <2>1, <2>2, <2>3, <2>4 DEF Next, Settle, MarkDone, StepFails, Stop, Ends,
       disk, outside, vars
<1>3. Kept => NothingLost
  BY DEF Kept
<1> QED BY <1>1, <1>2, <1>3, TypeCorrect, PTL DEF Spec
=============================================================================
