------------------------------- MODULE Journal -------------------------------
(***************************************************************************)
(* One journalled operation of ricepilot - a switch, a rollback or an      *)
(* adopt - from the journal's first fsync to its retirement, with the      *)
(* process dying between any two of its renames, `recover` picking it up   *)
(* from what the disk shows, and other programs changing the live paths    *)
(* meanwhile.                                                              *)
(*                                                                         *)
(* Source: src/src/journal.rs (record and recovery), src/src/ops/mutate.rs *)
(* (the renames), src/src/plan.rs (the order of the ops), and the ends of  *)
(* switch::run_with and adopt::run_with.                                   *)
(*                                                                         *)
(* A destination has three names: the live path, the staging name beside   *)
(* it (`<dest>.rp-tmp-n`) and the scratch name of the fallback exchange    *)
(* (`<staged>.rp-swap`).  Each holds nothing, the object of before, the    *)
(* new link, or something neither is.                                      *)
(***************************************************************************)
EXTENDS Integers

CONSTANTS
    N,              \* destinations, numbered in the journal's order
    Kinds,          \* the kinds of change the plans of this model contain
    MaxStops,       \* bound: how often the process may die
    MaxTampers,     \* bound: how often another program changes a live path
    Races           \* whether one may do so between a look at a live path and
                    \* the rename that relies on it

Dest == 1..N

(***************************************************************************)
(* What the plan does to one destination.                                  *)
(*   exchange     an owned link is re-pointed (plan.rs, row 1)             *)
(*   create       nothing is there; the link is created (row 5)            *)
(*   retire       an owned link goes to the attic, nothing replaces it     *)
(*   adopt        a real directory is replaced by the link                 *)
(*   adoptcreate  `adopt` of a path where nothing is: the journal still    *)
(*                holds an Adopt record, with directory identity (0, 0)    *)
(***************************************************************************)
SwitchKinds == {"exchange", "create", "retire"}
AdoptKinds == {"adopt", "adoptcreate"}

ASSUME NAssumption == N \in Nat \ {0}
ASSUME KindsAssumption == Kinds \subseteq SwitchKinds \union AdoptKinds
ASSUME BoundsAssumption == MaxStops \in Nat /\ MaxTampers \in Nat /\ Races \in BOOLEAN

\* The kinds that swap the live path with a staged link.
Swapping == {"exchange", "adopt"}

\* The kinds whose live path holds an object before.
Displacing == {"exchange", "adopt", "retire"}

Content == {"absent", "old", "new", "other"}

Modes == {"renameat2", "fallback"}

(***************************************************************************)
(* The next thing a process does to one destination.  An exchange is one   *)
(* renameat2, or the three renames of the fallback: "exchange" (staged to  *)
(* scratch), "park" (live to staged), "land" (scratch to live).  The last  *)
(* is the one whose new name other programs use: it is looked at first,    *)
(* and is "landing" once it was found free.                                *)
(***************************************************************************)
Work == {"stage", "exchange", "park", "land", "landing", "create", "displace",
         "displaceswap", "displaceboth", "retire", "done"}

VARIABLES
    kind,       \* the journal's record: what is done to each destination
    mode,       \* the journal's exchange_mode
    live,       \* what is at the destination
    staged,     \* what is at its staging name
    swap,       \* what is at its scratch name
    attic,      \* what of it is in the attic
    journal,    \* none, current (journal/current.toml), done (done-<id>.toml)
    proc,       \* what the running ricepilot is doing, "idle" when none runs
    work,       \* what that process still has to do, in its memory
    records,    \* generation, ledger, rescue.sh: of before or of after
    stops,      \* how often the process died so far
    tampered,   \* destinations another program has changed
    tampers,    \* how often that happened
    safe        \* history: objects no other program has removed

vars == <<kind, mode, live, staged, swap, attic, journal, proc, work, records,
          stops, tampered, tampers, safe>>

disk == <<live, staged, swap, attic>>
plan == <<kind, mode>>
outside == <<tampered, tampers, safe>>

Planned == {d \in Dest : kind[d] # "none"}
Undisturbed == Planned \ tampered

\* A journal holds the entries and retirements of a switch, or one adopt.
Plans ==
    {k \in [Dest -> Kinds \union {"none"}] :
        /\ \E d \in Dest : k[d] # "none"
        /\ \A d \in Dest : k[d] \in AdoptKinds =>
                             \A e \in Dest \ {d} : k[e] = "none"}

TypeOK ==
    /\ kind \in Plans
    /\ mode \in Modes
    /\ live \in [Dest -> Content]
    /\ staged \in [Dest -> Content]
    /\ swap \in [Dest -> Content]
    /\ attic \in [Dest -> SUBSET Content]
    /\ journal \in {"none", "current", "done"}
    /\ proc \in {"idle", "apply", "forward", "backward"}
    /\ work \in [Dest -> Work]
    /\ records \in {"old", "new"}
    /\ stops \in 0..MaxStops
    /\ tampered \in SUBSET Dest
    /\ tampers \in 0..MaxTampers
    /\ safe \in [Dest -> SUBSET Content]

Nothing == [d \in Dest |-> "absent"]
Idle == [d \in Dest |-> "done"]

\* Mutant: a plan with nothing to do is journalled all the same.
InitOfNothing ==
    /\ kind = [d \in Dest |-> "none"]
    /\ mode \in Modes
    /\ live = Nothing
    /\ staged = Nothing
    /\ swap = Nothing
    /\ attic = [d \in Dest |-> {}]
    /\ journal = "none"
    /\ proc = "idle"
    /\ work = Idle
    /\ records = "old"
    /\ stops = 0
    /\ tampered = {}
    /\ tampers = 0
    /\ safe = [d \in Dest |-> {}]

Init ==
    /\ kind \in Plans
    /\ mode \in Modes
    /\ live = [d \in Dest |-> IF kind[d] \in {"create", "adoptcreate"}
                              THEN "absent" ELSE "old"]
    /\ staged = Nothing
    /\ swap = Nothing
    /\ attic = [d \in Dest |-> {}]
    /\ journal = "none"
    /\ proc = "idle"
    /\ work = Idle
    /\ records = "old"
    /\ stops = 0
    /\ tampered = {}
    /\ tampers = 0
    /\ safe = [d \in Dest |-> IF live[d] = "old" THEN {"old"} ELSE {}]

(***************************************************************************)
(* Recovery's reading of the disk                                          *)
(***************************************************************************)

\* side_of, retire_side and adopt_side: which side of the operation the live
\* path is on.  An adopt takes any absent path for the fallback's window.
Side(d) ==
    CASE kind[d] \in Swapping /\ live[d] = "old"         -> "old"
      [] kind[d] \in Swapping /\ live[d] = "absent"      -> "inflight"
      [] kind[d] = "create" /\ live[d] = "absent"        -> "old"
      [] kind[d] = "adoptcreate" /\ live[d] = "absent"   -> "inflight"
      [] kind[d] = "retire" /\ live[d] = "old"           -> "old"
      [] kind[d] = "retire" /\ live[d] = "absent"        -> "new"
      [] kind[d] # "retire" /\ live[d] = "new"           -> "new"
      [] OTHER                                           -> "foreign"

Slots(d) == <<live[d], staged[d], swap[d]>>

\* What is left of an exchange or an adopt that is driven forward.  The two
\* differ in one arm: an Entry that is already new tolerates anything at its
\* other names, an Adopt accepts only the two combinations it knows.
FinishSwap(d) ==
    CASE Slots(d) = <<"old", "absent", "absent">> -> "stage"
      [] Slots(d) = <<"old", "new", "absent">>    -> "exchange"
      [] Slots(d) = <<"old", "absent", "new">>    -> "park"
      [] Slots(d) = <<"absent", "old", "new">>    -> "land"
      [] Slots(d) = <<"new", "old", "absent">>    -> "displace"
      [] Slots(d) = <<"new", "absent", "absent">> -> "done"
      [] kind[d] = "exchange" /\ live[d] = "new"  ->
            IF staged[d] = "old"
            THEN IF swap[d] = "old" THEN "displaceboth" ELSE "displace"
            ELSE IF swap[d] = "old" THEN "displaceswap" ELSE "done"
      [] OTHER                                    -> "unexpected"

\* actions_for and actions_for_adopt, Direction::Forward; plan_recovery's
\* loop over the retirements.
Forward(d) ==
    CASE kind[d] \in Swapping -> FinishSwap(d)
      [] kind[d] = "create"   ->
            IF live[d] = "absent" THEN "create"
            ELSE IF live[d] = "new" THEN "done" ELSE "unexpected"
      [] kind[d] = "adoptcreate" ->
            IF Slots(d) = <<"new", "absent", "absent">> THEN "done" ELSE "unexpected"
      [] kind[d] = "retire"   -> IF Side(d) = "old" THEN "retire" ELSE "done"
      [] kind[d] = "none"     -> "done"

\* The same, Direction::Backward: only a staged link is moved, to the attic.
Backward(d) ==
    CASE kind[d] = "exchange" /\ live[d] \in {"old", "absent"} ->
            IF staged[d] = "new"
            THEN IF swap[d] = "new" THEN "displaceboth" ELSE "displace"
            ELSE IF swap[d] = "new" THEN "displaceswap" ELSE "done"
      [] kind[d] = "adopt" /\ Slots(d) = <<"old", "absent", "absent">> -> "done"
      [] kind[d] = "adopt" /\ Slots(d) = <<"old", "new", "absent">> -> "displace"
      [] kind[d] = "adopt" /\ Slots(d) = <<"old", "absent", "new">> -> "displaceswap"
      [] kind[d] = "create" /\ live[d] = "absent" -> "done"
      [] kind[d] \in {"retire", "none"} -> "done"
      [] OTHER -> "unexpected"

\* Mutant: forward only when every destination has crossed.
DirectionWaitsForAll ==
    IF \A d \in Planned : Side(d) = "new" THEN "forward" ELSE "backward"

\* Mutant: the fallback's window is taken for the old side.
DirectionMissesWindow ==
    IF \E d \in Planned : Side(d) = "new" THEN "forward" ELSE "backward"

\* Forward as soon as one destination is new or in flight.
Direction ==
    IF \E d \in Planned : Side(d) \in {"new", "inflight"}
    THEN "forward" ELSE "backward"

\* Mutant: whatever the staging name holds is taken for a link to exchange.
DecisionTakesAnyStaged(d) ==
    IF staged[d] # "absent" THEN "exchange"
    ELSE IF Direction = "forward" THEN Forward(d) ELSE Backward(d)

Decision(d) == IF Direction = "forward" THEN Forward(d) ELSE Backward(d)

\* plan_recovery returns an error: recover changes nothing and says so.
Refuses ==
    \E d \in Planned : Side(d) = "foreign" \/ Decision(d) = "unexpected"

(***************************************************************************)
(* The order of the work                                                   *)
(***************************************************************************)

\* Mutant: the fallback parks every live path before it lands a new one.
PhaseOfPasses(w) ==
    CASE w = "stage" -> 1
      [] w \in {"exchange", "park"} -> 2
      [] w \in {"land", "landing"} -> 3
      [] w = "create" -> 4
      [] w \in {"displace", "displaceswap", "displaceboth"} -> 5
      [] w = "retire" -> 6
      [] w = "done" -> 7

\* plan() collects its ops per phase: all the staging, then the exchanges,
\* the creations, and last what goes to the attic, retirements at the end.
Phase(w) ==
    CASE w = "stage" -> 1
      [] w \in {"exchange", "park", "land", "landing"} -> 2
      [] w = "create" -> 3
      [] w \in {"displace", "displaceswap", "displaceboth"} -> 4
      [] w = "retire" -> 5
      [] w = "done" -> 6

\* Mutant: recover goes through the retirements first.
PlaceRetirementsFirst(d) == IF kind[d] = "retire" THEN 0 ELSE 1

\* The journal's entries are the exchanges, then the creations; its
\* retirements come after them, and recover goes through it in that order.
Place(d) ==
    CASE kind[d] \in {"exchange"} \union AdoptKinds -> 1
      [] kind[d] = "create" -> 2
      [] kind[d] = "retire" -> 3
      [] kind[d] = "none" -> 4

\* d's next action is the next one of the running process.
Turn(d) ==
    /\ proc # "idle"
    /\ work[d] # "done"
    /\ \A e \in Dest \ {d} : work[e] # "done" =>
          IF proc = "apply"
          THEN \/ Phase(work[d]) < Phase(work[e])
               \/ Phase(work[d]) = Phase(work[e]) /\ d < e
          ELSE \/ Place(d) < Place(e)
               \/ Place(d) = Place(e) /\ d < e

(***************************************************************************)
(* The operation: the journal is written, then the plan is applied         *)
(***************************************************************************)

\* Where apply starts with each destination.
Ops == [d \in Dest |->
          CASE kind[d] \in Swapping -> "stage"
            [] kind[d] \in {"create", "adoptcreate"} -> "create"
            [] kind[d] = "retire" -> "retire"
            [] kind[d] = "none" -> "done"]

\* journal::write, the last thing before the first effect on a live path.
\* Dying before it leaves nothing to recover.
Begin ==
    /\ journal = "none"
    /\ journal' = "current"
    /\ proc' = "apply"
    /\ work' = Ops
    /\ UNCHANGED <<plan, disk, records, stops, outside>>

Then(d, w) == work' = [work EXCEPT ![d] = w]

\* create_symlink_tmp: EEXIST when the staging name is taken.
StageLink(d) ==
    /\ Turn(d) /\ work[d] = "stage"
    /\ staged[d] = "absent"
    /\ staged' = [staged EXCEPT ![d] = "new"]
    /\ Then(d, "exchange")
    /\ UNCHANGED <<plan, live, swap, attic, journal, proc, records, stops, outside>>

\* exchange_atomic: ENOENT unless both names exist.
ExchangeAtomic(d) ==
    /\ Turn(d) /\ work[d] = "exchange" /\ mode = "renameat2"
    /\ live[d] # "absent" /\ staged[d] # "absent"
    /\ live' = [live EXCEPT ![d] = staged[d]]
    /\ staged' = [staged EXCEPT ![d] = live[d]]
    /\ Then(d, "displace")
    /\ UNCHANGED <<plan, swap, attic, journal, proc, records, stops, outside>>

\* exchange_fallback, first rename; rename_within replaces nothing.
ExchangeFallback(d) ==
    /\ Turn(d) /\ work[d] = "exchange" /\ mode = "fallback"
    /\ staged[d] # "absent" /\ swap[d] = "absent"
    /\ swap' = [swap EXCEPT ![d] = staged[d]]
    /\ staged' = [staged EXCEPT ![d] = "absent"]
    /\ Then(d, "park")
    /\ UNCHANGED <<plan, live, attic, journal, proc, records, stops, outside>>

\* Second rename: from here until the third nothing is at the live path.
ParkLive(d) ==
    /\ Turn(d) /\ work[d] = "park"
    /\ live[d] # "absent" /\ staged[d] = "absent"
    /\ staged' = [staged EXCEPT ![d] = live[d]]
    /\ live' = [live EXCEPT ![d] = "absent"]
    /\ Then(d, "land")
    /\ UNCHANGED <<plan, swap, attic, journal, proc, records, stops, outside>>

\* Mutant: the live path is not looked at.
LookAtNothing(d) ==
    /\ Turn(d) /\ work[d] = "land"
    /\ Then(d, "landing")
    /\ UNCHANGED <<plan, disk, journal, proc, records, stops, outside>>

\* Third rename: rename_within looks whether the live path is free ...
LookLive(d) ==
    /\ Turn(d) /\ work[d] = "land"
    /\ live[d] = "absent"
    /\ Then(d, "landing")
    /\ UNCHANGED <<plan, disk, journal, proc, records, stops, outside>>

\* ... and rename_over renames, replacing what came there since.
LandNew(d) ==
    /\ Turn(d) /\ work[d] = "landing"
    /\ swap[d] # "absent"
    /\ live' = [live EXCEPT ![d] = swap[d]]
    /\ swap' = [swap EXCEPT ![d] = "absent"]
    /\ Then(d, "displace")
    /\ UNCHANGED <<plan, staged, attic, journal, proc, records, stops, outside>>

\* create_symlink at the live path: EEXIST when something is there.
CreateLink(d) ==
    /\ Turn(d) /\ work[d] = "create"
    /\ live[d] = "absent"
    /\ live' = [live EXCEPT ![d] = "new"]
    /\ Then(d, "done")
    /\ UNCHANGED <<plan, staged, swap, attic, journal, proc, records, stops, outside>>

\* rename_to_attic of what the staging name holds, under a free name.
DisplaceStaged(d) ==
    /\ Turn(d) /\ work[d] \in {"displace", "displaceboth"}
    /\ staged[d] # "absent"
    /\ attic' = [attic EXCEPT ![d] = @ \union {staged[d]}]
    /\ staged' = [staged EXCEPT ![d] = "absent"]
    /\ Then(d, IF work[d] = "displaceboth" THEN "displaceswap" ELSE "done")
    /\ UNCHANGED <<plan, live, swap, journal, proc, records, stops, outside>>

\* The same for the scratch name.
DisplaceSwap(d) ==
    /\ Turn(d) /\ work[d] = "displaceswap"
    /\ swap[d] # "absent"
    /\ attic' = [attic EXCEPT ![d] = @ \union {swap[d]}]
    /\ swap' = [swap EXCEPT ![d] = "absent"]
    /\ Then(d, "done")
    /\ UNCHANGED <<plan, live, staged, journal, proc, records, stops, outside>>

\* The same for a live path the new state does not have.
RetireLink(d) ==
    /\ Turn(d) /\ work[d] = "retire"
    /\ live[d] # "absent"
    /\ attic' = [attic EXCEPT ![d] = @ \union {live[d]}]
    /\ live' = [live EXCEPT ![d] = "absent"]
    /\ Then(d, "done")
    /\ UNCHANGED <<plan, staged, swap, journal, proc, records, stops, outside>>

\* Mutant: the records are written before the last rename.
SettleEarly ==
    /\ proc \in {"apply", "forward"}
    /\ records = "old"
    /\ records' = "new"
    /\ UNCHANGED <<plan, disk, journal, proc, work, stops, outside>>

\* Phase C after the renames, and settle_recovered after a forward recovery:
\* generation, ledger, rescue.sh.  Every one of its writes may be done again.
Settle ==
    /\ proc \in {"apply", "forward"}
    /\ work = Idle
    /\ records = "old"
    /\ records' = "new"
    /\ UNCHANGED <<plan, disk, journal, proc, work, stops, outside>>

\* mark_done, the last act of an apply and of a recovery.
MarkDone ==
    /\ proc # "idle"
    /\ work = Idle
    /\ proc = "backward" \/ records = "new"
    /\ journal' = "done"
    /\ proc' = "idle"
    /\ UNCHANGED <<plan, disk, work, records, stops, outside>>

\* Mutant: recover replays the plan without looking at the disk.
RecoverReplays ==
    /\ journal = "current" /\ proc = "idle"
    /\ ~Refuses
    /\ proc' = "forward"
    /\ work' = Ops
    /\ UNCHANGED <<plan, disk, journal, records, stops, outside>>

\* `recover --commit`: under the lock, so no other ricepilot runs.
Recover ==
    /\ journal = "current" /\ proc = "idle"
    /\ ~Refuses
    /\ proc' = Direction
    /\ work' = [d \in Dest |-> Decision(d)]
    /\ UNCHANGED <<plan, disk, journal, records, stops, outside>>

(***************************************************************************)
(* What goes wrong                                                         *)
(***************************************************************************)

\* Can the next system call succeed?
Possible(d) ==
    CASE work[d] = "stage"        -> staged[d] = "absent"
      [] work[d] = "exchange"     -> /\ staged[d] # "absent"
                                     /\ IF mode = "renameat2" THEN live[d] # "absent"
                                        ELSE swap[d] = "absent"
      [] work[d] = "park"         -> live[d] # "absent" /\ staged[d] = "absent"
      [] work[d] = "land"         -> live[d] = "absent"
      [] work[d] = "landing"      -> swap[d] # "absent"
      [] work[d] = "create"       -> live[d] = "absent"
      [] work[d] \in {"displace", "displaceboth"} -> staged[d] # "absent"
      [] work[d] = "displaceswap" -> swap[d] # "absent"
      [] work[d] = "retire"       -> live[d] # "absent"
      [] work[d] = "done"         -> TRUE

\* The process forgets its plan; the journal and the disk stay as they are.
Ends ==
    /\ proc' = "idle"
    /\ work' = Idle
    /\ UNCHANGED <<plan, disk, journal, records, outside>>

\* Mutant: an operation that failed retires its journal on the way out.
StepFailsAndCleans ==
    /\ \E d \in Dest : Turn(d) /\ ~Possible(d)
    /\ journal' = "done"
    /\ proc' = "idle"
    /\ work' = Idle
    /\ UNCHANGED <<plan, disk, records, stops, outside>>

\* An op that cannot be done is an error, and nothing is unwound.
StepFails ==
    /\ \E d \in Dest : Turn(d) /\ ~Possible(d)
    /\ Ends
    /\ UNCHANGED stops

\* Killed, or the machine stops.
Stop ==
    /\ proc # "idle"
    /\ stops < MaxStops
    /\ stops' = stops + 1
    /\ Ends

\* Another program - the user, a rice installer - puts c at a live path, or
\* takes away what is there.  The directory of an adopt is known by its
\* inode, and a path that was absent has no object of before: nobody can
\* put those back.
Tamper(d, c) ==
    /\ journal = "current"
    /\ kind[d] # "none"
    /\ tampers < MaxTampers
    /\ c # live[d]
    /\ Races \/ work[d] # "landing"
    /\ c = "old" => kind[d] \in {"exchange", "retire"}
    /\ c = "new" => kind[d] # "retire"
    /\ live' = [live EXCEPT ![d] = c]
    /\ tampered' = tampered \union {d}
    /\ tampers' = tampers + 1
    /\ safe' = [safe EXCEPT ![d] = (@ \ {live[d]}) \union ({c} \ {"absent", "new"})]
    /\ UNCHANGED <<plan, staged, swap, attic, journal, proc, work, records, stops>>

Step(d) ==
    \/ StageLink(d)
    \/ ExchangeAtomic(d)
    \/ ExchangeFallback(d)
    \/ ParkLive(d)
    \/ LookLive(d)
    \/ LandNew(d)
    \/ CreateLink(d)
    \/ DisplaceStaged(d)
    \/ DisplaceSwap(d)
    \/ RetireLink(d)

Next ==
    \/ Begin
    \/ \E d \in Dest : Step(d)
    \/ Settle
    \/ MarkDone
    \/ Recover
    \/ StepFails
    \/ Stop
    \/ \E d \in Dest, c \in Content : Tamper(d, c)

(***************************************************************************)
(* A running process runs on; a user whose `switch` is refused because a   *)
(* journal is in the way runs `recover`, as the refusal says.  Nothing is  *)
(* assumed of Begin, Stop and Tamper.                                      *)
(***************************************************************************)
Fairness ==
    /\ WF_vars(\E d \in Dest : Step(d))
    /\ WF_vars(Settle)
    /\ WF_vars(MarkDone)
    /\ WF_vars(Recover)

Spec == Init /\ [][Next]_vars /\ Fairness

(***************************************************************************)
(* Properties                                                              *)
(***************************************************************************)

AtNew(d) ==
    /\ live[d] = IF kind[d] = "retire" THEN "absent" ELSE "new"
    /\ staged[d] = "absent" /\ swap[d] = "absent"
    /\ kind[d] \in Displacing => "old" \in attic[d]

AtOld(d) ==
    /\ live[d] = IF kind[d] \in Displacing THEN "old" ELSE "absent"
    /\ staged[d] = "absent" /\ swap[d] = "absent"

\* R5, never mixed: when the journal is retired - by the operation itself or
\* by however many recovers, forward or backward - every destination no other
\* program changed is fully new, its old object in the attic, and the records
\* say so; or every one is fully old and the records are untouched.  No
\* staging name is left behind either way.
AllOrNothing ==
    journal = "done" =>
        \/ records = "new" /\ \A d \in Undisturbed : AtNew(d)
        \/ records = "old" /\ \A d \in Undisturbed : AtOld(d)

\* R2, nothing is lost: whatever ricepilot displaces, half-moves or fails to
\* move - the old link, the adopted directory, or something another program
\* put at the live path at any moment in between - is still at one of the
\* destination's names or in the attic.  It takes a program that is not
\* quicker than a look and a rename (Races = FALSE).
NothingLost ==
    \A d \in Dest : safe[d] \subseteq {live[d], staged[d], swap[d]} \union attic[d]

\* What a process still has to do to d, a look at the live path aside.
Rest(d) == IF work[d] = "landing" THEN "land" ELSE work[d]

\* "Replaying a journal twice is the same as replaying it once" (actions_for):
\* what a running process still has in memory is, at every step, what a
\* recover started at that moment would read off the disk.
MemoryMatchesDisk ==
    \A d \in Undisturbed :
        /\ proc \in {"apply", "forward"} => Rest(d) = Forward(d)
        /\ proc = "backward" => work[d] = Backward(d) /\ Side(d) = "old"

\* On a machine no other program touched, recover never meets a combination
\* it "cannot account for", wherever the process died and however often.
RefusesOnlyOutsiders ==
    journal = "current" /\ proc = "idle" /\ tampered = {} => ~Refuses

\* Nor does any step fail there: no leftover staging name, no occupied
\* scratch name, no missing source of a rename.
FailsOnlyOnOutsiders ==
    tampered = {} => \A d \in Dest : Turn(d) => Possible(d)

\* The destinations that had an object, will have a link, and have nothing.
Empty == {d \in Undisturbed : kind[d] \in Swapping /\ live[d] = "absent"}

\* A login at any moment - between two renames, after a death, in any recover -
\* finds the old profile or the new one at every path that is being replaced;
\* without RENAME_EXCHANGE it may find nothing at one of them, never at two.
OneEmptyAtMost ==
    /\ mode = "renameat2" => Empty = {}
    /\ \A d, e \in Empty : d = e

\* Retirements come after every crossing, in an apply and in every recover: no
\* link is taken away while an undisturbed destination still shows the old
\* profile.
RetiresLast ==
    \A d, e \in Undisturbed :
        /\ kind[d] = "retire" /\ live[d] = "absent"
        /\ kind[e] # "retire"
        => live[e] = "new"

\* A destination that has crossed never goes back: no stop, recover or later
\* change of direction puts the old object at it again.
CrossedStays ==
    [][\A d \in Planned \ tampered' : Side(d) = "new" => Side(d)' = "new"]_vars

(***************************************************************************)
(* The inductive invariant behind the safety properties: what the disk can *)
(* look like at a destination nobody else changed.                         *)
(***************************************************************************)

\* The six stages of an exchange, in order; the two in the middle exist only
\* between the renames of the fallback.
SwapStages == {<<"old", "absent", "absent">>, <<"old", "new", "absent">>,
               <<"old", "absent", "new">>, <<"absent", "old", "new">>,
               <<"new", "old", "absent">>, <<"new", "absent", "absent">>}

Shape(d) ==
    /\ kind[d] \in Swapping =>
          /\ Slots(d) \in SwapStages
          /\ swap[d] = "new" => mode = "fallback"
          /\ Slots(d) = <<"new", "absent", "absent">> => "old" \in attic[d]
    /\ kind[d] \in {"create", "adoptcreate"} =>
          Slots(d) \in {<<"absent", "absent", "absent">>, <<"new", "absent", "absent">>}
    /\ kind[d] = "retire" =>
          /\ Slots(d) \in {<<"old", "absent", "absent">>, <<"absent", "absent", "absent">>}
          /\ live[d] = "absent" => "old" \in attic[d]

\* Every undisturbed destination is in one of the shapes a crash can leave,
\* a process's memory agrees with it, and the journal and the records are
\* where the destinations say.
JournalInv ==
    /\ \A d \in Undisturbed : Shape(d)
    /\ MemoryMatchesDisk
    /\ proc # "idle" => journal = "current"
    /\ journal = "none" => \A d \in Undisturbed : AtOld(d)
    /\ records = "new" => \A d \in Undisturbed : AtNew(d)
    /\ AllOrNothing

(***************************************************************************)
(* The abstract specification: plan, side, records and outcome as a user   *)
(* of the operation sees them.  In the fallback's window a destination     *)
(* still counts as old.                                                    *)
(***************************************************************************)
AbstractSide ==
    [d \in Dest |-> IF kind[d] # "none" /\ Side(d) = "new" THEN "new" ELSE "old"]

AbstractOutcome ==
    CASE journal = "none" -> "planned"
      [] journal = "current" -> "open"
      [] journal = "done" -> IF records = "new" THEN "switched" ELSE "abandoned"

Atomic == INSTANCE AtomicSwitch WITH
              plan <- Planned,
              side <- AbstractSide,
              records <- records,
              outcome <- AbstractOutcome

\* The journalled operation implements the atomic switch, liveness included.
ImplementsAtomicSwitch == Atomic!Spec

=============================================================================
