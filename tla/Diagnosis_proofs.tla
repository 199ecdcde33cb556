--------------------------- MODULE Diagnosis_proofs ---------------------------
(***************************************************************************)
(* Proofs about what doctor and diff say, for any number of operations,    *)
(* deaths and changes by the user and by rescue.sh.  What holds of the     *)
(* operations alone (module Operations_proofs) holds with the other hands  *)
(* of module Diagnosis as well; on top of it, rescue.sh is the one of the  *)
(* generation before, and what doctor and diff report is what the next     *)
(* switch meets.                                                           *)
(*                                                                         *)
(* Source: src/src/doctor.rs, src/src/diff.rs, src/src/rescue.rs.          *)
(***************************************************************************)
EXTENDS Diagnosis, Operations_proofs

-----------------------------------------------------------------------------
(***************************************************************************)
(* diff and doctor foretell the switch                                     *)
(***************************************************************************)

\* diff has a row that is not "same" exactly where the plan has something to
\* do or refuses.
LEMMA DiffIsThePlan ==
    ASSUME TypeOK, NEW a \in Profile
    PROVE  (\A d \in Dest : ~Differs(a, d)) <=> NothingToDo(a)
<1>. DEFINE targets == SwitchTargets(a)
            retire == SwitchRetires(a)
<1>1. /\ claims[a] \subseteq Dest /\ retire = Rows \ claims[a] /\ Rows \subseteq Dest
      /\ DOMAIN targets = claims[a] /\ \A d \in claims[a] : targets[d] = a
  BY DEF TypeOK, SwitchTargets, SwitchRetires, Rows, OwnedDests
<1>2. \A d \in Dest : /\ Shape(d) = "owned" <=> Owns(d)
                      /\ Shape(d) = "absent" => live[d] = Nothing
                      /\ Shape(d) = "absent" => live[d].to # a
  <2> SUFFICES ASSUME NEW d \in Dest
               PROVE  /\ Shape(d) = "owned" <=> Owns(d)
                      /\ Shape(d) = "absent" => live[d] = Nothing
                      /\ Shape(d) = "absent" => live[d].to # a
    OBVIOUS
  <2>1. Owns(d) => Shape(d) = "owned"
    BY TargetTypes DEF Owns, Shape, Target
  <2>2. Nothing.to # a
    BY TargetTypes DEF Target
  <2> QED BY <2>1, <2>2, ShapeMeans
<1> HIDE DEF targets, retire
<1>3. DOMAIN Changes(targets, retire) =
         {d \in DOMAIN targets : live[d].to # targets[d]}
           \union {d \in retire \ DOMAIN targets : Shape(d) = "owned"}
  BY DEF Changes
<1>4. NothingToDo(a) <=> /\ ~Declines(targets, retire)
                         /\ DOMAIN Changes(targets, retire) = {}
  BY DEF NothingToDo, targets, retire
<1>5. Declines(targets, retire) <=>
         \/ \E d \in claims[a] : Shape(d) \notin {"owned", "absent"} \/ d \notin payload[a]
         \/ \E d \in Rows \ claims[a] : Shape(d) \notin {"owned", "absent"}
  BY <1>1 DEF Declines
<1>6. DOMAIN Changes(targets, retire) = {} <=>
         /\ \A d \in claims[a] : live[d].to = a
         /\ \A d \in Rows \ claims[a] : Shape(d) # "owned"
  BY <1>1, <1>3
<1>7. (\A d \in Dest : ~Differs(a, d)) <=>
         /\ \A d \in claims[a] : Owns(d) /\ live[d].to = a /\ d \in payload[a]
         /\ \A d \in Rows \ claims[a] : Shape(d) = "absent"
  BY <1>1 DEF Differs
<1> QED BY <1>1, <1>2, <1>4, <1>5, <1>6, <1>7

\* What makes a switch refuse at a path ricepilot knows has been named.
LEMMA StoppersAreNamed ==
    ASSUME TypeOK, NEW a \in Profile, NEW d \in Stoppers(a),
           d \in Rows \/ d \in claims[a] \ payload[a]
    PROVE  d \in Reported \/ MissingSource(a, d)
<1>1. d \in Dest /\ claims[a] \subseteq Dest
  BY DEF TypeOK, Stoppers, SwitchRetires, Rows, OwnedDests
<1>2. ASSUME d \in Rows, LinkFinding(d) = "intact"
      PROVE  Shape(d) = "owned" /\ d \in payload[ledger[d].to]
  <2>1. /\ live[d].to = ledger[d].to /\ live[d].ino = ledger[d].ino
        /\ live[d].to \in Profile /\ d \in payload[live[d].to]
    BY <1>2, Zenon DEF LinkFinding
  <2>2. ledger[d] \in Row
    BY <1>1, <1>2 DEF TypeOK, Rows, OwnedDests
  <2>3. Owns(d)
    BY <2>1, <2>2 DEF Owns, Row
  <2> QED BY <2>1, <2>3, TargetTypes DEF Shape, Owns, Target
<1>3. CASE d \in Rows /\ Shape(d) \notin {"owned", "absent"}
  BY <1>1, <1>2, <1>3 DEF Reported, Broken
<1>4. CASE d \in claims[a] \ payload[a]
  <2>1. CASE ledger[d].to # a
    BY <1>4, <2>1 DEF MissingSource
  <2>2. CASE ledger[d].to = a
    <3>1. d \in Rows
      BY <1>1, <2>2, TargetTypes DEF Rows, OwnedDests, Target
    <3> QED BY <1>1, <1>2, <1>4, <2>2, <3>1 DEF Reported, Broken
  <2> QED BY <2>1, <2>2
<1>5. \/ Shape(d) \notin {"owned", "absent"}
      \/ d \in claims[a] \ payload[a]
  BY DEF Stoppers
<1> QED BY <1>3, <1>4, <1>5

-----------------------------------------------------------------------------
(***************************************************************************)
(* Other hands and the invariants of the operations                        *)
(***************************************************************************)

\* rescue.sh is of a generation that is there, and of the one before the
\* current one except while an operation that has saved its own generation
\* has yet to write the script.
RescueInv ==
    /\ rescue # NoGen => rescue \in DOMAIN gens
    /\ current # NoGen /\ ~(journal # NoJournal /\ Saved) => rescue = current - 1
    /\ step = "finish" => rescue = current - 1

Holds == OperationsInv /\ Truth /\ Planned /\ Recorded /\ RescueInv

\* What every hand leaves alone, and what rescue.sh does to a live path.
LEMMA HandsDo ==
    ASSUME TypeOK, RescueInv, Hands
    PROVE  /\ step = "free" /\ journal = NoJournal
           /\ UNCHANGED <<ledger, gens, current, rescue, journal, request, step, job, ops,
                          promise, stops>>
           /\ tampers < MaxTampers /\ tampers' = tampers + 1
           /\ live' \in [Dest -> Object \union {Nothing}]
           /\ touched' \subseteq Dest /\ touched \subseteq touched'
           /\ \A d \in Dest :
                 \/ live'[d] = live[d]
                 \/ /\ d \in touched'
                    /\ \/ live'[d] = Nothing
                       \/ live'[d].ino # ledger[d].ino /\ live'[d].by = "script"
           /\ claims' \in [Profile -> SUBSET Dest] /\ payload' \in [Profile -> SUBSET Dest]
<1>1. CASE RunRescue
  <2>. DEFINE to == gens[rescue].entries
              puts == {d \in DOMAIN to : to[d] # Nowhere /\ live[d].to # Directory}
              parks == {d \in DOMAIN to :
                          to[d] = Nowhere /\ IsLink(d) /\ <<rescue, d>> \notin parked}
              put(d) == [to |-> to[d], ino |-> Fresh(d), by |-> "script"]
  <2>1. /\ live' = [d \in Dest |-> IF d \in puts THEN put(d)
                                   ELSE IF d \in parks THEN Nothing ELSE live[d]]
        /\ touched' = touched \union puts \union parks
    BY <1>1, Zenon DEF RunRescue
  <2>2. /\ step = "free" /\ journal = NoJournal /\ tampers < MaxTampers /\ tampers' = tampers + 1
        /\ UNCHANGED <<ledger, gens, current, rescue, journal, request, step, job, ops,
                       promise, stops, claims, payload>>
    BY <1>1 DEF RunRescue, Hand, Unlocked, records, profiles
  <2>3. to \in Partial(Target \union {Nowhere})
    BY <1>1 DEF RunRescue, RescueInv, TypeOK, Generation
  <2>4. /\ DOMAIN to \subseteq Dest
        /\ \A d \in DOMAIN to : to[d] \in Target \union {Nowhere}
    BY <2>3, PartialElim
  <2> HIDE DEF to
  <2>5. \A d \in puts : put(d) \in Object /\ put(d).ino # ledger[d].ino /\ put(d).by = "script"
    <3> SUFFICES ASSUME NEW d \in puts
                 PROVE  put(d) \in Object /\ put(d).ino # ledger[d].ino
      OBVIOUS
    <3>1. d \in Dest /\ to[d] \in Target
      BY <2>4
    <3>2. Fresh(d) \in Inode /\ Fresh(d) # ledger[d].ino
      BY <3>1, FreshType
    <3> QED BY <3>1, <3>2 DEF Object
  <2> HIDE DEF put
  <2>6. live' \in [Dest -> Object \union {Nothing}]
    BY <2>1, <2>5 DEF TypeOK
  <2>7. puts \subseteq Dest /\ parks \subseteq Dest /\ touched \subseteq Dest
    BY <2>4 DEF TypeOK
  <2>8. \A d \in Dest :
           \/ live'[d] = live[d]
           \/ /\ d \in touched'
              /\ \/ live'[d] = Nothing
                 \/ live'[d].ino # ledger[d].ino /\ live'[d].by = "script"
    BY <2>1, <2>5
  <2> QED BY <2>1, <2>2, <2>6, <2>7, <2>8 DEF TypeOK
<1>2. ASSUME NEW a \in Profile, NEW d \in Dest, EditManifest(a, d) \/ TakeSource(a, d)
      PROVE  /\ step = "free" /\ journal = NoJournal
             /\ UNCHANGED <<live, ledger, gens, current, rescue, journal, request, step, job,
                            ops, promise, stops, touched>>
             /\ tampers < MaxTampers /\ tampers' = tampers + 1
             /\ claims' \in [Profile -> SUBSET Dest] /\ payload' \in [Profile -> SUBSET Dest]
  BY <1>2 DEF EditManifest, TakeSource, Hand, Unlocked, records, TypeOK
<1> QED BY <1>1, <1>2 DEF Hands, TypeOK

\* Other hands keep what holds of the operations.
LEMMA HandsKeep ==
    ASSUME Holds, Hands
    PROVE  Holds'
<1>. USE DEF Holds, OperationsInv
<1>1. TypeOK'
  BY HandsDo, BoundsAssumption DEF TypeOK
<1>2. InFlight'
  BY HandsDo DEF InFlight, Early, Late
<1>3. Numbering'
  BY HandsDo, NumberingFrame DEF numbers
<1>4. Movable'
  BY HandsDo DEF Movable, Early
<1>5. OwnsNothingElse'
  <2>1. Nothing.to \notin Profile
    BY TargetTypes DEF Target
  <2> QED BY <2>1, HandsDo DEF OwnsNothingElse, Owns
<1>6. Truth'
  <2>1. current # NoGen => DOMAIN gens[current].entries \subseteq Dest
    BY CurrentIsThere
  <2> QED BY <2>1, HandsDo DEF Truth, TrueOf, Topology
<1>7. Planned'
  BY HandsDo DEF Planned
<1>8. Recorded'
  <2> SUFFICES ASSUME NEW d \in Dest, Unrecorded(d)' PROVE FALSE
    BY DEF Recorded
  <2>1. live'[d] = live[d] /\ UNCHANGED ledger
    BY HandsDo DEF Unrecorded, Nothing
  <2>2. Unrecorded(d)
    BY <2>1 DEF Unrecorded, Owns
  <2> QED BY <2>2, HandsDo DEF Recorded
<1>9. RescueInv'
  BY HandsDo DEF RescueInv, Saved
<1> QED BY <1>1, <1>2, <1>3, <1>4, <1>5, <1>6, <1>7, <1>8, <1>9

\* rescue.sh follows the current generation.
LEMMA RescueStep ==
    ASSUME OperationsInv, OperationsInv', Truth, Truth', RescueInv, [Next]_vars
    PROVE  RescueInv'
<1>. USE DEF OperationsInv
<1>1. CASE UNCHANGED <<gens, current, rescue, journal>> /\ step' # "finish"
  BY <1>1 DEF RescueInv, Saved
<1>2. CASE UNCHANGED <<gens, current, rescue, journal, step>>
  BY <1>2 DEF RescueInv, Saved
<1>3. CASE WriteJournal
  <2>1. UNCHANGED <<gens, current, rescue>> /\ journal = NoJournal /\ step' = "cross"
    BY <1>3 DEF WriteJournal, records, InFlight, Early
  <2> QED BY <2>1 DEF RescueInv
<1>4. CASE SaveFirst
  <2>1. /\ UNCHANGED <<current, rescue>> /\ current = NoGen /\ step' = "journal"
        /\ DOMAIN gens \subseteq DOMAIN gens'
    BY <1>4 DEF SaveFirst, Numbering
  <2> QED BY <2>1 DEF RescueInv
<1>5. CASE SaveGeneration
  <2>1. /\ UNCHANGED <<current, rescue, journal>> /\ step' = "point"
        /\ DOMAIN gens \subseteq DOMAIN gens' /\ job.new = NextGen
        /\ \A g \in DOMAIN gens \ {job.new} : gens'[g] = gens[g]
    BY <1>5 DEF SaveGeneration, Numbering
  <2>2. current # NoGen => gens'[current] = gens[current]
    BY <2>1, CurrentIsThere DEF NextGen
  <2> QED BY <2>1, <2>2 DEF RescueInv, Saved
<1>6. CASE SetCurrent
  <2>1. UNCHANGED <<gens, rescue, journal>> /\ step = "point" /\ step' = "record"
    BY <1>6 DEF SetCurrent
  <2> QED BY <2>1 DEF RescueInv, Truth, InFlight, Late
<1>7. CASE WriteRescue
  <2>1. /\ UNCHANGED <<gens, current, journal>> /\ step' = "finish"
        /\ rescue' = job.new - 1 /\ job.new = current /\ (job.new - 1) \in DOMAIN gens
    BY <1>7 DEF WriteRescue, Numbering
  <2> QED BY <2>1 DEF RescueInv
<1>8. CASE MarkDone
  <2>1. /\ UNCHANGED <<gens, current, rescue>> /\ step \in {"finish", "abandon"}
        /\ step' = "free" /\ journal # NoJournal
    BY <1>8 DEF MarkDone, Releases, records, InFlight, Late
  <2>2. step = "abandon" => ~Saved
    BY <2>1 DEF Truth, InFlight
  <2> QED BY <2>1, <2>2 DEF RescueInv
<1>9. CASE StartRecover
  <2>1. step' \in {"cross", "abandon"} /\ UNCHANGED <<gens, current, rescue, journal>>
    BY <1>9, Zenon DEF StartRecover, records
  <2> QED BY <1>1, <2>1
<1>10. CASE DeclareFails \/ Stop \/ CopyTree \/ Declare \/ FindGeneration \/ SaveLedger
  <2>1. step' # "finish" /\ UNCHANGED <<gens, current, rescue, journal>>
    BY <1>10 DEF DeclareFails, Stop, Releases, CopyTree, Declare, FindGeneration, SaveLedger,
       records
  <2> QED BY <1>1, <2>1
<1>11. ASSUME NEW p \in Proc, Start(p) PROVE RescueInv'
  <2>1. step' \in {"before", "journal"} /\ UNCHANGED <<gens, current, rescue, journal>>
    BY <1>11 DEF Start, Begins, records
  <2> QED BY <1>1, <2>1
<1>12. ASSUME NEW d \in Dest, NEW a \in Profile, StartAdopt(d, a) PROVE RescueInv'
  BY <1>1, <1>12 DEF StartAdopt, Begins, records
<1> QED
  BY <1>2, <1>3, <1>4, <1>5, <1>6, <1>7, <1>8, <1>9, <1>10, <1>11, <1>12
     DEF Next, Works, AskSwitch, AskRollback, Asks, ReadLedger, GivesUp, Cross, Tamper, vars,
     records

\* A step of module Diagnosis is one of the operations or of other hands.
LEMMA HoldsStep ==
    ASSUME Holds, [DiagnosisNext]_<<vars, Evidence>>
    PROVE  Holds'
<1>1. CASE Hands
  BY <1>1, HandsKeep
<1>2. CASE [Next]_vars
  <2>1. OperationsInv'
    BY <1>2, TypeStep, InFlightStep, NumberingStep, MovableStep, OwnsStep
       DEF Holds, OperationsInv
  <2>2. Truth'
    BY <1>2, <2>1, TruthStep DEF Holds
  <2>3. Planned' /\ Recorded'
    BY <1>2, <2>1, PlannedStep, RecordedStep DEF Holds, OperationsInv
  <2>4. RescueInv'
    BY <1>2, <2>1, <2>2, RescueStep DEF Holds
  <2> QED BY <2>1, <2>2, <2>3, <2>4 DEF Holds
<1> QED BY <1>1, <1>2 DEF DiagnosisNext

LEMMA HoldsInit == Init => Holds
<1> SUFFICES ASSUME Init PROVE Holds
  OBVIOUS
<1>1. TypeOK
  BY TypeInit
<1>2. InFlight /\ Numbering /\ Movable
  BY DEF Init, InFlight, Numbering, Movable, Early, Late, NoGen
<1>3. OwnsNothingElse
  BY TargetTypes DEF Init, OwnsNothingElse, Owns, Target
<1>4. Truth /\ Planned /\ Recorded /\ RescueInv
  BY DEF Init, Truth, Planned, Recorded, Unrecorded, Nothing, RescueInv, NoGen
<1> QED BY <1>1, <1>2, <1>3, <1>4 DEF Holds, OperationsInv

\* The records agree with the live paths also where rescue.sh is run, manifests
\* are edited and directories are taken out of profiles.
THEOREM HoldsWithOtherHands == DiagnosisSpec => []Holds
<1>1. DiagnosisInit => Holds
  BY HoldsInit DEF DiagnosisInit
<1>2. Holds /\ [DiagnosisNext]_<<vars, Evidence>> => Holds'
  BY HoldsStep
<1> QED BY <1>1, <1>2, PTL DEF DiagnosisSpec

\* diff and doctor foretell what a switch does.
THEOREM ReportsAreTrue == DiagnosisSpec => []ReportsForetellSwitch
<1>1. Holds => ReportsForetellSwitch
  BY DiffIsThePlan, StoppersAreNamed DEF Holds, OperationsInv, ReportsForetellSwitch
<1> QED BY <1>1, HoldsWithOtherHands, PTL

\* At rest the current generation is true and ricepilot's own work is in its
\* records also with these hands.
THEOREM TrueWithOtherHands == DiagnosisSpec => [](CurrentIsTrue /\ OwnWorkIsOwned)
<1>1. Holds => CurrentIsTrue /\ OwnWorkIsOwned
  BY DEF Holds, Truth, CurrentIsTrue, AtRest, TrueOf, Recorded, Unrecorded, OwnWorkIsOwned
<1> QED BY <1>1, HoldsWithOtherHands, PTL

\* A link ricepilot takes for its own is one it put there also after
\* rescue.sh has put links of the same targets at these paths (D31).
THEOREM OwnershipWithOtherHands == DiagnosisSpec => [](TypeOK /\ OwnsNothingElse)
<1>1. Holds => TypeOK /\ OwnsNothingElse
  BY DEF Holds, OperationsInv
<1> QED BY <1>1, HoldsWithOtherHands, PTL

\* With these hands too, an operation displaces only what ricepilot put there
\* or the directory of an adopt (R1), a journal in flight is retired by its
\* own operation or a recover of it, and history is kept.
THEOREM OperationsWithOtherHands ==
    DiagnosisSpec => DisplacesOnlyItsOwn /\ JournalNeverBuried /\ HistoryIsKept
<1>1. Holds /\ [DiagnosisNext]_<<vars, Evidence>> => Displacing /\ Burying /\ Keeping
  <2> SUFFICES ASSUME Holds, [DiagnosisNext]_<<vars, Evidence>>
               PROVE  Displacing /\ Burying /\ Keeping
    OBVIOUS
  <2>1. CASE [Next]_vars
    BY <2>1, DisplacingStep, BuryingStep, HistoryStep DEF Holds
  <2>2. CASE Hands
    <3>1. /\ journal' = journal /\ current' = current /\ gens' = gens
          /\ tampers' = tampers + 1 /\ tampers \in Nat
      BY <2>2, HandsDo DEF Holds, OperationsInv, TypeOK
    <3> QED BY <3>1 DEF Displacing, Burying, Keeping
  <2> QED BY <2>1, <2>2 DEF DiagnosisNext, vars
<1> QED
  BY <1>1, HoldsWithOtherHands, PTL
  DEF DiagnosisSpec, DisplacesOnlyItsOwn, JournalNeverBuried, HistoryIsKept,
      Displacing, Burying, Keeping

-----------------------------------------------------------------------------
(***************************************************************************)
(* doctor is quiet on a machine that only ricepilot has changed            *)
(***************************************************************************)

\* A profile declares the path, and has a directory for it.
Backed(a, d) == d \in claims[a] /\ d \in payload[a]

\* Every link is ricepilot's, into a profile that has what it leads to.
Linked ==
    \A d \in Dest :
        /\ live[d].to \in Target =>
              live[d].by = "ricepilot" /\ live[d].to \in Profile /\ Backed(live[d].to, d)
        /\ live[d].to = Directory => live[d].by = "user"

\* So is every link that a generation remembers, and what is asked for.
Remembered ==
    \A g \in DOMAIN gens : \A d \in DOMAIN gens[g].entries :
        gens[g].entries[d] # Nowhere =>
            gens[g].entries[d] \in Profile /\ Backed(gens[g].entries[d], d)

AskedFor ==
    \A p \in Proc : request[p] # NoRequest =>
        \A d \in DOMAIN request[p].targets :
            request[p].targets[d] \in Profile /\ d \in claims[request[p].targets[d]]

\* And what an operation is to put in place, once it is under way.
Planning ==
    /\ step # "free" =>
          /\ \A d \in DOMAIN job.targets :
                /\ job.targets[d] \in Profile
                /\ step \notin {"copy", "declare"} => d \in claims[job.targets[d]]
                /\ step # "copy" => d \in payload[job.targets[d]]
          /\ \A d \in DOMAIN job.changes : job.changes[d] # Nowhere =>
                d \in DOMAIN job.targets /\ job.targets[d] = job.changes[d]
    /\ step \in {"copy", "declare"} => DOMAIN job.targets = {Adopted}
    /\ journal # NoJournal =>
          \A d \in DOMAIN journal.changes : journal.changes[d] # Nowhere =>
              journal.changes[d] \in Profile /\ Backed(journal.changes[d], d)

\* Every row describes the link that is there, until an operation changes it.
Exact ==
    \A d \in Dest : ledger[d] # NoRow =>
        \/ Owns(d)
        \/ /\ journal # NoJournal
           /\ d \in DOMAIN journal.changes
           /\ Crossed(d)
           /\ step \notin {"rescue", "finish"}

\* An adopt is about a directory until it has exchanged it.
Exchanging ==
    /\ step \in Early /\ job.kind = "adopt" =>
          \A d \in DOMAIN job.changes : job.changes[d] # Nowhere /\ live[d].to = Directory
    /\ journal # NoJournal /\ journal.adopt =>
          \A d \in DOMAIN journal.changes :
              journal.changes[d] # Nowhere /\ (Crossed(d) \/ live[d].to = Directory)

\* What doctor has of an adopt: the directory is in the attic unless it is
\* still where it was.
Adoptions ==
    \A d \in Dest : adopted[d] # NoAdopt =>
        /\ adopted[d].into \in Profile /\ Backed(adopted[d].into, d)
        /\ \/ adopted[d].attic
           \/ live[d].to = Directory
           \/ journal # NoJournal /\ journal.adopt /\ d \in DOMAIN journal.changes

OnlyOurs == Linked /\ Remembered /\ AskedFor /\ Planning /\ Exact /\ Exchanging /\ Adoptions

QuietInv == tampers = 0 => OnlyOurs

\* A change by anybody else is counted.
LEMMA Counted ==
    ASSUME TypeOK, RescueInv, [DiagnosisNext]_<<vars, Evidence>>, tampers' = 0
    PROVE  /\ tampers = 0
           /\ \/ Next /\ Traces
              \/ UNCHANGED <<vars, Evidence>>
           /\ \A d \in Dest : \A to : ~Tamper(d, to)
<1>1. tampers \in Nat
  BY BoundsAssumption DEF TypeOK
<1>2. Hands => tampers' = tampers + 1
  BY HandsDo
<1>3. \A d \in Dest : \A to : Tamper(d, to) => tampers' = tampers + 1
  BY DEF Tamper
<1>4. tampers' = tampers \/ tampers' = tampers + 1
  BY <1>2 DEF DiagnosisNext, Next, Works, AskSwitch, AskRollback, Asks, ReadLedger, GivesUp,
     Start, StartAdopt, StartRecover, CopyTree, Declare, SaveFirst, WriteJournal, Cross,
     SaveGeneration, FindGeneration, SetCurrent, SaveLedger, WriteRescue, MarkDone, DeclareFails,
     Stop, Tamper, vars, bounds
<1> QED BY <1>1, <1>2, <1>3, <1>4 DEF DiagnosisNext

\* Profiles only grow by operations.
LEMMA ProfilesGrow ==
    ASSUME TypeOK, [Next]_vars
    PROVE  \A a \in Profile : claims[a] \subseteq claims'[a] /\ payload[a] \subseteq payload'[a]
<1>1. CASE CopyTree \/ Declare
  BY <1>1 DEF CopyTree, Declare, TypeOK
<1>2. CASE UNCHANGED profiles
  BY <1>2 DEF profiles
<1> QED
  BY <1>1, <1>2 DEF Next, Works, AskSwitch, AskRollback, Asks, ReadLedger, GivesUp,
     Start, StartAdopt, StartRecover, SaveFirst, WriteJournal, Cross,
     SaveGeneration, FindGeneration, SetCurrent, SaveLedger, WriteRescue, MarkDone, DeclareFails,
     Stop, Tamper, vars

\* Only a crossing changes a live path, then.
LEMMA OnlyCrossings ==
    ASSUME [Next]_vars, \A d \in Dest : \A to : ~Tamper(d, to)
    PROVE  live' = live \/ \E d \in Dest : Cross(d)
  BY DEF Next, Works, AskSwitch, AskRollback, Asks, ReadLedger, GivesUp,
     Start, StartAdopt, StartRecover, CopyTree, Declare, SaveFirst, WriteJournal,
     SaveGeneration, FindGeneration, SetCurrent, SaveLedger, WriteRescue, MarkDone, DeclareFails,
     Stop, vars

\* What a crossing does.
LEMMA CrossDoes ==
    ASSUME TypeOK, InFlight, NEW d \in Dest, Cross(d)
    PROVE  /\ UNCHANGED <<records, journal, profiles, request, step, job, ops>>
           /\ step = "cross" /\ journal # NoJournal /\ journal.changes = job.changes
           /\ d \in DOMAIN job.changes /\ ~Crossed(d) /\ Crossed(d)'
           /\ \A e \in Dest \ {d} : live'[e] = live[e]
           /\ IF job.changes[d] = Nowhere THEN live'[d] = Nothing
              ELSE live'[d].to = job.changes[d] /\ live'[d].by = "ricepilot"
  BY DEF Cross, InFlight, Late, Crossed, TypeOK, Nothing

\* Links stay backed.
LEMMA LinkedStep ==
    ASSUME Holds, Linked, Planning, [Next]_vars, \A d \in Dest : \A to : ~Tamper(d, to)
    PROVE  Linked'
<1>. USE DEF Holds, OperationsInv
<1>1. CASE live' = live
  <2> SUFFICES ASSUME NEW d \in Dest
               PROVE  /\ live[d].to \in Target =>
                            /\ live[d].by = "ricepilot" /\ live[d].to \in Profile
                            /\ Backed(live[d].to, d)'
                      /\ live[d].to = Directory => live[d].by = "user"
    BY <1>1 DEF Linked
  <2> QED BY <1>1, ProfilesGrow DEF Linked, Backed
<1>2. ASSUME NEW d \in Dest, Cross(d) PROVE Linked'
  <2>1. UNCHANGED profiles /\ \A e \in Dest \ {d} : live'[e] = live[e]
    BY <1>2, CrossDoes
  <2>2. CASE job.changes[d] = Nowhere
    <3>1. live'[d].to \notin Target /\ live'[d].to # Directory
      BY <1>2, <2>2, CrossDoes, TargetTypes DEF Nothing, Nowhere, Directory
    <3> QED BY <2>1, <3>1 DEF Linked, Backed, profiles
  <2>3. CASE job.changes[d] # Nowhere
    <3>1. /\ live'[d].by = "ricepilot" /\ live'[d].to = job.targets[d]
          /\ job.targets[d] \in Profile /\ Backed(job.targets[d], d)
      BY <1>2, <2>3, CrossDoes DEF Planning, Backed
    <3>2. live'[d].to # Directory
      BY <3>1, TargetTypes DEF Target
    <3> QED BY <2>1, <3>1, <3>2 DEF Linked, Backed, profiles
  <2> QED BY <2>2, <2>3
<1> QED BY <1>1, <1>2, OnlyCrossings

\* A generation that is written observes such links.
LEMMA ObservesBacked ==
    ASSUME TypeOK, Linked, NEW D \in SUBSET Dest, NEW d \in D, Topology(D)[d] # Nowhere
    PROVE  Topology(D)[d] \in Profile /\ Backed(Topology(D)[d], d)
  BY DEF Topology, Linked

\* Generations stay backed.
LEMMA RememberedStep ==
    ASSUME Holds, Linked, Remembered, [Next]_vars
    PROVE  Remembered'
<1>. USE DEF Holds, OperationsInv
<1>a. \A a \in Profile : claims[a] \subseteq claims'[a] /\ payload[a] \subseteq payload'[a]
  BY ProfilesGrow
<1>1. CASE UNCHANGED gens
  BY <1>a, <1>1 DEF Remembered, Backed
<1>2. CASE SaveFirst \/ SaveGeneration
  <2>1. UNCHANGED <<request, profiles, job>> /\ step # "free"
    BY <1>2 DEF SaveFirst, SaveGeneration
  <2>2. job.dests \in SUBSET Dest /\ DOMAIN Topology(job.dests) = job.dests
    BY <2>1, JobType DEF Topology
  <2>3. \A g \in DOMAIN gens' : \/ g \in DOMAIN gens /\ gens'[g] = gens[g]
                                \/ gens'[g].entries = Topology(job.dests)
    BY <1>2 DEF SaveFirst, SaveGeneration
  <2>4. ASSUME NEW g \in DOMAIN gens', NEW d \in DOMAIN gens'[g].entries,
               gens'[g].entries[d] # Nowhere
        PROVE  /\ gens'[g].entries[d] \in Profile
               /\ Backed(gens'[g].entries[d], d)
    <3>1. CASE g \in DOMAIN gens /\ gens'[g] = gens[g]
      BY <2>4, <3>1 DEF Remembered
    <3>2. CASE gens'[g].entries = Topology(job.dests)
      BY <2>2, <2>4, <3>2, ObservesBacked
    <3> QED BY <2>3, <3>1, <3>2
  <2>5. claims' = claims /\ payload' = payload
    BY <2>1 DEF profiles
  <2> QED BY <2>4, <2>5 DEF Remembered, Backed
<1> QED
  BY <1>1, <1>2 DEF Next, Works, AskSwitch, AskRollback, Asks, ReadLedger, GivesUp, Start,
     StartAdopt, StartRecover, CopyTree, Declare, WriteJournal, Cross, FindGeneration,
     SetCurrent, SaveLedger, WriteRescue, MarkDone, DeclareFails, Stop, Tamper, vars, records

\* What is asked for is declared.
LEMMA AskedForStep ==
    ASSUME Holds, Remembered, AskedFor, [Next]_vars
    PROVE  AskedFor'
<1>. USE DEF Holds, OperationsInv
<1>a. \A a \in Profile : claims[a] \subseteq claims'[a]
  BY ProfilesGrow
<1>1. CASE UNCHANGED request
  BY <1>a, <1>1 DEF AskedFor
<1>2. ASSUME NEW p \in Proc, NEW k, NEW targets, Asks(p, k, targets),
             \A d \in DOMAIN targets : targets[d] \in Profile /\ d \in claims[targets[d]]
      PROVE  AskedFor'
  <2>1. /\ UNCHANGED claims /\ request'[p].targets = targets
        /\ \A q \in Proc \ {p} : request'[q] = request[q]
    BY <1>2 DEF Asks, profiles, TypeOK
  <2> QED BY <1>2, <2>1 DEF AskedFor
<1>3. ASSUME NEW p \in Proc, NEW a \in Profile, AskSwitch(p, a) PROVE AskedFor'
  BY <1>2, <1>3 DEF AskSwitch
<1>4. ASSUME NEW p \in Proc, AskRollback(p) PROVE AskedFor'
  <2>1. (current - 1) \in DOMAIN gens /\ Asks(p, "rollback", Links(current - 1))
    BY <1>4 DEF AskRollback
  <2>2. \A d \in DOMAIN Links(current - 1) :
           /\ Links(current - 1)[d] \in Profile
           /\ d \in claims[Links(current - 1)[d]]
    BY <2>1 DEF Links, Remembered, Backed
  <2> QED BY <1>2, <2>1, <2>2
<1>5. ASSUME NEW p \in Proc, ReadLedger(p) PROVE AskedFor'
  <2>1. request[p] \in Request /\ request[p] # NoRequest
    BY <1>5, RequestType DEF ReadLedger
  <2>2. /\ UNCHANGED claims /\ request'[p].targets = request[p].targets
        /\ \A q \in Proc \ {p} : request'[q] = request[q]
    BY <1>5, <2>1 DEF ReadLedger, profiles, TypeOK, Request
  <2> QED BY <2>1, <2>2 DEF AskedFor
<1>6. ASSUME NEW p \in Proc, GivesUp(p) \/ Start(p) PROVE AskedFor'
  <2>1. /\ UNCHANGED claims /\ request'[p] = NoRequest
        /\ \A q \in Proc \ {p} : request'[q] = request[q]
    BY <1>6 DEF GivesUp, Start, profiles, TypeOK
  <2> QED BY <2>1 DEF AskedFor
<1> QED
  BY <1>1, <1>3, <1>4, <1>5, <1>6 DEF Next, Works, StartAdopt, StartRecover, CopyTree,
     Declare, SaveFirst, SaveGeneration, WriteJournal, Cross, FindGeneration, SetCurrent,
     SaveLedger, WriteRescue, MarkDone, DeclareFails, Stop, Tamper, vars

\* What is to be put in place stays backed.
LEMMA PlanningStep ==
    ASSUME Holds, Remembered, AskedFor, Planning, [Next]_vars
    PROVE  Planning'
<1>. USE DEF Holds, OperationsInv
<1>a. \A a \in Profile : claims[a] \subseteq claims'[a] /\ payload[a] \subseteq payload'[a]
  BY ProfilesGrow
<1>b. Nowhere \notin Profile
  BY TargetTypes DEF Target
<1>1. CASE UNCHANGED <<journal, step, job>>
  BY <1>a, <1>1 DEF Planning, Backed, Adopted
<1>2. ASSUME NEW p \in Proc, Start(p) PROVE Planning'
  <2>. DEFINE r == request[p]
  <2>1. /\ r # NoRequest /\ journal = NoJournal /\ ~Declines(r.targets, r.retire)
        /\ job'.targets = r.targets /\ job'.changes = Changes(r.targets, r.retire)
        /\ step' \in {"before", "journal"} /\ UNCHANGED <<journal, profiles>>
    BY <1>2 DEF Start, Begins
  <2>2. ASSUME NEW d \in DOMAIN r.targets
        PROVE  /\ r.targets[d] \in Profile /\ d \in claims[r.targets[d]]
               /\ d \in payload[r.targets[d]]
    BY <2>1, <2>2 DEF AskedFor, Declines
  <2>3. ASSUME NEW d \in DOMAIN Changes(r.targets, r.retire),
               Changes(r.targets, r.retire)[d] # Nowhere
        PROVE  d \in DOMAIN r.targets /\ r.targets[d] = Changes(r.targets, r.retire)[d]
    BY <2>3 DEF Changes
  <2> HIDE DEF r
  <2> QED BY <2>1, <2>2, <2>3 DEF Planning, profiles
<1>3. ASSUME NEW d \in Dest, NEW a \in Profile, StartAdopt(d, a) PROVE Planning'
  <2>1. /\ journal' = NoJournal /\ step' = "copy"
        /\ job'.targets = [e \in {d} |-> a] /\ job'.changes = [e \in {d} |-> a]
    BY <1>3 DEF StartAdopt, Begins
  <2>2. DOMAIN job'.targets = {Adopted}'
    BY <2>1 DEF Adopted
  <2> QED BY <2>1, <2>2 DEF Planning
<1>4. CASE StartRecover
  <2>1. /\ journal # NoJournal /\ step' \in {"cross", "abandon"} /\ UNCHANGED <<journal, profiles>>
        /\ job'.targets = [d \in DOMAIN journal.changes
                              \ {d \in DOMAIN journal.changes : journal.changes[d] = Nowhere}
                                |-> journal.changes[d]]
        /\ job'.changes = journal.changes
    BY <1>4, Zenon DEF StartRecover
  <2> QED BY <2>1 DEF Planning, Backed, profiles
<1>5. CASE CopyTree
  <2>1. /\ step = "copy" /\ step' = "declare" /\ UNCHANGED <<journal, job>>
        /\ Adopted' = Adopted
        /\ payload' = [payload EXCEPT ![job.targets[Adopted]] = @ \union {Adopted}]
    BY <1>5 DEF CopyTree, Adopted
  <2>2. /\ DOMAIN job.targets = {Adopted} /\ job.targets[Adopted] \in Profile
        /\ \A d \in DOMAIN job.changes : job.changes[d] # Nowhere =>
              d \in DOMAIN job.targets /\ job.targets[d] = job.changes[d]
    BY <2>1 DEF Planning
  <2>3. Adopted \in payload'[job.targets[Adopted]]
    BY <2>1, <2>2 DEF TypeOK
  <2>4. journal = NoJournal
    BY <2>1 DEF InFlight, Early
  <2> QED BY <2>1, <2>2, <2>3, <2>4 DEF Planning
<1>6. CASE Declare
  <2>1. /\ step = "declare" /\ step' \in {"before", "journal"} /\ UNCHANGED <<journal, job, payload>>
        /\ claims' = [claims EXCEPT ![job.targets[Adopted]] = @ \union {Adopted}]
    BY <1>6 DEF Declare
  <2>2. /\ DOMAIN job.targets = {Adopted} /\ job.targets[Adopted] \in Profile
        /\ Adopted \in payload[job.targets[Adopted]]
        /\ \A d \in DOMAIN job.changes : job.changes[d] # Nowhere =>
              d \in DOMAIN job.targets /\ job.targets[d] = job.changes[d]
    BY <2>1 DEF Planning
  <2>3. Adopted \in claims'[job.targets[Adopted]]
    BY <2>1, <2>2 DEF TypeOK
  <2>4. journal = NoJournal
    BY <2>1 DEF InFlight, Early
  <2> QED BY <2>1, <2>2, <2>3, <2>4 DEF Planning
<1>7. CASE WriteJournal
  <2>1. /\ step = "journal" /\ step' = "cross" /\ UNCHANGED <<profiles, job>>
        /\ journal'.changes = job.changes
    BY <1>7 DEF WriteJournal
  <2> QED BY <2>1 DEF Planning, Backed, profiles
<1>8. CASE FindGeneration
  <2>1. /\ step = "cross" /\ step' = "record" /\ UNCHANGED <<journal, profiles>>
        /\ job' = [job EXCEPT !.new = current] /\ job \in Job
    BY <1>8, JobType DEF FindGeneration
  <2>2. job'.targets = job.targets /\ job'.changes = job.changes
    BY <2>1 DEF Job
  <2> QED BY <2>1, <2>2 DEF Planning, Backed, profiles
<1>9. CASE SaveFirst \/ SaveGeneration \/ SetCurrent \/ SaveLedger \/ WriteRescue
  <2>1. /\ UNCHANGED <<journal, profiles, job>> /\ step \notin {"free", "copy", "declare"}
        /\ step' \in {"journal", "point", "record", "rescue", "finish"}
    BY <1>9 DEF SaveFirst, SaveGeneration, SetCurrent, SaveLedger, WriteRescue
  <2> QED BY <2>1 DEF Planning, Backed, profiles
<1>10. CASE MarkDone \/ DeclareFails \/ Stop
  <2>1. /\ UNCHANGED profiles /\ step' = "free" /\ (journal' = journal \/ journal' = NoJournal)
    BY <1>10 DEF MarkDone, DeclareFails, Stop, Releases
  <2> QED BY <2>1 DEF Planning, Backed, profiles
<1> QED
  BY <1>1, <1>2, <1>3, <1>4, <1>5, <1>6, <1>7, <1>8, <1>9, <1>10 DEF Next, Works, AskSwitch,
     AskRollback, Asks, ReadLedger, GivesUp, Cross, Tamper, vars

\* Rows stay exact.
LEMMA ExactStep ==
    ASSUME Holds, Linked, Exact, [Next]_vars, \A d \in Dest : \A to : ~Tamper(d, to)
    PROVE  Exact'
<1>. USE DEF Holds, OperationsInv
<1>1. CASE UNCHANGED <<live, ledger, journal>> /\ step' \notin {"rescue", "finish"}
  BY <1>1 DEF Exact, Owns, Crossed
<1>2. CASE UNCHANGED <<live, ledger, journal, step>>
  BY <1>2 DEF Exact, Owns, Crossed
<1>3. ASSUME NEW d \in Dest, Cross(d) PROVE Exact'
  <2>1. /\ UNCHANGED <<ledger, journal, step>> /\ step = "cross" /\ journal # NoJournal
        /\ d \in DOMAIN journal.changes /\ Crossed(d)'
        /\ \A e \in Dest \ {d} : live'[e] = live[e]
    BY <1>3, CrossDoes DEF records
  <2>2. \A e \in Dest \ {d} : /\ Owns(e) => Owns(e)'
                              /\ Crossed(e) => Crossed(e)'
    BY <2>1 DEF Owns, Crossed
  <2> QED BY <2>1, <2>2 DEF Exact
<1>4. CASE WriteJournal
  <2>1. journal = NoJournal /\ UNCHANGED <<live, ledger>>
    BY <1>4 DEF WriteJournal, InFlight, Early, records
  <2> QED BY <2>1 DEF Exact, Owns
<1>5. CASE SaveLedger
  <2>1. /\ step = "record" /\ step' = "rescue" /\ UNCHANGED <<live, journal>>
        /\ \A d \in DOMAIN job.targets : live[d].to \in Target
        /\ ledger' = [d \in Dest |->
                        IF d \in job.retire THEN NoRow
                        ELSE IF d \in DOMAIN job.targets
                        THEN [to |-> live[d].to, ino |-> live[d].ino]
                        ELSE ledger[d]]
    BY <1>5 DEF SaveLedger
  <2>2. ASSUME NEW d \in Dest, ledger'[d] # NoRow PROVE Owns(d)'
    <3>1. d \notin job.retire
      BY <2>1, <2>2
    <3>2. CASE d \in DOMAIN job.targets
      <4>1. live'[d].to \in Profile
        BY <2>1, <3>2 DEF Linked
      <4> QED BY <2>1, <3>1, <3>2, <4>1 DEF Owns
    <3>3. CASE d \notin DOMAIN job.targets
      <4>1. d \notin DOMAIN job.changes
        BY <2>1, <3>1, <3>3 DEF Planned
      <4>2. journal # NoJournal /\ journal.changes = job.changes
        BY <2>1 DEF InFlight, Late
      <4>3. ledger'[d] = ledger[d]
        BY <2>1, <3>1, <3>3
      <4>4. Owns(d)
        BY <2>2, <4>1, <4>2, <4>3 DEF Exact
      <4> QED BY <2>1, <4>3, <4>4 DEF Owns
    <3> QED BY <3>2, <3>3
  <2> QED BY <2>2 DEF Exact
<1>6. CASE WriteRescue
  <2>1. step = "rescue" /\ UNCHANGED <<live, ledger>>
    BY <1>6 DEF WriteRescue
  <2> QED BY <2>1 DEF Exact, Owns
<1>7. CASE MarkDone
  <2>1. /\ step \in {"finish", "abandon"} /\ UNCHANGED <<live, ledger>>
    BY <1>7 DEF MarkDone, records
  <2>2. \A d \in Dest : ledger[d] # NoRow => Owns(d)
    BY <2>1 DEF Exact, InFlight
  <2> QED BY <2>1, <2>2 DEF Exact, Owns
<1>8. ASSUME NEW p \in Proc, Start(p) PROVE Exact'
  <2>1. UNCHANGED <<live, ledger, journal>> /\ step' \in {"before", "journal"}
    BY <1>8 DEF Start, Begins, records
  <2> QED BY <1>1, <2>1
<1>9. CASE StartRecover
  <2>1. UNCHANGED <<live, ledger, journal>> /\ step' \in {"cross", "abandon"}
    BY <1>9, Zenon DEF StartRecover, records
  <2> QED BY <1>1, <2>1
<1>10. ASSUME NEW d \in Dest, NEW a \in Profile, StartAdopt(d, a) PROVE Exact'
  BY <1>1, <1>10 DEF StartAdopt, Begins, records
<1>11. CASE CopyTree \/ Declare \/ SaveFirst \/ SaveGeneration \/ FindGeneration \/ SetCurrent
            \/ DeclareFails \/ Stop
  BY <1>1, <1>11 DEF CopyTree, Declare, SaveFirst, SaveGeneration, FindGeneration, SetCurrent,
     DeclareFails, Stop, Releases, records
<1> QED
  BY <1>2, <1>3, <1>4, <1>5, <1>6, <1>7, <1>8, <1>9, <1>10, <1>11 DEF Next, Works, AskSwitch,
     AskRollback, Asks, ReadLedger, GivesUp, vars, records

\* An adopt stays with its directory.
LEMMA ExchangingStep ==
    ASSUME Holds, Exchanging, [Next]_vars, \A d \in Dest : \A to : ~Tamper(d, to)
    PROVE  Exchanging'
<1>. USE DEF Holds, OperationsInv
<1>1. CASE UNCHANGED <<live, journal>> /\ step' \notin Early
  BY <1>1 DEF Exchanging, Crossed
<1>2. CASE UNCHANGED <<live, journal, job>> /\ (step' \in Early => step \in Early)
  BY <1>2 DEF Exchanging, Crossed
<1>3. ASSUME NEW d \in Dest, NEW a \in Profile, StartAdopt(d, a) PROVE Exchanging'
  <2>1. /\ UNCHANGED live /\ journal' = NoJournal /\ job'.changes = [e \in {d} |-> a]
        /\ Shape(d) = "realdir"
    BY <1>3 DEF StartAdopt, Begins
  <2>2. live[d].to = Directory /\ a # Nowhere
    BY <2>1, ShapeMeans, TargetTypes DEF Target
  <2> QED BY <2>1, <2>2 DEF Exchanging
<1>4. ASSUME NEW p \in Proc, Start(p) PROVE Exchanging'
  <2>1. request[p] \in Request
    BY <1>4, RequestType DEF Start
  <2>2. journal' = NoJournal /\ job'.kind = request[p].kind /\ job'.kind # "adopt"
    BY <1>4, <2>1 DEF Start, Begins, Request
  <2> QED BY <2>2 DEF Exchanging
<1>5. CASE WriteJournal
  <2>1. /\ step = "journal" /\ step' = "cross" /\ UNCHANGED live
        /\ journal'.changes = job.changes /\ journal'.adopt = (job.kind = "adopt")
    BY <1>5 DEF WriteJournal
  <2> QED BY <2>1 DEF Exchanging, Early
<1>6. ASSUME NEW d \in Dest, Cross(d) PROVE Exchanging'
  <2>1. /\ UNCHANGED <<journal, step>> /\ step = "cross" /\ Crossed(d)'
        /\ \A e \in Dest \ {d} : live'[e] = live[e]
    BY <1>6, CrossDoes
  <2>2. journal # NoJournal => DOMAIN journal.changes \subseteq Dest
    BY JournalType
  <2> QED BY <2>1, <2>2 DEF Exchanging, Early, Crossed
<1>7. CASE MarkDone \/ DeclareFails \/ Stop
  <2>1. UNCHANGED live /\ step' = "free" /\ (journal' = journal \/ journal' = NoJournal)
    BY <1>7 DEF MarkDone, DeclareFails, Stop, Releases
  <2> QED BY <2>1 DEF Exchanging, Early, Crossed
<1>8. CASE StartRecover
  <2>1. UNCHANGED <<live, journal>> /\ step' \in {"cross", "abandon"}
    BY <1>8, Zenon DEF StartRecover
  <2> QED BY <1>1, <2>1 DEF Early
<1>9. CASE SaveGeneration \/ FindGeneration \/ SetCurrent \/ SaveLedger \/ WriteRescue
  BY <1>1, <1>9 DEF SaveGeneration, FindGeneration, SetCurrent, SaveLedger, WriteRescue, Early
<1>10. CASE CopyTree \/ Declare \/ SaveFirst
  BY <1>2, <1>10 DEF CopyTree, Declare, SaveFirst, Early
<1> QED
  BY <1>2, <1>3, <1>4, <1>5, <1>6, <1>7, <1>8, <1>9, <1>10 DEF Next, Works, AskSwitch,
     AskRollback, Asks, ReadLedger, GivesUp, vars

\* What doctor has of an adopt stays so.
LEMMA AdoptionsStep ==
    ASSUME Holds, Linked, Planning, Exchanging, Adoptions, [Next]_vars,
           Traces \/ UNCHANGED <<vars, Evidence>>, \A d \in Dest : \A to : ~Tamper(d, to)
    PROVE  Adoptions'
<1>. USE DEF Holds, OperationsInv
<1>a. \A a \in Profile : claims[a] \subseteq claims'[a] /\ payload[a] \subseteq payload'[a]
  BY ProfilesGrow
<1>1. SUFFICES ASSUME NEW d \in Dest, adopted'[d] # NoAdopt
               PROVE  /\ adopted'[d].into \in Profile /\ Backed(adopted[d].into, d)'
                      /\ \/ adopted'[d].attic
                         \/ live'[d].to = Directory
                         \/ journal' # NoJournal /\ journal'.adopt /\ d \in DOMAIN journal'.changes
  BY DEF Adoptions
<1>2. CASE Retires /\ journal.adopt /\ d \in DOMAIN journal.changes
  <2>1. MarkDone
    BY <1>2 DEF Retires, Next, Works, AskSwitch, AskRollback, Asks, ReadLedger, GivesUp, Start,
       StartAdopt, StartRecover, CopyTree, Declare, SaveFirst, WriteJournal, Cross,
       SaveGeneration, FindGeneration, SetCurrent, SaveLedger, WriteRescue, DeclareFails, Stop,
       Tamper, Begins, NoJournal, vars
  <2>2. UNCHANGED <<live, profiles>> /\ journal # NoJournal
    BY <1>2, <2>1 DEF MarkDone, Retires
  <2>3. adopted'[d] = [into |-> journal.changes[d], attic |-> Crossed(d)]
    BY <1>2, <2>2 DEF Traces, Retires, vars
  <2>4. journal.changes[d] # Nowhere /\ (Crossed(d) \/ live[d].to = Directory)
    BY <1>2, <2>2 DEF Exchanging
  <2>5. journal.changes[d] \in Profile /\ Backed(journal.changes[d], d)
    BY <1>2, <2>2, <2>4 DEF Planning
  <2> QED BY <2>2, <2>3, <2>4, <2>5 DEF Backed, profiles
<1>3. CASE ~(Retires /\ journal.adopt /\ d \in DOMAIN journal.changes)
  <2>1. adopted'[d] = adopted[d]
    BY <1>3 DEF Traces, Evidence
  <2>2. /\ adopted[d].into \in Profile /\ Backed(adopted[d].into, d)
        /\ \/ adopted[d].attic
           \/ live[d].to = Directory
           \/ journal # NoJournal /\ journal.adopt /\ d \in DOMAIN journal.changes
    BY <1>1, <2>1 DEF Adoptions
  <2>3. adopted'[d].into \in Profile /\ Backed(adopted[d].into, d)'
    BY <1>a, <2>1, <2>2 DEF Backed
  <2>4. CASE journal # NoJournal /\ journal.adopt /\ d \in DOMAIN journal.changes
    <3>1. journal' # NoJournal
      BY <1>3, <2>4 DEF Retires
    <3>2. journal' = journal
      BY <2>4, <3>1 DEF Next, Works, AskSwitch, AskRollback, Asks, ReadLedger, GivesUp, Start,
         StartAdopt, StartRecover, CopyTree, Declare, SaveFirst, WriteJournal, Cross,
         SaveGeneration, FindGeneration, SetCurrent, SaveLedger, WriteRescue, MarkDone,
         DeclareFails, Stop, Tamper, Begins, InFlight, Early, vars
    <3> QED BY <2>3, <2>4, <3>2
  <2>5. CASE live[d].to = Directory /\ live'[d] # live[d]
    <3>1. PICK e \in Dest : Cross(e)
      BY <2>5, OnlyCrossings
    <3>2. Cross(d) /\ journal # NoJournal /\ d \in DOMAIN journal.changes /\ journal' = journal
      BY <2>5, <3>1, CrossDoes
    <3>3. live[d].by # "ricepilot" /\ live[d] # Nothing
      BY <2>5 DEF Linked, Nothing, Nowhere, Directory
    <3>4. journal.adopt
      BY <3>2, <3>3 DEF Movable, Its
    <3> QED BY <2>3, <3>2, <3>4
  <2> QED BY <2>1, <2>2, <2>3, <2>4, <2>5
<1> QED BY <1>2, <1>3

LEMMA QuietStep ==
    ASSUME Holds, QuietInv, [DiagnosisNext]_<<vars, Evidence>>
    PROVE  QuietInv'
<1>1. SUFFICES ASSUME tampers' = 0 PROVE OnlyOurs'
  BY DEF QuietInv
<1>2. /\ tampers = 0
      /\ \/ Next /\ Traces
         \/ UNCHANGED <<vars, Evidence>>
      /\ \A d \in Dest : \A to : ~Tamper(d, to)
  BY <1>1, Counted DEF Holds, OperationsInv
<1>3. OnlyOurs /\ [Next]_vars
  BY <1>2 DEF QuietInv
<1>4. Linked' /\ Remembered' /\ AskedFor' /\ Planning'
  BY <1>2, <1>3, LinkedStep, RememberedStep, AskedForStep, PlanningStep DEF OnlyOurs
<1>5. Exact' /\ Exchanging' /\ Adoptions'
  BY <1>2, <1>3, ExactStep, ExchangingStep, AdoptionsStep DEF OnlyOurs
<1> QED BY <1>4, <1>5 DEF OnlyOurs

LEMMA QuietInit == DiagnosisInit => QuietInv
<1> SUFFICES ASSUME DiagnosisInit PROVE OnlyOurs
  BY DEF QuietInv
<1>1. Linked
  BY TargetTypes DEF DiagnosisInit, Init, Linked, Nothing, Nowhere, Directory
<1>2. Remembered /\ AskedFor /\ Planning
  BY DEF DiagnosisInit, Init, Remembered, AskedFor, Planning
<1>3. Exact /\ Exchanging /\ Adoptions
  BY DEF DiagnosisInit, Init, Exact, Exchanging, Adoptions, Early
<1> QED BY <1>1, <1>2, <1>3 DEF OnlyOurs

\* At rest, with nobody else's hands, no row is broken and none is missing.
LEMMA NothingToReport ==
    ASSUME Holds, OnlyOurs, AtRest
    PROVE  Reported = {}
<1>1. ASSUME NEW d \in Rows
      PROVE  Owns(d) /\ live[d].to \in Profile /\ Backed(live[d].to, d)
  <2>1. d \in Dest /\ Owns(d)
    BY <1>1 DEF Rows, OwnedDests, OnlyOurs, Exact, AtRest
  <2> QED BY <2>1 DEF Owns, OnlyOurs, Linked, Target
<1>2. ASSUME NEW d \in Rows PROVE LinkFinding(d) = "intact" /\ d \notin Undeclared
  <2>1. Owns(d) /\ live[d].to \in Profile /\ Backed(live[d].to, d)
    BY <1>1, <1>2
  <2>2. live[d].to # Directory /\ live[d] # Nothing
    BY <2>1, TargetTypes DEF Target
  <2>3. live[d].to = ledger[d].to /\ live[d].ino = ledger[d].ino
    BY <2>1 DEF Owns
  <2> QED BY <2>1, <2>2, <2>3 DEF LinkFinding, Undeclared, Backed
<1>3. ASSUME NEW d \in Dest PROVE ~RestoredUnrecorded(d)
  <2>1. SUFFICES ASSUME d \notin Rows, IsLink(d) PROVE FALSE
    BY DEF RestoredUnrecorded
  <2>2. live[d].by = "ricepilot" /\ live[d].to \in Profile
    BY <2>1 DEF IsLink, OnlyOurs, Linked
  <2>3. Owns(d)
    BY <2>2 DEF Holds, Recorded, Unrecorded, AtRest
  <2>4. ledger[d].to \in Profile /\ NoRow.to \notin Profile
    BY <2>3, TargetTypes DEF Owns, Target
  <2> QED BY <2>1, <2>4 DEF Rows, OwnedDests
<1> QED BY <1>2, <1>3 DEF Reported, Broken, Undeclared

\* After an adopt that was interrupted the directory is in the attic, and a
\* switch takes the copy.
LEMMA AdoptedIsSafe ==
    ASSUME Holds, OnlyOurs, AtRest, NEW d \in Emptied
    PROVE  /\ adopted[d].attic
           /\ Relinkable(d)
           /\ d \notin Stoppers(adopted[d].into)
<1>1. d \in Dest /\ d \notin Rows /\ adopted[d] # NoAdopt /\ live[d] = Nothing
  BY DEF Emptied
<1>2. live[d].to = Nowhere /\ Nowhere # Directory /\ Nowhere \notin Target
  BY <1>1, TargetTypes DEF Nothing, Nowhere, Directory
<1>3. Shape(d) = "absent"
  BY <1>2 DEF Shape
<1>4. Backed(adopted[d].into, d) /\ adopted[d].attic
  BY <1>1, <1>2 DEF OnlyOurs, Adoptions, AtRest
<1> QED BY <1>3, <1>4 DEF Relinkable, Stoppers, Backed

\* On a machine that only ricepilot has changed doctor has nothing to complain
\* of at rest, and where an adopted path is empty its advice is good (D49).
THEOREM DoctorIsQuietAtRest == DiagnosisSpec => []DoctorIsQuiet
<1>1. DiagnosisInit => Holds /\ QuietInv
  BY HoldsInit, QuietInit DEF DiagnosisInit
<1>2. Holds /\ QuietInv /\ [DiagnosisNext]_<<vars, Evidence>> => Holds' /\ QuietInv'
  BY HoldsStep, QuietStep
<1>3. Holds /\ QuietInv => DoctorIsQuiet
  <2> SUFFICES ASSUME Holds, QuietInv, AtRest
               PROVE  /\ ~RescueUnreliable
                      /\ tampers = 0 =>
                            /\ Reported = {}
                            /\ \A d \in Emptied : /\ adopted[d].attic
                                                  /\ Relinkable(d)
                                                  /\ d \notin Stoppers(adopted[d].into)
    BY DEF DoctorIsQuiet
  <2>1. ~RescueUnreliable
    BY DEF RescueUnreliable, Holds, RescueInv, AtRest, NoGen
  <2>2. tampers = 0 => OnlyOurs
    BY DEF QuietInv
  <2> QED BY <2>1, <2>2, NothingToReport, AdoptedIsSafe
<1> QED BY <1>1, <1>2, <1>3, PTL DEF DiagnosisSpec

-----------------------------------------------------------------------------
(***************************************************************************)
(* A death anywhere settles to the same records                            *)
(***************************************************************************)

\* Other hands leave a current generation complete.
LEMMA HandsKeepCovered ==
    ASSUME Holds, Covered, Hands
    PROVE  Covered'
<1>1. /\ step = "free" /\ journal = NoJournal /\ touched' \subseteq Dest
      /\ UNCHANGED <<ledger, gens, current, journal, request, step, job>>
  BY HandsDo DEF Holds, OperationsInv
<1>2. ASSUME NEW d \in Dest, d \in touched'
      PROVE  \/ live'[d] = live[d] /\ d \in touched
             \/ live'[d] = Nothing
             \/ live'[d].ino # ledger[d].ino
  <2>1. CASE UNCHANGED <<live, touched>>
    BY <1>2, <2>1
  <2>2. CASE RunRescue
    <3>. DEFINE to == gens[rescue].entries
                puts == {e \in DOMAIN to : to[e] # Nowhere /\ live[e].to # Directory}
                parks == {e \in DOMAIN to :
                            to[e] = Nowhere /\ IsLink(e) /\ <<rescue, e>> \notin parked}
    <3>1. /\ live' = [e \in Dest |->
                        IF e \in puts
                        THEN [to |-> to[e], ino |-> Fresh(e), by |-> "script"]
                        ELSE IF e \in parks THEN Nothing ELSE live[e]]
          /\ touched' = touched \union puts \union parks
      BY <2>2, Zenon DEF RunRescue
    <3> HIDE DEF puts, parks
    <3> QED BY <1>2, <3>1, FreshType
  <2> QED BY <2>1, <2>2 DEF Hands, EditManifest, TakeSource
<1>3. Nothing.to \notin Profile
  BY TargetTypes DEF Target
<1>4. \A d \in touched' : ~Owns(d)'
  BY <1>1, <1>2, <1>3 DEF Covered, Owns
<1> QED BY <1>1, <1>4 DEF Covered, OwnedDests, Asked, Entries

Gone(changes) == {d \in DOMAIN changes : changes[d] = Nowhere}

\* What a process is about to record, and what a recover would after it, are
\* the rows and the paths that were promised when the journal was written.
Promised ==
    /\ \A p \in Proc : Asked(p) /\ request[p].ready =>
          request[p].retire = OwnedDests \ DOMAIN request[p].targets
    /\ step # "free" =>
          /\ job.retire = Gone(job.changes)
          /\ job.dests = OwnedDests \union DOMAIN job.changes
          /\ DOMAIN job.targets \subseteq job.dests
    /\ journal # NoJournal =>
          /\ promise.rows = (OwnedDests \union DOMAIN journal.changes) \ Gone(journal.changes)
          /\ promise.dests = OwnedDests \union DOMAIN journal.changes
          /\ Saved => Entries = promise.dests
    /\ step \in {"rescue", "finish"} =>
          /\ OwnedDests \intersect Gone(job.changes) = {}
          /\ DOMAIN job.changes \ Gone(job.changes) \subseteq OwnedDests

promised == <<ledger, gens, current, journal, promise>>

LEMMA PromisedStep ==
    ASSUME Holds, Covered, OnlyOurs, Promised, [Next]_vars
    PROVE  Promised'
<1>. USE DEF Holds, OperationsInv, Asked, Entries
<1>1. CASE UNCHANGED <<promised, request, step, job>>
  BY <1>1 DEF promised, Promised, OwnedDests, Saved, Gone
<1>2. ASSUME NEW p \in Proc, NEW k, NEW targets, Asks(p, k, targets) PROVE Promised'
  <2>1. /\ UNCHANGED <<promised, step, job>>
        /\ \A q \in Proc \ {p} : request'[q] = request[q]
        /\ request'[p].ready = FALSE
    BY <1>2 DEF Asks, promised, records, TypeOK
  <2> QED BY <2>1 DEF promised, Promised, OwnedDests, Saved, Gone
<1>3. ASSUME NEW p \in Proc, ReadLedger(p) PROVE Promised'
  <2>1. request[p] \in Request /\ UNCHANGED <<promised, step, job>>
    BY <1>3, RequestType DEF ReadLedger, promised, records
  <2>2. /\ request'[p].retire = OwnedDests \ DOMAIN request[p].targets
        /\ request'[p].targets = request[p].targets
        /\ \A q \in Proc \ {p} : request'[q] = request[q]
    BY <1>3, <2>1 DEF ReadLedger, Request, TypeOK
  <2> QED BY <2>1, <2>2 DEF promised, Promised, OwnedDests, Saved, Gone
<1>4. ASSUME NEW p \in Proc, GivesUp(p) PROVE Promised'
  <2>1. /\ UNCHANGED <<promised, step, job>>
        /\ \A q \in Proc : request'[q] # NoRequest => request'[q] = request[q]
    BY <1>4 DEF GivesUp, promised, records, TypeOK
  <2> QED BY <2>1 DEF promised, Promised, OwnedDests, Saved, Gone
<1>5. ASSUME NEW p \in Proc, Start(p) PROVE Promised'
  <2>. DEFINE r == request[p]
              c == Changes(r.targets, r.retire)
  <2>1. /\ UNCHANGED promised /\ r # NoRequest /\ r.ready /\ journal = NoJournal
        /\ ~Declines(r.targets, r.retire)
        /\ job'.targets = r.targets /\ job'.changes = c /\ job'.retire = r.retire
        /\ job'.dests = DOMAIN r.targets \union r.retire
        /\ step' \in {"before", "journal"} /\ request'[p] = NoRequest
        /\ \A q \in Proc \ {p} : request'[q] = request[q]
    BY <1>5 DEF Start, Begins, promised, records, TypeOK
  <2>2. r.retire = OwnedDests \ DOMAIN r.targets
    BY <2>1 DEF Promised
  <2>3. /\ r.targets \in Partial(Target) /\ DOMAIN r.targets \subseteq Dest
        /\ \A d \in DOMAIN r.targets : r.targets[d] \in Target
    BY <2>1, RequestType, PartialElim DEF Request
  <2>4. ASSUME NEW d \in r.retire PROVE Shape(d) = "owned"
    <3>1. d \in Dest /\ ledger[d] # NoRow
      BY <2>2, <2>4 DEF OwnedDests
    <3>2. Owns(d)
      BY <2>1, <3>1 DEF OnlyOurs, Exact
    <3> QED BY <3>1, <3>2, TargetTypes DEF Owns, Shape, Target
  <2>5. ASSUME NEW d \in DOMAIN r.targets, live[d].to = r.targets[d] PROVE d \in OwnedDests
    <3>1. d \in Dest /\ live[d].to \in Target /\ Shape(d) \in {"owned", "absent"}
      BY <2>1, <2>3, <2>5 DEF Declines
    <3>2. Owns(d)
      BY <3>1, ShapeMeans
    <3> QED BY <3>1, <3>2, TargetTypes DEF OwnedDests, Owns, NoRow
  <2>6. DOMAIN c = {d \in DOMAIN r.targets : live[d].to # r.targets[d]} \union r.retire
    BY <2>2, <2>4 DEF Changes
  <2>7. Gone(c) = r.retire
    <3>1. \A d \in DOMAIN c : c[d] = IF d \in DOMAIN r.targets THEN r.targets[d] ELSE Nowhere
      BY <2>2, <2>6 DEF Changes
    <3>2. \A d \in DOMAIN r.targets : r.targets[d] # Nowhere
      BY <2>3, TargetTypes
    <3> QED BY <2>2, <2>6, <3>1, <3>2 DEF Gone
  <2>8. /\ DOMAIN r.targets \union r.retire = OwnedDests \union DOMAIN c
    BY <2>2, <2>5, <2>6
  <2>9. OwnedDests' = OwnedDests
    BY <2>1 DEF promised, OwnedDests
  <2> HIDE DEF r, c
  <2> QED BY <2>1, <2>7, <2>8, <2>9 DEF promised, Promised
<1>6. ASSUME NEW d \in Dest, NEW a \in Profile, StartAdopt(d, a) PROVE Promised'
  <2>1. /\ UNCHANGED <<promised, request>> /\ journal = NoJournal
        /\ job'.targets = [e \in {d} |-> a] /\ job'.changes = [e \in {d} |-> a]
        /\ job'.dests = OwnedDests \union {d} /\ job'.retire = {} /\ step' = "copy"
    BY <1>6 DEF StartAdopt, Begins, promised, records
  <2>2. Gone([e \in {d} |-> a]) = {}
    BY TargetTypes DEF Gone, Target
  <2> QED BY <2>1, <2>2 DEF promised, Promised, OwnedDests
<1>7. CASE StartRecover
  <2>1. /\ UNCHANGED <<promised, request>> /\ journal # NoJournal
        /\ DOMAIN job'.targets \subseteq DOMAIN journal.changes
        /\ job'.changes = journal.changes
        /\ job'.dests = DOMAIN journal.changes \union OwnedDests
        /\ job'.retire = Gone(journal.changes)
    BY <1>7 DEF StartRecover, promised, records, Gone
  <2>2. step' \in {"cross", "abandon"}
    BY <1>7, Zenon DEF StartRecover
  <2> QED BY <2>1, <2>2 DEF promised, Promised, OwnedDests, Saved
<1>8. CASE CopyTree \/ Declare
  <2>1. /\ UNCHANGED <<promised, request, job>> /\ step # "free"
        /\ step' \in {"declare", "before", "journal"}
    BY <1>8 DEF CopyTree, Declare, promised, records
  <2> QED BY <2>1 DEF promised, Promised, OwnedDests, Saved, Gone
<1>9. CASE SaveFirst
  <2>1. /\ UNCHANGED <<ledger, current, journal, request, job>>
        /\ step # "free" /\ step' = "journal" /\ journal = NoJournal
    BY <1>9 DEF SaveFirst, InFlight, Early
  <2> QED BY <2>1 DEF Promised, OwnedDests
<1>10. CASE WriteJournal
  <2>1. /\ UNCHANGED <<ledger, gens, current, request, job>>
        /\ step = "journal" /\ step' = "cross" /\ journal'.id = job.id
        /\ journal'.changes = job.changes
        /\ promise'.rows = (OwnedDests \ job.retire) \union DOMAIN job.targets
        /\ promise'.dests = job.dests
    BY <1>10 DEF WriteJournal, records
  <2>2. ~Saved'
    <3>1. CASE current # NoGen
      <4>1. gens[current].id \in Int /\ gens[current].id < job.id /\ job.id \in Int
        BY <2>1, <3>1, JobType, CurrentIsThere DEF Numbering, Early
      <4> QED BY <2>1, <4>1 DEF Saved
    <3>2. CASE current = NoGen
      BY <2>1, <3>2 DEF Saved
    <3> QED BY <3>1, <3>2
  <2>3. /\ job.retire = Gone(job.changes) /\ job.dests = OwnedDests \union DOMAIN job.changes
        /\ DOMAIN job.targets \subseteq job.dests
        /\ job.retire \intersect DOMAIN job.targets = {}
        /\ DOMAIN job.changes \ Gone(job.changes) \subseteq DOMAIN job.targets
    BY <2>1 DEF Promised, Planned, Gone
  <2>4. (OwnedDests \ job.retire) \union DOMAIN job.targets =
           (OwnedDests \union DOMAIN job.changes) \ Gone(job.changes)
    BY <2>3
  <2>5. OwnedDests' = OwnedDests
    BY <2>1 DEF OwnedDests
  <2> QED BY <2>1, <2>2, <2>3, <2>4, <2>5 DEF Promised
<1>11. CASE SaveGeneration
  <2>1. /\ UNCHANGED <<ledger, current, journal, promise, request, job>>
        /\ step = "cross" /\ step' = "point" /\ journal # NoJournal
        /\ job.new = NextGen
        /\ gens' = [g \in DOMAIN gens \union {job.new} |->
                      IF g = job.new THEN [id |-> job.id, entries |-> Topology(job.dests)]
                      ELSE gens[g]]
    BY <1>11 DEF SaveGeneration, InFlight, Late, Numbering
  <2>2. current # NoGen => gens'[current] = gens[current]
    BY <2>1, CurrentIsThere DEF NextGen
  <2>3. Saved' <=> Saved
    BY <2>1, <2>2 DEF Saved
  <2>4. Saved => Entries' = Entries
    BY <2>1, <2>2 DEF Saved
  <2> QED BY <2>1, <2>3, <2>4 DEF Promised, OwnedDests
<1>12. CASE FindGeneration
  <2>1. /\ UNCHANGED <<promised, request>> /\ step = "cross" /\ step' = "record"
        /\ job' = [job EXCEPT !.new = current] /\ job \in Job
    BY <1>12, JobType DEF FindGeneration, promised, records
  <2>2. /\ job'.targets = job.targets /\ job'.changes = job.changes
        /\ job'.dests = job.dests /\ job'.retire = job.retire
    BY <2>1 DEF Job
  <2> QED BY <2>1, <2>2 DEF promised, Promised, OwnedDests, Saved
<1>13. CASE SetCurrent
  <2>1. /\ UNCHANGED <<ledger, gens, journal, promise, request, job>>
        /\ step = "point" /\ step' = "record" /\ current' = job.new
        /\ journal # NoJournal /\ journal.changes = job.changes
    BY <1>13 DEF SetCurrent, InFlight, Late
  <2>2. DOMAIN gens[job.new].entries = job.dests
    BY <2>1 DEF Covered
  <2> QED BY <2>1, <2>2 DEF Promised, OwnedDests
<1>14. CASE SaveLedger
  <2>1. /\ UNCHANGED <<gens, current, journal, promise, request, job>>
        /\ step = "record" /\ step' = "rescue" /\ journal # NoJournal
        /\ journal.changes = job.changes
        /\ \A d \in DOMAIN job.targets : live[d].to \in Target
        /\ ledger' = [d \in Dest |->
                        IF d \in job.retire THEN NoRow
                        ELSE IF d \in DOMAIN job.targets
                        THEN [to |-> live[d].to, ino |-> live[d].ino]
                        ELSE ledger[d]]
    BY <1>14 DEF SaveLedger, InFlight, Late
  <2>2. /\ job.retire = Gone(job.changes) /\ job.dests = OwnedDests \union DOMAIN job.changes
        /\ DOMAIN job.targets \subseteq job.dests /\ DOMAIN job.targets \subseteq Dest
        /\ job.retire \intersect DOMAIN job.targets = {}
        /\ DOMAIN job.changes \ Gone(job.changes) \subseteq DOMAIN job.targets
    BY <2>1, JobType, PartialElim DEF Promised, Planned, Gone
  <2>3. OwnedDests' = (OwnedDests \ job.retire) \union DOMAIN job.targets
    BY <2>1, <2>2, TargetTypes DEF OwnedDests, NoRow
  <2>4. Gone(job.changes) \subseteq DOMAIN job.changes
    BY DEF Gone
  <2>5. OwnedDests' \union DOMAIN job.changes = OwnedDests \union DOMAIN job.changes
    BY <2>2, <2>3, <2>4
  <2>6. \A p \in Proc : request[p] = NoRequest
    BY <2>1 DEF Covered
  <2> QED BY <2>1, <2>2, <2>3, <2>5, <2>6 DEF Promised, Saved
<1>15. CASE WriteRescue
  <2>1. UNCHANGED <<promised, request, job>> /\ step = "rescue" /\ step' = "finish"
    BY <1>15 DEF WriteRescue, promised
  <2> QED BY <2>1 DEF promised, Promised, OwnedDests, Saved
<1>16. CASE MarkDone
  <2>1. /\ UNCHANGED <<ledger, gens, current, request>> /\ journal' = NoJournal /\ step' = "free"
    BY <1>16 DEF MarkDone, Releases, records
  <2> QED BY <2>1 DEF Promised, OwnedDests
<1>17. CASE DeclareFails \/ Stop
  <2>1. UNCHANGED <<promised, request>> /\ step' = "free"
    BY <1>17 DEF DeclareFails, Stop, Releases, promised, records
  <2> QED BY <2>1 DEF promised, Promised, OwnedDests, Saved
<1>18. ASSUME NEW d \in Dest, Cross(d) PROVE Promised'
  BY <1>1, <1>18 DEF Cross, promised, records
<1>19. ASSUME NEW d \in Dest, NEW to, Tamper(d, to) PROVE Promised'
  BY <1>1, <1>19 DEF Tamper, promised, records
<1> QED
  BY <1>1, <1>2, <1>3, <1>4, <1>5, <1>6, <1>7, <1>8, <1>9, <1>10, <1>11, <1>12, <1>13,
     <1>14, <1>15, <1>16, <1>17, <1>18, <1>19
     DEF Next, Works, AskSwitch, AskRollback, vars, records, promised

LEMMA CoveredHereToo ==
    ASSUME SideBySide = FALSE, Holds, Holds', Covered, [DiagnosisNext]_<<vars, Evidence>>
    PROVE  Covered'
<1>1. CASE Hands
  BY <1>1, HandsKeepCovered
<1>2. CASE [Next]_vars
  BY <1>2, CoveredStep DEF Holds
<1> QED BY <1>1, <1>2 DEF DiagnosisNext

\* "A crash at any point after the exchanges ... settles to the same records"
\* (D77), when one command runs at a time and nobody else changes a path.
THEOREM SettlesAsPromised ==
    ASSUME SideBySide = FALSE
    PROVE  DiagnosisSpec => AloneAsPromised
<1>. DEFINE Inv == Holds /\ Covered /\ QuietInv /\ (tampers = 0 => Promised)
<1>1. DiagnosisInit => Inv
  <2>1. Init => Covered /\ Promised
    BY DEF Init, Covered, OwnedDests, Owns, Asked, Promised
  <2> QED BY <2>1, HoldsInit, QuietInit DEF DiagnosisInit
<1>2. Inv /\ [DiagnosisNext]_<<vars, Evidence>> => Inv'
  <2> SUFFICES ASSUME Inv, [DiagnosisNext]_<<vars, Evidence>>
               PROVE  Inv'
    OBVIOUS
  <2>1. Holds' /\ QuietInv'
    BY HoldsStep, QuietStep
  <2>2. Covered'
    BY <2>1, CoveredHereToo
  <2>3. ASSUME tampers' = 0 PROVE Promised'
    BY <2>3, Counted, PromisedStep DEF Holds, OperationsInv, QuietInv
  <2> QED BY <2>1, <2>2, <2>3
<1>3. Inv => [tampers = 0 => AsPromised]_vars
  <2> SUFFICES ASSUME Inv, tampers = 0, step = "finish", step' = "free"
               PROVE  OwnedDests = promise.rows /\ Entries = promise.dests
    BY DEF AsPromised, Entries
  <2>1. journal # NoJournal /\ journal.changes = job.changes /\ Saved
    BY DEF Holds, OperationsInv, InFlight, Late, Truth
  <2> QED BY <2>1 DEF Promised
<1> HIDE DEF Inv
<1>4. DiagnosisSpec => []Inv
  BY <1>1, <1>2, PTL DEF DiagnosisSpec
<1> QED BY <1>3, <1>4, PTL DEF AloneAsPromised

-----------------------------------------------------------------------------
(***************************************************************************)
(* rescue.sh is answered                                                   *)
(***************************************************************************)

Plain == job.kind \in {"switch", "rollback"}
InPlace == step \in {"rescue", "finish"}

\* What the paths of a plan are there for.
Meant ==
    /\ step = "abandon" => job.kind = "recover"
    /\ step # "free" =>
          /\ Plain => job.dests = DOMAIN job.targets \union job.retire
          /\ job.dests \subseteq OwnedDests \union DOMAIN job.changes \union job.retire
          /\ DOMAIN job.targets \subseteq OwnedDests \union DOMAIN job.changes
          /\ \A d \in DOMAIN job.changes : job.changes[d] # Nowhere =>
                d \in DOMAIN job.targets /\ job.targets[d] = job.changes[d]
          /\ \A d \in DOMAIN job.targets \ DOMAIN job.changes : live[d].to = job.targets[d]

\* Every step keeps to the plan.
LEMMA MeantStep ==
    ASSUME Holds, Meant, [Next]_vars
    PROVE  Meant'
<1>. USE DEF Holds, OperationsInv, Plain
<1>1. CASE UNCHANGED <<live, ledger, job>> /\ (step' = "abandon" => step = "abandon")
           /\ (step' # "free" => step # "free")
  BY <1>1 DEF Meant, OwnedDests
<1>2. ASSUME NEW p \in Proc, Start(p) PROVE Meant'
  <2>. DEFINE r == request[p]
              c == Changes(r.targets, r.retire)
  <2>1. /\ UNCHANGED <<live, ledger>> /\ r # NoRequest
        /\ ~Declines(r.targets, r.retire)
        /\ job'.targets = r.targets /\ job'.changes = c /\ job'.retire = r.retire
        /\ job'.dests = DOMAIN r.targets \union r.retire
        /\ step' \in {"before", "journal"}
    BY <1>2 DEF Start, Begins, records
  <2>2. /\ DOMAIN r.targets \subseteq Dest
        /\ \A d \in DOMAIN r.targets : r.targets[d] \in Target
    BY <2>1, RequestType, PartialElim DEF Request
  <2>3. ASSUME NEW d \in DOMAIN r.targets, live[d].to = r.targets[d] PROVE d \in OwnedDests
    <3>1. d \in Dest /\ live[d].to \in Target /\ Shape(d) \in {"owned", "absent"}
      BY <2>1, <2>2, <2>3 DEF Declines
    <3>2. Owns(d)
      BY <3>1, ShapeMeans
    <3> QED BY <3>1, <3>2, TargetTypes DEF OwnedDests, Owns, NoRow
  <2>4. /\ {d \in DOMAIN r.targets : live[d].to # r.targets[d]} \subseteq DOMAIN c
        /\ \A d \in DOMAIN c : c[d] # Nowhere => d \in DOMAIN r.targets /\ r.targets[d] = c[d]
    BY DEF Changes
  <2>5. OwnedDests' = OwnedDests
    BY <2>1 DEF OwnedDests
  <2>6. DOMAIN r.targets \subseteq OwnedDests \union DOMAIN c
    BY <2>3, <2>4
  <2>7. \A d \in DOMAIN r.targets \ DOMAIN c : live[d].to = r.targets[d]
    BY <2>4
  <2> HIDE DEF r, c
  <2> QED BY <2>1, <2>4, <2>5, <2>6, <2>7 DEF Meant
<1>3. ASSUME NEW d \in Dest, NEW a \in Profile, StartAdopt(d, a) PROVE Meant'
  <2>1. /\ UNCHANGED <<live, ledger>> /\ job'.kind = "adopt"
        /\ job'.targets = [e \in {d} |-> a] /\ job'.changes = [e \in {d} |-> a]
        /\ job'.dests = OwnedDests \union {d} /\ step' = "copy"
    BY <1>3 DEF StartAdopt, Begins, records
  <2> QED BY <2>1 DEF Meant, OwnedDests
<1>4. CASE StartRecover
  <2>1. /\ UNCHANGED <<live, ledger>> /\ job'.kind = "recover"
        /\ job'.changes = journal.changes
        /\ job'.targets = [d \in DOMAIN journal.changes
                              \ {d \in DOMAIN journal.changes : journal.changes[d] = Nowhere}
                                |-> journal.changes[d]]
        /\ job'.dests = DOMAIN journal.changes \union OwnedDests
    BY <1>4 DEF StartRecover, records
  <2> QED BY <2>1 DEF Meant, OwnedDests
<1>5. ASSUME NEW d \in Dest, Cross(d) PROVE Meant'
  <2>1. /\ UNCHANGED <<ledger, job, step>> /\ step = "cross" /\ d \in DOMAIN job.changes
        /\ \A e \in Dest \ {d} : live'[e] = live[e]
    BY <1>5, CrossDoes DEF records
  <2>2. DOMAIN job.targets \subseteq Dest
    BY <2>1, JobType, PartialElim
  <2> QED BY <2>1, <2>2 DEF Meant, OwnedDests
<1>6. CASE FindGeneration
  <2>1. /\ UNCHANGED <<live, ledger>> /\ step = "cross" /\ step' = "record"
        /\ job' = [job EXCEPT !.new = current] /\ job \in Job
    BY <1>6, JobType DEF FindGeneration, records
  <2>2. /\ job'.targets = job.targets /\ job'.changes = job.changes /\ job'.kind = job.kind
        /\ job'.dests = job.dests /\ job'.retire = job.retire
    BY <2>1 DEF Job
  <2> QED BY <2>1, <2>2 DEF Meant, OwnedDests
<1>7. CASE SaveLedger
  <2>1. /\ UNCHANGED <<live, job>> /\ step = "record" /\ step' = "rescue"
        /\ \A d \in DOMAIN job.targets : live[d].to \in Target
        /\ ledger' = [d \in Dest |->
                        IF d \in job.retire THEN NoRow
                        ELSE IF d \in DOMAIN job.targets
                        THEN [to |-> live[d].to, ino |-> live[d].ino]
                        ELSE ledger[d]]
    BY <1>7 DEF SaveLedger
  <2>2. DOMAIN job.targets \subseteq Dest /\ job.retire \intersect DOMAIN job.targets = {}
    BY <2>1, JobType, PartialElim DEF Planned
  <2>3. OwnedDests' = (OwnedDests \ job.retire) \union DOMAIN job.targets
    BY <2>1, <2>2, TargetTypes DEF OwnedDests, NoRow
  <2> QED BY <2>1, <2>3 DEF Meant
<1>8. CASE MarkDone \/ DeclareFails \/ Stop
  <2>1. step' = "free"
    BY <1>8 DEF MarkDone, DeclareFails, Stop, Releases
  <2> QED BY <2>1 DEF Meant
<1>9. ASSUME NEW d \in Dest, NEW to, Tamper(d, to) PROVE Meant'
  <2>1. step' = "free"
    BY <1>9 DEF Tamper, Unlocked
  <2> QED BY <2>1 DEF Meant
<1>10. CASE CopyTree \/ Declare \/ SaveFirst \/ WriteJournal \/ SaveGeneration \/ SetCurrent
            \/ WriteRescue
  BY <1>1, <1>10 DEF CopyTree, Declare, SaveFirst, WriteJournal, SaveGeneration, SetCurrent,
     WriteRescue, records
<1> QED
  BY <1>1, <1>2, <1>3, <1>4, <1>5, <1>6, <1>7, <1>8, <1>9, <1>10 DEF Next, Works, AskSwitch,
     AskRollback, Asks, ReadLedger, GivesUp, vars, records

\* The path is one of the generation that the operation at hand began with.
InBase(d) ==
    IF journal # NoJournal /\ Saved THEN d \in DOMAIN gens[current - 1].entries
    ELSE current # NoGen /\ d \in Entries

\* A generation that is being written is none of those that are there.
LEMMA OldOnesStay ==
    ASSUME Holds, [Next]_vars, current # NoGen
    PROVE  /\ gens'[current] = gens[current]
           /\ gens'[current - 1] = gens[current - 1]
<1>. USE DEF Holds, OperationsInv
<1>1. /\ current \in Int /\ current > 0 /\ {current - 1, current} \subseteq DOMAIN gens
  BY CurrentIsThere DEF Numbering
<1>2. CASE SaveFirst
  BY <1>2 DEF SaveFirst, Numbering
<1>3. CASE SaveGeneration
  <2>1. /\ job.new = current + 1
        /\ gens' = [g \in DOMAIN gens \union {job.new} |->
                      IF g = job.new THEN [id |-> job.id, entries |-> Topology(job.dests)]
                      ELSE gens[g]]
    BY <1>3 DEF SaveGeneration, Numbering, NextGen
  <2> QED BY <1>1, <2>1
<1> QED
  BY <1>2, <1>3 DEF Next, Works, AskSwitch, AskRollback, Asks, ReadLedger, GivesUp, Start,
     StartAdopt, StartRecover, CopyTree, Declare, WriteJournal, Cross, FindGeneration,
     SetCurrent, SaveLedger, WriteRescue, MarkDone, DeclareFails, Stop, Tamper, vars, records

\* The generation an operation has written is not taken for saved before it
\* is the current one.
LEMMA SavedByThePointer ==
    ASSUME Holds, [Next]_vars
    PROVE  /\ WriteJournal => ~Saved'
           /\ journal' = journal /\ current' = current => (Saved' <=> Saved)
           /\ SetCurrent => ~Saved /\ Saved'
<1>. USE DEF Holds, OperationsInv
<1>1. ASSUME WriteJournal PROVE ~Saved'
  <2>1. step = "journal" /\ journal'.id = job.id /\ UNCHANGED <<gens, current>>
    BY <1>1 DEF WriteJournal, records
  <2>2. CASE current # NoGen
    <3>1. gens[current].id \in Int /\ gens[current].id < job.id /\ job.id \in Int
      BY <2>1, <2>2, JobType, CurrentIsThere DEF Numbering, Early
    <3> QED BY <2>1, <3>1 DEF Saved
  <2>3. CASE current = NoGen
    BY <2>1, <2>3 DEF Saved
  <2> QED BY <2>2, <2>3
<1>2. ASSUME journal' = journal, current' = current PROVE Saved' <=> Saved
  BY <1>2, OldOnesStay DEF Saved
<1>3. ASSUME SetCurrent PROVE ~Saved /\ Saved'
  <2>1. /\ step = "point" /\ current' = job.new /\ UNCHANGED <<gens, journal>>
        /\ journal.id = job.id /\ gens[job.new].id = job.id
        /\ current # NoGen => gens[current].id < job.id
    BY <1>3 DEF SetCurrent, InFlight, Late, Numbering
  <2>2. job.new # NoGen /\ job.id \in Int
    BY <2>1, JobType DEF NoGen
  <2>3. current # NoGen => gens[current].id \in Int
    BY CurrentIsThere
  <2> QED BY <2>1, <2>2, <2>3 DEF Saved
<1> QED BY <1>1, <1>2, <1>3

\* What an operation began with it keeps, until it retires its journal.
LEMMA BaseStays ==
    ASSUME Holds, [Next]_vars, ~MarkDone, NEW d, InBase(d)
    PROVE  InBase(d)'
<1>. USE DEF Holds, OperationsInv, Entries
<1>1. CASE WriteJournal
  <2>1. journal = NoJournal /\ UNCHANGED <<gens, current>> /\ ~Saved'
    BY <1>1, SavedByThePointer DEF WriteJournal, InFlight, Early, records
  <2> QED BY <2>1 DEF InBase
<1>2. CASE SetCurrent
  <2>1. /\ current' = NextGen /\ UNCHANGED <<gens, journal>> /\ journal # NoJournal
        /\ ~Saved /\ Saved'
    BY <1>2, SavedByThePointer DEF SetCurrent, Numbering, InFlight, Late
  <2>2. current # NoGen /\ d \in Entries /\ current \in Int
    BY <2>1, CurrentIsThere DEF InBase
  <2>3. current' - 1 = current
    BY <2>1, <2>2 DEF NextGen
  <2> QED BY <2>1, <2>2, <2>3 DEF InBase
<1>3. CASE UNCHANGED <<current, journal>>
  <2>1. Saved' <=> Saved
    BY <1>3, SavedByThePointer
  <2>2. current # NoGen
    BY DEF InBase, Saved
  <2> QED BY <1>3, <2>1, <2>2, OldOnesStay DEF InBase
<1> QED
  BY <1>1, <1>2, <1>3 DEF Next, Works, AskSwitch, AskRollback, Asks, ReadLedger, GivesUp, Start,
     StartAdopt, StartRecover, Begins, CopyTree, Declare, SaveFirst, SaveGeneration, Cross,
     FindGeneration, SaveLedger, WriteRescue, DeclareFails, Stop, Tamper, vars, records

\* A link in a generation has a row once the operation has written the
\* ledger, so the generation after it has the path as well.
Kept ==
    /\ current # NoGen =>
          \A d \in DOMAIN gens[current - 1].entries :
              gens[current - 1].entries[d] \in Target => d \in Entries
    /\ current # NoGen /\ ~(journal # NoJournal /\ Saved) =>
          \A d \in Entries : gens[current].entries[d] \in Target => d \in OwnedDests
    /\ journal # NoJournal /\ Saved =>
          /\ touched \intersect Entries = {}
          /\ \A d \in Entries : gens[current].entries[d] \in Target =>
                d \in OwnedDests \union DOMAIN journal.changes
    /\ InPlace =>
          \A d \in Entries : gens[current].entries[d] \in Target => d \in OwnedDests
    /\ current = NoGen /\ 0 \in DOMAIN gens =>
          \A d \in DOMAIN gens[0].entries : gens[0].entries[d] \notin Target
    /\ current = NoGen /\ step \in Early =>
          \A d \in job.dests : live[d].to \notin Target

kept == <<ledger, gens, current, journal>>

LEMMA KeptStep ==
    ASSUME Holds, Covered, Meant, Kept, [Next]_vars
    PROVE  Kept'
<1>. USE DEF Holds, OperationsInv, Entries
<1>1. CASE UNCHANGED <<kept, touched>> /\ (InPlace' => InPlace) /\ step' \notin Early
  BY <1>1 DEF kept, Kept, OwnedDests, Saved
<1>2. CASE UNCHANGED <<kept, live, job>> /\ journal = NoJournal /\ ~InPlace'
           /\ (step' \in Early => step \in Early)
  BY <1>2 DEF kept, Kept, OwnedDests, Saved
<1>3. ASSUME NEW p \in Proc, Start(p) PROVE Kept'
  <2>. DEFINE r == request[p]
  <2>1. /\ UNCHANGED <<kept, live>> /\ journal = NoJournal /\ r # NoRequest
        /\ ~Declines(r.targets, r.retire) /\ step' \in {"before", "journal"}
        /\ job'.dests = DOMAIN r.targets \union r.retire
    BY <1>3 DEF Start, Begins, kept, records
  <2>2. r.retire \subseteq Dest /\ DOMAIN r.targets \subseteq Dest
    BY <2>1, RequestType, PartialElim DEF Request
  <2>3. ASSUME current = NoGen, NEW d \in job'.dests PROVE live[d].to \notin Target
    <3>1. d \in Dest /\ Shape(d) \in {"owned", "absent"}
      BY <2>1, <2>2, <2>3 DEF Declines
    <3>2. ledger[d] = NoRow
      BY <2>3, <3>1 DEF Covered, OwnedDests
    <3>3. ~Owns(d)
      BY <3>2, TargetTypes DEF Owns, NoRow, Target
    <3>4. live[d] = Nothing
      BY <3>1, <3>3, ShapeMeans
    <3> QED BY <3>4, TargetTypes
  <2> HIDE DEF r
  <2> QED BY <2>1, <2>3 DEF kept, Kept, OwnedDests, InPlace
<1>4. ASSUME NEW d \in Dest, NEW a \in Profile, StartAdopt(d, a) PROVE Kept'
  <2>1. /\ UNCHANGED <<kept, live>> /\ journal = NoJournal /\ step' = "copy"
        /\ Shape(d) = "realdir" /\ job'.dests = OwnedDests \union {d}
    BY <1>4 DEF StartAdopt, Begins, kept, records
  <2>2. live[d].to \notin Target
    BY <2>1, ShapeMeans, TargetTypes
  <2>3. current = NoGen => OwnedDests = {}
    BY DEF Covered
  <2> QED BY <2>1, <2>2, <2>3 DEF kept, Kept, OwnedDests, InPlace
<1>5. CASE SaveFirst
  <2>1. /\ UNCHANGED <<live, ledger, current, journal, job>> /\ journal = NoJournal
        /\ step = "before" /\ step' = "journal" /\ current = NoGen
        /\ gens'[0].entries = Topology(job.dests)
    BY <1>5 DEF SaveFirst, InFlight, Early, Numbering
  <2>2. \A d \in job.dests : live[d].to \notin Target /\ Topology(job.dests)[d] = Nowhere
    BY <2>1 DEF Kept, Early, Topology
  <2>3. DOMAIN Topology(job.dests) = job.dests
    BY DEF Topology
  <2> QED BY <2>1, <2>2, <2>3, TargetTypes DEF Kept, InPlace
<1>6. CASE WriteJournal
  <2>1. /\ UNCHANGED <<ledger, gens, current>> /\ journal = NoJournal /\ step' = "cross"
        /\ ~Saved'
    BY <1>6, SavedByThePointer DEF WriteJournal, InFlight, Early, records
  <2> QED BY <2>1 DEF Kept, OwnedDests, InPlace, Early
<1>7. CASE SaveGeneration
  <2>1. /\ UNCHANGED <<ledger, current, journal>> /\ step' = "point"
        /\ touched' \subseteq touched /\ job.new # 0
        /\ gens' = [g \in DOMAIN gens \union {job.new} |->
                      IF g = job.new THEN [id |-> job.id, entries |-> Topology(job.dests)]
                      ELSE gens[g]]
    BY <1>7, JobType DEF SaveGeneration
  <2>2. Saved' <=> Saved
    BY <2>1, SavedByThePointer
  <2>3. current # NoGen => gens'[current] = gens[current] /\ gens'[current - 1] = gens[current - 1]
    BY OldOnesStay
  <2>4. 0 \in DOMAIN gens' => 0 \in DOMAIN gens /\ gens'[0] = gens[0]
    BY <2>1
  <2>5. Saved => current # NoGen
    BY DEF Saved
  <2> QED BY <2>1, <2>2, <2>3, <2>4, <2>5 DEF Kept, OwnedDests, InPlace, Early
<1>8. CASE SetCurrent
  <2>1. /\ UNCHANGED <<live, ledger, gens, journal, touched, job>> /\ step = "point"
        /\ step' = "record" /\ current' = job.new /\ job.new = NextGen /\ journal # NoJournal
        /\ ~Saved /\ Saved' /\ journal.changes = job.changes /\ job.new - 1 \in DOMAIN gens
    BY <1>8, SavedByThePointer DEF SetCurrent, Numbering, InFlight, Late
  <2>2. /\ DOMAIN gens[job.new].entries = job.dests /\ touched \intersect job.dests = {}
        /\ OwnedDests \subseteq job.dests /\ TrueOf(job.new)
    BY <2>1 DEF Covered, Truth
  <2>3. current # NoGen => job.new - 1 = current
    BY <2>1, CurrentIsThere DEF NextGen
  <2>4. current = NoGen => job.new - 1 = 0
    BY <2>1 DEF NextGen
  <2>5. ASSUME NEW d \in DOMAIN gens[job.new - 1].entries,
               gens[job.new - 1].entries[d] \in Target
        PROVE  d \in job.dests
    <3>1. CASE current # NoGen
      BY <2>1, <2>2, <2>3, <2>5, <3>1 DEF Kept
    <3>2. CASE current = NoGen
      BY <2>1, <2>4, <2>5, <3>2 DEF Kept
    <3> QED BY <3>1, <3>2
  <2>6. ASSUME NEW d \in job.dests, gens[job.new].entries[d] \in Target
        PROVE  d \in OwnedDests \union DOMAIN job.changes
    <3>1. live[d] # Nothing
      BY <2>2, <2>6, TargetTypes DEF TrueOf, Topology, Nothing
    <3>2. d \notin job.retire \ DOMAIN job.changes
      BY <2>1, <3>1 DEF Planned
    <3> QED BY <2>1, <3>2 DEF Meant
  <2>7. current' # NoGen
    BY <2>1, JobType DEF NoGen
  <2> QED BY <2>1, <2>2, <2>5, <2>6, <2>7 DEF Kept, OwnedDests, InPlace, Early
<1>9. CASE SaveLedger
  <2>1. /\ UNCHANGED <<live, gens, current, journal, touched, job>> /\ step = "record"
        /\ step' = "rescue" /\ journal # NoJournal /\ journal.changes = job.changes
        /\ \A d \in DOMAIN job.targets : live[d].to \in Target
        /\ ledger' = [d \in Dest |->
                        IF d \in job.retire THEN NoRow
                        ELSE IF d \in DOMAIN job.targets
                        THEN [to |-> live[d].to, ino |-> live[d].ino]
                        ELSE ledger[d]]
        /\ AllCrossed /\ Saved
    BY <1>9 DEF SaveLedger, InFlight, Late, Truth
  <2>2. DOMAIN job.targets \subseteq Dest /\ job.retire \intersect DOMAIN job.targets = {}
    BY <2>1, JobType, PartialElim DEF Planned
  <2>3. OwnedDests' = (OwnedDests \ job.retire) \union DOMAIN job.targets
    BY <2>1, <2>2, TargetTypes DEF OwnedDests, NoRow
  <2>4. ASSUME NEW d \in Entries, gens[current].entries[d] \in Target
        PROVE  d \in OwnedDests'
    <3>1. touched \intersect Entries = {} /\ TrueOf(current) /\ current # NoGen
      BY <2>1 DEF Kept, Truth, Saved
    <3>2. live[d].to \in Target
      BY <2>4, <3>1, TargetTypes DEF TrueOf, Topology
    <3>3. d \notin job.retire \ DOMAIN job.changes
      BY <2>1, <3>2, TargetTypes DEF Planned
    <3>4. d \in DOMAIN job.changes => d \in DOMAIN job.targets
      BY <2>1, <3>2, TargetTypes DEF AllCrossed, Planned
    <3>5. d \in OwnedDests \union DOMAIN job.changes
      BY <2>1, <2>4 DEF Kept
    <3> QED BY <2>3, <3>3, <3>4, <3>5
  <2>5. current # NoGen
    BY <2>1 DEF Saved
  <2>6. Saved'
    BY <2>1, SavedByThePointer
  <2> QED BY <2>1, <2>4, <2>5, <2>6 DEF Kept, Early
<1>10. CASE WriteRescue
  <2>1. UNCHANGED <<kept, touched>> /\ step = "rescue" /\ step' = "finish"
    BY <1>10 DEF WriteRescue, kept
  <2> QED BY <1>1, <2>1 DEF InPlace, Early
<1>11. CASE MarkDone
  <2>1. /\ UNCHANGED <<ledger, gens, current>> /\ journal' = NoJournal /\ step' = "free"
        /\ step \in {"finish", "abandon"} /\ journal # NoJournal
    BY <1>11 DEF MarkDone, Releases, records, InFlight, Late
  <2>2. step = "abandon" => ~Saved
    BY <2>1 DEF Truth, InFlight
  <2> QED BY <2>1, <2>2 DEF Kept, OwnedDests, InPlace, Early
<1>12. CASE StartRecover
  <2>1. UNCHANGED <<kept, touched>> /\ step' \in {"cross", "abandon"}
    BY <1>12, Zenon DEF StartRecover, kept, records
  <2> QED BY <1>1, <2>1 DEF InPlace, Early
<1>13. ASSUME NEW d \in Dest, Cross(d) PROVE Kept'
  BY <1>1, <1>13 DEF Cross, kept, records, InPlace, Early
<1>14. CASE FindGeneration
  BY <1>1, <1>14 DEF FindGeneration, kept, records, InPlace, Early
<1>15. CASE CopyTree \/ Declare
  BY <1>2, <1>15 DEF CopyTree, Declare, kept, records, InPlace, Early, InFlight
<1>16. CASE DeclareFails \/ Stop
  BY <1>1, <1>16 DEF DeclareFails, Stop, Releases, kept, records, InPlace, Early
<1>17. ASSUME NEW d \in Dest, NEW to, Tamper(d, to) PROVE Kept'
  <2>1. UNCHANGED kept /\ journal = NoJournal /\ step' = "free"
    BY <1>17 DEF Tamper, Unlocked, kept, records
  <2> QED BY <2>1 DEF kept, Kept, OwnedDests, InPlace, Early
<1>18. CASE UNCHANGED <<kept, live, job, step, touched>>
  BY <1>18 DEF kept, Kept, OwnedDests, Saved, InPlace
<1> QED
  BY <1>3, <1>4, <1>5, <1>6, <1>7, <1>8, <1>9, <1>10, <1>11, <1>12, <1>13, <1>14, <1>15, <1>16,
     <1>17, <1>18 DEF Next, Works, AskSwitch, AskRollback, Asks, ReadLedger, GivesUp, vars,
     records, kept

\* Links out of the profiles come back from a generation only, and a row of
\* one is of a path that the generation before has as well.
Outside ==
    /\ \A p \in Proc : Asked(p) =>
          \A d \in DOMAIN request[p].targets :
              request[p].targets[d] = Elsewhere => InBase(d)
    /\ step # "free" =>
          \A d \in DOMAIN job.targets : job.targets[d] = Elsewhere => InBase(d)
    /\ journal # NoJournal =>
          \A d \in DOMAIN journal.changes : journal.changes[d] = Elsewhere => InBase(d)
    /\ \A d \in Dest : ledger[d].to = Elsewhere =>
          current # NoGen /\ d \in DOMAIN gens[current - 1].entries

LEMMA OutsideStep ==
    ASSUME Holds, Covered, Covered', Meant, Kept, Outside, [Next]_vars
    PROVE  Outside'
<1>. USE DEF Holds, OperationsInv, Asked
<1>a. ASSUME ~MarkDone, NEW d, InBase(d) PROVE InBase(d)'
  BY <1>a, BaseStays
<1>b. Elsewhere \notin Profile /\ Elsewhere \in Target /\ NoRow.to # Elsewhere
  BY SetsAssumption, TargetTypes DEF Target
<1>c. ASSUME UNCHANGED <<ledger, current>>
      PROVE  \A d \in Dest : ledger'[d].to = Elsewhere =>
                current' # NoGen /\ d \in DOMAIN gens'[current' - 1].entries
  BY <1>c, OldOnesStay DEF Outside
<1>1. CASE UNCHANGED <<request, journal, job>> /\ UNCHANGED <<ledger, current>>
           /\ (step' # "free" => step # "free") /\ ~MarkDone
  BY <1>a, <1>c, <1>1 DEF Outside
<1>2. ASSUME NEW p \in Proc, NEW k, NEW targets, Asks(p, k, targets),
             \A d \in DOMAIN targets : targets[d] = Elsewhere => InBase(d)
      PROVE  Outside'
  <2>1. /\ UNCHANGED <<ledger, gens, current, journal, job, step>> /\ ~MarkDone
        /\ request'[p].targets = targets
        /\ \A q \in Proc \ {p} : request'[q] = request[q]
    BY <1>2 DEF Asks, MarkDone, Releases, records, TypeOK
  <2> QED BY <1>a, <1>c, <1>2, <2>1 DEF Outside
<1>3. ASSUME NEW p \in Proc, NEW a \in Profile, AskSwitch(p, a) PROVE Outside'
  BY <1>2, <1>3, <1>b DEF AskSwitch
<1>4. ASSUME NEW p \in Proc, AskRollback(p) PROVE Outside'
  <2>1. /\ current # NoGen /\ (current - 1) \in DOMAIN gens
        /\ Asks(p, "rollback", Links(current - 1)) /\ request'[p] # NoRequest
    BY <1>4 DEF AskRollback, Asks, TypeOK, NoRequest, NoGen
  <2>2. journal = NoJournal
    BY <1>4, <2>1 DEF Covered, AskRollback, Asks, MarkDone
  <2>3. \A d \in DOMAIN Links(current - 1) : Links(current - 1)[d] = Elsewhere => InBase(d)
    BY <1>b, <2>1, <2>2 DEF Links, Kept, InBase, Entries
  <2> QED BY <1>2, <2>1, <2>3
<1>5. ASSUME NEW p \in Proc, ReadLedger(p) PROVE Outside'
  <2>1. request[p] \in Request /\ request[p] # NoRequest
    BY <1>5, RequestType DEF ReadLedger
  <2>2. /\ UNCHANGED <<ledger, gens, current, journal, job, step>>
        /\ request'[p].targets = request[p].targets
        /\ \A q \in Proc \ {p} : request'[q] = request[q]
    BY <1>5, <2>1 DEF ReadLedger, records, TypeOK, Request
  <2>3. \A d : InBase(d) => InBase(d)'
    BY <2>2 DEF InBase, Entries, Saved
  <2> QED BY <1>c, <2>1, <2>2, <2>3 DEF Outside
<1>6. ASSUME NEW p \in Proc, GivesUp(p) PROVE Outside'
  <2>1. /\ UNCHANGED <<ledger, gens, current, journal, job, step>>
        /\ \A q \in Proc : request'[q] # NoRequest => request'[q] = request[q]
    BY <1>6 DEF GivesUp, records, TypeOK
  <2>2. \A d : InBase(d) => InBase(d)'
    BY <2>1 DEF InBase, Entries, Saved
  <2> QED BY <1>c, <2>1, <2>2 DEF Outside
<1>7. ASSUME NEW p \in Proc, Start(p) PROVE Outside'
  <2>1. /\ UNCHANGED <<ledger, gens, current, journal>> /\ request[p] # NoRequest
        /\ job'.targets = request[p].targets
        /\ \A q \in Proc : request'[q] # NoRequest => request'[q] = request[q]
    BY <1>7 DEF Start, Begins, records, TypeOK
  <2>2. \A d : InBase(d) => InBase(d)'
    BY <2>1 DEF InBase, Entries, Saved
  <2> QED BY <1>c, <2>1, <2>2 DEF Outside
<1>8. ASSUME NEW d \in Dest, NEW a \in Profile, StartAdopt(d, a) PROVE Outside'
  <2>1. /\ UNCHANGED <<ledger, gens, current, journal, request>>
        /\ job'.targets = [e \in {d} |-> a]
    BY <1>8 DEF StartAdopt, Begins, records
  <2>2. \A e : InBase(e) => InBase(e)'
    BY <2>1 DEF InBase, Entries, Saved
  <2> QED BY <1>b, <1>c, <2>1, <2>2 DEF Outside
<1>9. CASE StartRecover
  <2>1. /\ UNCHANGED <<ledger, gens, current, journal, request>> /\ journal # NoJournal
        /\ job'.targets = [d \in DOMAIN journal.changes
                              \ {d \in DOMAIN journal.changes : journal.changes[d] = Nowhere}
                                |-> journal.changes[d]]
    BY <1>9 DEF StartRecover, records
  <2>2. \A e : InBase(e) => InBase(e)'
    BY <2>1 DEF InBase, Entries, Saved
  <2> QED BY <1>c, <2>1, <2>2 DEF Outside
<1>10. CASE WriteJournal
  <2>1. /\ UNCHANGED <<ledger, gens, current, request, job>> /\ step = "journal" /\ ~MarkDone
        /\ journal'.changes = job.changes
    BY <1>10 DEF WriteJournal, MarkDone, records
  <2>2. ASSUME NEW d \in DOMAIN job.changes, job.changes[d] = Elsewhere PROVE InBase(d)'
    <3>1. d \in DOMAIN job.targets /\ job.targets[d] = Elsewhere
      BY <1>b, <2>1, <2>2, TargetTypes DEF Meant
    <3> QED BY <1>a, <2>1, <3>1 DEF Outside
  <2> QED BY <1>a, <1>c, <2>1, <2>2 DEF Outside
<1>11. CASE FindGeneration
  <2>1. /\ UNCHANGED <<ledger, gens, current, journal, request>> /\ step = "cross"
        /\ job' = [job EXCEPT !.new = current] /\ job \in Job
    BY <1>11, JobType DEF FindGeneration, records
  <2>2. job'.targets = job.targets
    BY <2>1 DEF Job
  <2>3. \A e : InBase(e) => InBase(e)'
    BY <2>1 DEF InBase, Entries, Saved
  <2> QED BY <1>c, <2>1, <2>2, <2>3 DEF Outside
<1>12. CASE SetCurrent
  <2>1. /\ UNCHANGED <<ledger, gens, journal, request, job>> /\ step = "point" /\ ~MarkDone
        /\ current' = NextGen
    BY <1>12 DEF SetCurrent, Numbering, MarkDone
  <2>2. current' # NoGen
    BY <2>1, CurrentIsThere DEF NextGen, NoGen
  <2>3. ASSUME NEW d \in Dest, ledger[d].to = Elsewhere
        PROVE  d \in DOMAIN gens'[current' - 1].entries
    <3>1. current # NoGen /\ d \in Entries
      BY <1>b, <2>3 DEF Covered, OwnedDests
    <3>2. current' - 1 = current
      BY <2>1, <3>1, CurrentIsThere DEF NextGen
    <3> QED BY <2>1, <3>1, <3>2 DEF Entries
  <2> QED BY <1>a, <2>1, <2>2, <2>3 DEF Outside
<1>13. CASE SaveLedger
  <2>1. /\ UNCHANGED <<gens, current, journal, request, job>> /\ step = "record" /\ ~MarkDone
        /\ journal # NoJournal /\ journal.changes = job.changes /\ AllCrossed /\ Saved
        /\ ledger' = [d \in Dest |->
                        IF d \in job.retire THEN NoRow
                        ELSE IF d \in DOMAIN job.targets
                        THEN [to |-> live[d].to, ino |-> live[d].ino]
                        ELSE ledger[d]]
    BY <1>13 DEF SaveLedger, InFlight, Late, Truth, MarkDone
  <2>2. ASSUME NEW d \in Dest, ledger'[d].to = Elsewhere
        PROVE  current # NoGen /\ d \in DOMAIN gens[current - 1].entries
    <3>1. CASE d \in DOMAIN job.targets /\ d \notin job.retire
      <4>1. live[d].to = Elsewhere
        BY <2>1, <2>2, <3>1
      <4>2. job.targets[d] = Elsewhere
        BY <1>b, <2>1, <3>1, <4>1, TargetTypes DEF AllCrossed, Meant
      <4> QED BY <2>1, <3>1, <4>2 DEF Outside, InBase, Saved
    <3>2. CASE ~(d \in DOMAIN job.targets /\ d \notin job.retire)
      <4>1. ledger[d].to = Elsewhere
        BY <1>b, <2>1, <2>2, <3>2
      <4> QED BY <4>1 DEF Outside
    <3> QED BY <3>1, <3>2
  <2> QED BY <1>a, <2>1, <2>2 DEF Outside
<1>14. CASE MarkDone
  <2>1. /\ UNCHANGED <<ledger, gens, current, request>> /\ journal' = NoJournal
        /\ step' = "free" /\ step # "free"
    BY <1>14 DEF MarkDone, Releases, records
  <2>2. \A p \in Proc : request'[p] = NoRequest
    BY <2>1 DEF Covered
  <2> QED BY <1>c, <2>1, <2>2 DEF Outside
<1>15. ASSUME NEW d \in Dest, Cross(d) PROVE Outside'
  BY <1>1, <1>15 DEF Cross, records, MarkDone
<1>16. CASE CopyTree \/ Declare \/ SaveFirst \/ SaveGeneration \/ WriteRescue
  BY <1>1, <1>16 DEF CopyTree, Declare, SaveFirst, SaveGeneration, WriteRescue, records, MarkDone
<1>17. CASE DeclareFails \/ Stop
  <2>1. /\ UNCHANGED <<ledger, gens, current, journal, request>> /\ step' = "free"
    BY <1>17 DEF DeclareFails, Stop, Releases, records
  <2>2. \A e : InBase(e) => InBase(e)'
    BY <2>1 DEF InBase, Entries, Saved
  <2> QED BY <1>c, <2>1, <2>2 DEF Outside
<1>18. CASE UNCHANGED <<ledger, gens, current, journal, request, step, job>>
  BY <1>18 DEF Outside, InBase, Entries, Saved
<1> QED
  BY <1>3, <1>4, <1>5, <1>6, <1>7, <1>8, <1>9, <1>10, <1>11, <1>12, <1>13, <1>14, <1>15, <1>16,
     <1>17, <1>18 DEF Next, Works, Tamper, vars, records

\* The script's attic is of the generations before the current one.
Attic ==
    /\ current = NoGen => rescue = NoGen
    /\ parked \subseteq Nat \X Dest
    /\ \A q \in parked : current # NoGen /\ q[1] < current

LEMMA AtticStep ==
    ASSUME Holds, Attic, [Next]_vars, parked' = parked
    PROVE  Attic'
<1>. USE DEF Holds, OperationsInv
<1>1. CASE UNCHANGED <<current, rescue>>
  BY <1>1 DEF Attic
<1>2. CASE SetCurrent
  <2>1. current' = NextGen /\ current' # NoGen /\ NextGen \in Int
    BY <1>2, NextGenType DEF SetCurrent, Numbering, NoGen
  <2>2. current # NoGen => current' = current + 1 /\ current \in Int
    BY <2>1, CurrentIsThere DEF NextGen
  <2>3. \A q \in parked : q[1] \in Int
    BY DEF Attic
  <2> QED BY <2>1, <2>2, <2>3 DEF Attic
<1>3. CASE WriteRescue
  <2>1. UNCHANGED current /\ current # NoGen
    BY <1>3 DEF WriteRescue, Numbering
  <2> QED BY <2>1 DEF Attic
<1> QED
  BY <1>1, <1>2, <1>3 DEF Next, Works, AskSwitch, AskRollback, Asks, ReadLedger, GivesUp, Start,
     StartAdopt, StartRecover, CopyTree, Declare, SaveFirst, WriteJournal, Cross, SaveGeneration,
     FindGeneration, SaveLedger, MarkDone, DeclareFails, Stop, Tamper, vars, records

\* The row of a link that is there, and is the one that was recorded.
Same(d) ==
    /\ live[d].to \in Target
    /\ ledger[d] = [to |-> live[d].to, ino |-> live[d].ino]

\* What a switch or a rollback leaves at every path there is a row for.
Cleared ==
    /\ Plain /\ (step = "record" \/ InPlace) =>
          /\ touched \intersect job.dests = {}
          /\ \A q \in parked : q[1] < current - 1
    /\ Plain /\ InPlace => \A d \in OwnedDests : Same(d)

LEMMA ClearedStep ==
    ASSUME Holds, Covered, Covered', Meant, Attic, Cleared, [Next]_vars, parked' = parked
    PROVE  Cleared'
<1>. USE DEF Holds, OperationsInv
<1>1. CASE step' # "record" /\ ~InPlace'
  BY <1>1 DEF Cleared
<1>2. CASE SetCurrent
  <2>1. /\ step = "point" /\ step' = "record" /\ UNCHANGED <<job, touched>>
        /\ current' = NextGen
    BY <1>2 DEF SetCurrent, Numbering
  <2>2. touched \intersect job.dests = {}
    BY <2>1 DEF Covered
  <2>3. current # NoGen => current' - 1 = current /\ current \in Int
    BY <2>1, CurrentIsThere DEF NextGen
  <2>4. \A q \in parked : q[1] < current' - 1
    BY <2>3 DEF Attic
  <2> QED BY <2>1, <2>2, <2>4 DEF Cleared, Plain, InPlace
<1>3. CASE FindGeneration
  <2>1. job' = [job EXCEPT !.new = current] /\ job \in Job /\ job.kind = "recover"
    BY <1>3, JobType DEF FindGeneration, AlreadySaved
  <2>2. job'.kind = "recover"
    BY <2>1 DEF Job
  <2> QED BY <2>2 DEF Cleared, Plain
<1>4. CASE SaveLedger
  <2>1. /\ UNCHANGED <<live, current, job, touched>> /\ step = "record" /\ step' = "rescue"
        /\ \A d \in DOMAIN job.targets : live[d].to \in Target
        /\ ledger' = [d \in Dest |->
                        IF d \in job.retire THEN NoRow
                        ELSE IF d \in DOMAIN job.targets
                        THEN [to |-> live[d].to, ino |-> live[d].ino]
                        ELSE ledger[d]]
    BY <1>4 DEF SaveLedger
  <2>2. OwnedDests \subseteq job.dests
    BY <2>1 DEF Covered
  <2>3. ASSUME Plain, NEW d \in OwnedDests' PROVE Same(d)'
    <3>1. d \in Dest /\ d \notin job.retire /\ (d \in DOMAIN job.targets \/ d \in OwnedDests)
      BY <2>1, <2>3 DEF OwnedDests
    <3>2. d \in DOMAIN job.targets
      BY <2>1, <2>2, <2>3, <3>1 DEF Meant
    <3> QED BY <2>1, <3>1, <3>2 DEF Same
  <2>4. Plain' <=> Plain
    BY <2>1 DEF Plain
  <2> QED BY <2>1, <2>3, <2>4 DEF Cleared
<1>5. CASE UNCHANGED <<live, ledger, current, job, touched>>
           /\ (step' = "record" => step = "record") /\ (InPlace' => InPlace)
  BY <1>5 DEF Cleared, Plain, Same, OwnedDests
<1>6. CASE WriteRescue
  BY <1>5, <1>6 DEF WriteRescue, InPlace
<1>7. CASE MarkDone \/ DeclareFails \/ Stop \/ CopyTree \/ Declare \/ SaveFirst \/ WriteJournal
           \/ SaveGeneration
  BY <1>1, <1>7 DEF MarkDone, DeclareFails, Stop, Releases, CopyTree, Declare, SaveFirst,
     WriteJournal, SaveGeneration, InPlace
<1>8. ASSUME NEW d \in Dest, Cross(d) PROVE Cleared'
  BY <1>1, <1>8 DEF Cross, InPlace
<1>9. ASSUME NEW p \in Proc, Start(p) PROVE Cleared'
  <2>1. step' \in {"before", "journal"}
    BY <1>9 DEF Start, Begins
  <2> QED BY <1>1, <2>1 DEF InPlace
<1>10. ASSUME NEW d \in Dest, NEW a \in Profile, StartAdopt(d, a) PROVE Cleared'
  BY <1>1, <1>10 DEF StartAdopt, Begins, InPlace
<1>11. CASE StartRecover
  <2>1. step' \in {"cross", "abandon"}
    BY <1>11, Zenon DEF StartRecover
  <2> QED BY <1>1, <2>1 DEF InPlace
<1>12. ASSUME NEW d \in Dest, NEW to, Tamper(d, to) PROVE Cleared'
  BY <1>1, <1>12 DEF Tamper, Unlocked, InPlace
<1>13. CASE UNCHANGED <<live, ledger, current, job, step, touched>>
  BY <1>5, <1>13 DEF InPlace
<1> QED
  BY <1>2, <1>3, <1>4, <1>6, <1>7, <1>8, <1>9, <1>10, <1>11, <1>12, <1>13 DEF Next, Works,
     AskSwitch, AskRollback, Asks, ReadLedger, GivesUp, vars, records

\* Nobody has been there since the last switch or rollback.
Untouched ==
    since = "nothing" =>
        /\ \A d \in OwnedDests :
              \/ Same(d)
              \/ /\ journal # NoJournal
                 /\ d \in DOMAIN journal.changes
                 /\ Crossed(d)
                 /\ ~InPlace
        /\ touched \intersect OwnedDests = {}
        /\ \A q \in parked : q[1] < current - 1

\* A switch or a rollback that ends leaves it so.
LEMMA UntouchedAgain ==
    ASSUME Holds, Covered, Meant, Cleared, MarkDone, Plain, parked' = parked
    PROVE  Untouched'
<1>. USE DEF Holds, OperationsInv
<1>1. step = "finish" /\ UNCHANGED <<live, ledger, current, touched>>
  BY DEF MarkDone, Meant, Plain, records
<1>2. OwnedDests \subseteq job.dests
  BY <1>1 DEF Covered
<1> QED BY <1>1, <1>2 DEF Untouched, Cleared, InPlace, Same, OwnedDests

\* Otherwise nobody may come.
LEMMA UntouchedStays ==
    ASSUME Holds, Covered, Attic, Untouched, since = "nothing", [Next]_vars, parked' = parked,
           \A d \in Dest : \A to : ~Tamper(d, to)
    PROVE  Untouched'
<1>. USE DEF Holds, OperationsInv
<1>1. CASE UNCHANGED <<live, ledger, current, touched, journal>> /\ (InPlace' => InPlace)
  BY <1>1 DEF Untouched, Same, Crossed, OwnedDests
<1>2. CASE SaveGeneration
  <2>1. UNCHANGED <<live, ledger, current, journal>> /\ touched' \subseteq touched /\ ~InPlace'
    BY <1>2 DEF SaveGeneration, InPlace
  <2> QED BY <2>1 DEF Untouched, Same, Crossed, OwnedDests
<1>3. CASE SetCurrent
  <2>1. UNCHANGED <<live, ledger, journal, touched>> /\ ~InPlace' /\ current' = NextGen
    BY <1>3 DEF SetCurrent, InPlace, Numbering
  <2>2. current # NoGen => current' = current + 1 /\ current \in Int
    BY <2>1, CurrentIsThere DEF NextGen
  <2>3. \A q \in parked : q[1] \in Int /\ current # NoGen
    BY DEF Attic
  <2>4. \A q \in parked : q[1] < current' - 1
    BY <2>2, <2>3 DEF Untouched
  <2> QED BY <2>1, <2>4 DEF Untouched, Same, Crossed, OwnedDests
<1>4. ASSUME NEW d \in Dest, Cross(d) PROVE Untouched'
  <2>1. /\ UNCHANGED <<ledger, current, touched, journal, step>> /\ step = "cross"
        /\ journal # NoJournal /\ d \in DOMAIN journal.changes /\ Crossed(d)'
        /\ \A e \in Dest \ {d} : live'[e] = live[e]
    BY <1>4, CrossDoes DEF records, Cross
  <2>2. OwnedDests' = OwnedDests /\ OwnedDests \subseteq Dest
    BY <2>1 DEF OwnedDests
  <2>3. \A e \in Dest \ {d} : (Same(e) => Same(e)') /\ (Crossed(e) => Crossed(e)')
    BY <2>1 DEF Same, Crossed
  <2> QED BY <2>1, <2>2, <2>3 DEF Untouched, InPlace
<1>5. CASE WriteJournal
  <2>1. UNCHANGED <<live, ledger, current, touched>> /\ journal = NoJournal
    BY <1>5 DEF WriteJournal, records, InFlight, Early
  <2> QED BY <2>1 DEF Untouched, Same, OwnedDests
<1>6. CASE SaveLedger
  <2>1. /\ UNCHANGED <<live, current, journal, touched>> /\ step = "record"
        /\ step' = "rescue" /\ journal # NoJournal /\ journal.changes = job.changes
        /\ \A d \in DOMAIN job.targets : live[d].to \in Target
        /\ ledger' = [d \in Dest |->
                        IF d \in job.retire THEN NoRow
                        ELSE IF d \in DOMAIN job.targets
                        THEN [to |-> live[d].to, ino |-> live[d].ino]
                        ELSE ledger[d]]
    BY <1>6 DEF SaveLedger, InFlight, Late
  <2>2. touched \intersect DOMAIN job.targets = {}
    BY <2>1 DEF Covered
  <2>3. ASSUME NEW d \in OwnedDests' PROVE Same(d)' /\ d \notin touched
    <3>1. d \in Dest /\ d \notin job.retire
      BY <2>1, <2>3 DEF OwnedDests
    <3>2. CASE d \in DOMAIN job.targets
      BY <2>1, <2>2, <3>1, <3>2 DEF Same
    <3>3. CASE d \notin DOMAIN job.targets
      <4>1. ledger'[d] = ledger[d] /\ d \in OwnedDests
        BY <2>1, <2>3, <3>1, <3>3 DEF OwnedDests
      <4>2. d \notin DOMAIN job.changes
        BY <2>1, <3>1, <3>3 DEF Planned
      <4>3. Same(d) /\ d \notin touched
        BY <2>1, <4>1, <4>2 DEF Untouched
      <4> QED BY <2>1, <4>1, <4>3 DEF Same
    <3> QED BY <3>2, <3>3
  <2> QED BY <2>1, <2>3 DEF Untouched
<1>7. CASE WriteRescue
  <2>1. UNCHANGED <<live, ledger, current, touched, journal>> /\ InPlace
    BY <1>7 DEF WriteRescue, InPlace
  <2> QED BY <1>1, <2>1
<1>8. CASE MarkDone
  <2>1. UNCHANGED <<live, ledger, current, touched>> /\ step \in {"finish", "abandon"}
    BY <1>8 DEF MarkDone, records
  <2>2. \A d \in OwnedDests : Same(d)
    BY <2>1 DEF Untouched, InFlight, InPlace
  <2> QED BY <2>1, <2>2 DEF Untouched, Same, OwnedDests
<1>9. ASSUME NEW p \in Proc, Start(p) PROVE Untouched'
  <2>1. UNCHANGED <<live, ledger, current, touched, journal>> /\ step' \in {"before", "journal"}
    BY <1>9 DEF Start, Begins, records
  <2> QED BY <1>1, <2>1 DEF InPlace
<1>10. CASE StartRecover
  <2>1. UNCHANGED <<live, ledger, current, touched, journal>> /\ step' \in {"cross", "abandon"}
    BY <1>10, Zenon DEF StartRecover, records
  <2> QED BY <1>1, <2>1 DEF InPlace
<1>11. ASSUME NEW d \in Dest, NEW a \in Profile, StartAdopt(d, a) PROVE Untouched'
  BY <1>1, <1>11 DEF StartAdopt, Begins, records, InPlace
<1>12. CASE CopyTree \/ Declare \/ SaveFirst \/ FindGeneration \/ DeclareFails \/ Stop
  BY <1>1, <1>12 DEF CopyTree, Declare, SaveFirst, FindGeneration, DeclareFails, Stop, Releases,
     records, InPlace
<1>13. CASE UNCHANGED <<live, ledger, current, touched, journal, step>>
  BY <1>1, <1>13 DEF InPlace
<1> QED
  BY <1>2, <1>3, <1>4, <1>5, <1>6, <1>7, <1>8, <1>9, <1>10, <1>11, <1>12, <1>13 DEF Next, Works,
     AskSwitch, AskRollback, Asks, ReadLedger, GivesUp, vars, records

\* Only rescue.sh has been there: the links are those of the generation
\* before, by other inodes than the rows have, and what was taken away is in
\* the script's attic.
Restored ==
    since = "rescue" /\ journal = NoJournal /\ current # NoGen =>
        /\ \A d \in DOMAIN gens[current - 1].entries :
              IF gens[current - 1].entries[d] = Nowhere
              THEN /\ live[d].to \notin Target
                   /\ d \in OwnedDests /\ live[d] = Nothing => <<current - 1, d>> \in parked
              ELSE live[d].to \in {gens[current - 1].entries[d], Directory}
        /\ \A d \in OwnedDests :
              /\ d \in Entries /\ gens[current].entries[d] = ledger[d].to
              /\ ledger[d].to = Elsewhere /\ live[d].to = Elsewhere => live[d].ino # ledger[d].ino

\* Rows that are the links' have the generation's targets.
LEMMA RowsAreTrue ==
    ASSUME Holds, Covered, Untouched, since = "nothing", journal = NoJournal, NEW d \in OwnedDests
    PROVE  /\ Same(d)
           /\ d \in Entries
           /\ gens[current].entries[d] = ledger[d].to
<1>. USE DEF Holds, OperationsInv
<1>1. Same(d) /\ d \notin touched
  BY DEF Untouched
<1>2. current # NoGen /\ d \in Entries
  BY DEF Covered
<1>3. gens[current].entries[d] = Topology({d})[d]
  BY <1>1, <1>2 DEF Truth, TrueOf, Entries
<1> QED BY <1>1, <1>2, <1>3 DEF Topology, Same

\* What the script does.
LEMMA ScriptRestores ==
    ASSUME Holds, Covered, Outside, Attic, Untouched, Restored, RunRescue,
           since \in {"nothing", "rescue"}
    PROVE  Restored'
<1>. USE DEF Holds, OperationsInv
<1>. DEFINE to == gens[rescue].entries
            puts == {d \in DOMAIN to : to[d] # Nowhere /\ live[d].to # Directory}
            parks == {d \in DOMAIN to :
                        to[d] = Nowhere /\ IsLink(d) /\ <<rescue, d>> \notin parked}
<1>1. /\ journal = NoJournal /\ UNCHANGED <<ledger, gens, current>>
      /\ live' = [d \in Dest |-> IF d \in puts
                                 THEN [to |-> to[d], ino |-> Fresh(d), by |-> "script"]
                                 ELSE IF d \in parks THEN Nothing ELSE live[d]]
      /\ parked' = parked \union {<<rescue, d>> : d \in parks}
  BY Zenon DEF RunRescue, Hand, records
<1>2. /\ current # NoGen /\ rescue = current - 1 /\ current \in Int
      /\ gens[rescue] \in Generation
  BY <1>1, CurrentIsThere DEF RunRescue, Attic, RescueInv, TypeOK
<1>3. DOMAIN to \subseteq Dest /\ \A d \in DOMAIN to : to[d] \in Target \union {Nowhere}
  BY <1>2, PartialElim DEF Generation
<1>4. \A d \in DOMAIN to : d \in Dest /\ (to[d] # Nowhere => to[d] \in Target)
  BY <1>3
<1>5. ASSUME since = "rescue"
      PROVE  /\ \A d \in DOMAIN to :
                    IF to[d] = Nowhere
                    THEN /\ live[d].to \notin Target
                         /\ d \in OwnedDests /\ live[d] = Nothing => <<rescue, d>> \in parked
                    ELSE live[d].to \in {to[d], Directory}
             /\ \A d \in OwnedDests :
                   d \in Entries /\ gens[current].entries[d] = ledger[d].to
  BY <1>1, <1>2, <1>5 DEF Restored
<1>6. ASSUME since = "nothing"
      PROVE  /\ \A d \in DOMAIN to : <<rescue, d>> \notin parked
             /\ \A d \in OwnedDests :
                   live[d].to \in Target /\ d \in Entries /\ gens[current].entries[d] = ledger[d].to
  <2>1. \A q \in parked : q[1] # rescue
    BY <1>2, <1>6 DEF Untouched
  <2>2. \A d : <<rescue, d>> \notin parked
    BY <2>1
  <2> QED BY <1>1, <1>6, <2>2, RowsAreTrue DEF Same
<1>7. ASSUME NEW d \in DOMAIN to, to[d] = Nowhere
      PROVE  /\ live'[d].to \notin Target
             /\ d \in OwnedDests /\ live'[d] = Nothing => <<rescue, d>> \in parked'
  <2>1. d \in Dest /\ d \notin puts
    BY <1>4, <1>7
  <2>2. CASE d \in parks
    <3>1. live'[d] = Nothing /\ <<rescue, d>> \in parked'
      BY <1>1, <2>1, <2>2
    <3> QED BY <3>1, TargetTypes
  <2>3. CASE d \notin parks
    <3>1. live'[d] = live[d] /\ parked \subseteq parked'
      BY <1>1, <2>1, <2>3
    <3>2. live[d].to \notin Target
      BY <1>5, <1>6, <1>7, <2>3 DEF IsLink
    <3>3. d \in OwnedDests /\ live[d] = Nothing => <<rescue, d>> \in parked
      BY <1>5, <1>6, <1>7, TargetTypes
    <3> QED BY <3>1, <3>2, <3>3
  <2> QED BY <2>2, <2>3
<1>8. ASSUME NEW d \in DOMAIN to, to[d] # Nowhere
      PROVE  /\ live'[d].to \in {to[d], Directory}
             /\ live'[d].to = to[d] => live'[d].ino # ledger[d].ino
  <2>1. d \in Dest /\ d \notin parks /\ to[d] \in Target
    BY <1>4, <1>8
  <2>2. CASE d \in puts
    BY <1>1, <2>1, <2>2, FreshType
  <2>3. CASE d \notin puts
    <3>1. live'[d].to = Directory
      BY <1>1, <1>8, <2>1, <2>3
    <3> QED BY <2>1, <3>1, TargetTypes
  <2> QED BY <2>2, <2>3
<1>9. ASSUME NEW d \in OwnedDests, ledger[d].to = Elsewhere, live'[d].to = Elsewhere
      PROVE  live'[d].ino # ledger[d].ino
  <2>1. d \in DOMAIN to /\ Elsewhere \in Target
    BY <1>2, <1>9 DEF Outside, OwnedDests, Target
  <2>2. to[d] # Nowhere
    BY <1>7, <1>9, <2>1
  <2>3. live'[d].to = to[d]
    BY <1>8, <1>9, <2>1, <2>2, TargetTypes
  <2> QED BY <1>8, <2>1, <2>2, <2>3
<1>10. OwnedDests' = OwnedDests /\ Entries' = Entries
  BY <1>1 DEF OwnedDests, Entries
<1>11. \A d \in OwnedDests : d \in Entries /\ gens[current].entries[d] = ledger[d].to
  BY <1>5, <1>6
<1>12. to = gens[current - 1].entries
  BY <1>2
<1> HIDE DEF to, puts, parks
<1> QED BY <1>1, <1>2, <1>7, <1>8, <1>9, <1>10, <1>11, <1>12 DEF Restored

\* What ricepilot does until there is a journal changes none of that.
LEMMA RestoredStays ==
    ASSUME Holds, Restored, [Next]_vars, since = "rescue", journal = NoJournal,
           journal' = NoJournal, current' # NoGen, parked' = parked,
           \A d \in Dest : \A to : ~Tamper(d, to)
    PROVE  Restored'
<1>. USE DEF Holds, OperationsInv
<1>1. step \notin Late
  BY DEF InFlight
<1>2. UNCHANGED <<live, ledger, current>> /\ (gens' = gens \/ current = NoGen)
  BY <1>1 DEF Late, Next, Works, AskSwitch, AskRollback, Asks, ReadLedger, GivesUp, Start,
     StartAdopt, StartRecover, CopyTree, Declare, SaveFirst, WriteJournal, Cross, SaveGeneration,
     FindGeneration, SetCurrent, SaveLedger, WriteRescue, MarkDone, DeclareFails, Stop, vars,
     records, Numbering
<1> QED BY <1>2 DEF Restored, OwnedDests, Entries

Answering == Covered /\ Meant /\ Kept /\ Outside /\ Attic /\ Cleared /\ Untouched /\ Restored

LEMMA AnsweringByHands ==
    ASSUME Holds, Answering, Hands
    PROVE  Answering'
<1>. USE DEF Holds, OperationsInv
<1>1. /\ step = "free" /\ journal = NoJournal /\ tampers' = tampers + 1
      /\ UNCHANGED <<ledger, gens, current, rescue, journal, request, step, job>>
  BY HandsDo
<1>2. Covered'
  BY HandsKeepCovered DEF Answering
<1>3. Meant' /\ Kept' /\ Outside' /\ Cleared'
  <2>1. Meant' /\ Cleared'
    BY <1>1 DEF Meant, Cleared, InPlace
  <2>2. Kept'
    BY <1>1 DEF Answering, Kept, OwnedDests, Entries, InPlace, Early
  <2>3. Outside'
    BY <1>1 DEF Answering, Outside, InBase, Entries, Asked
  <2> QED BY <2>1, <2>2, <2>3
<1>4. CASE RunRescue
  <2>1. since' = (IF since = "nothing" THEN "rescue" ELSE since) /\ rescue # NoGen
    BY <1>4 DEF RunRescue
  <2>2. Untouched'
    BY <2>1 DEF Untouched
  <2>3. Restored'
    <3>1. CASE since \in {"nothing", "rescue"}
      BY <1>4, <3>1, ScriptRestores DEF Answering
    <3>2. CASE since \notin {"nothing", "rescue"}
      BY <2>1, <3>2 DEF Restored
    <3> QED BY <3>1, <3>2
  <2>4. Attic'
    <3>1. \E S \in SUBSET Dest : parked' = parked \union {<<rescue, d>> : d \in S}
      <4>1. DOMAIN gens[rescue].entries \subseteq Dest
        BY <2>1, PartialElim DEF RescueInv, TypeOK, Generation
      <4> QED BY <1>4, <4>1 DEF RunRescue
    <3>2. /\ current # NoGen /\ rescue = current - 1 /\ current \in Int
          /\ rescue \in Nat
      BY <1>1, <2>1, CurrentIsThere DEF Answering, Attic, RescueInv, TypeOK
    <3> QED BY <1>1, <3>1, <3>2 DEF Answering, Attic
  <2> QED BY <1>2, <1>3, <2>2, <2>3, <2>4 DEF Answering
<1>5. ASSUME NEW a \in Profile, NEW d \in Dest, EditManifest(a, d) \/ TakeSource(a, d)
      PROVE  Answering'
  <2>1. since' = "other" /\ parked' = parked
    BY <1>5 DEF EditManifest, TakeSource
  <2>2. Untouched' /\ Restored'
    BY <2>1 DEF Untouched, Restored
  <2>3. Attic'
    BY <1>1, <2>1 DEF Answering, Attic
  <2> QED BY <1>2, <1>3, <2>2, <2>3 DEF Answering
<1> QED BY <1>4, <1>5 DEF Hands

LEMMA AnsweringByOperations ==
    ASSUME SideBySide = FALSE, Holds, Holds', Answering, [Next]_vars,
           Traces \/ UNCHANGED <<vars, Evidence>>
    PROVE  Answering'
<1>1. parked' = parked
  BY DEF Traces, Evidence
<1>2. Covered'
  BY CoveredStep DEF Answering, Holds
<1>3. Meant' /\ Kept' /\ Outside' /\ Attic' /\ Cleared'
  BY <1>1, <1>2, MeantStep, KeptStep, OutsideStep, AtticStep, ClearedStep DEF Answering
<1>4. ASSUME NEW d \in Dest, NEW to, Tamper(d, to) PROVE tampers' # tampers
  BY <1>4 DEF Tamper, Holds, OperationsInv, TypeOK
<1>5. Retires => MarkDone
  BY DEF Retires, Next, Works, AskSwitch, AskRollback, Asks, ReadLedger, GivesUp, Start,
     StartAdopt, StartRecover, CopyTree, Declare, SaveFirst, WriteJournal, Cross,
     SaveGeneration, FindGeneration, SetCurrent, SaveLedger, WriteRescue, DeclareFails, Stop,
     Tamper, Begins, NoJournal, vars, Holds, OperationsInv, InFlight, Early
<1>6. Untouched'
  <2>1. SUFFICES ASSUME since' = "nothing" PROVE Untouched'
    BY DEF Untouched
  <2>2. CASE Retires /\ Plain
    BY <1>1, <1>5, <2>2, UntouchedAgain DEF Answering
  <2>3. CASE ~(Retires /\ Plain)
    <3>1. since = "nothing" /\ tampers' = tampers
      BY <2>1, <2>3 DEF Traces, Evidence, Plain, vars, bounds
    <3>2. \A d \in Dest : \A to : ~Tamper(d, to)
      BY <1>4, <3>1
    <3> QED BY <1>1, <3>1, <3>2, UntouchedStays DEF Answering
  <2> QED BY <2>2, <2>3
<1>7. Restored'
  <2>1. SUFFICES ASSUME since' = "rescue", journal' = NoJournal, current' # NoGen
                 PROVE  Restored'
    BY DEF Restored
  <2>2. since = "rescue" /\ tampers' = tampers /\ ~Retires
    BY <2>1 DEF Traces, Evidence, Retires, vars, bounds
  <2>3. journal = NoJournal
    BY <2>1, <2>2 DEF Retires
  <2>4. \A d \in Dest : \A to : ~Tamper(d, to)
    BY <1>4, <2>2
  <2> QED BY <1>1, <2>1, <2>2, <2>3, <2>4, RestoredStays DEF Answering
<1> QED BY <1>2, <1>3, <1>6, <1>7 DEF Answering

LEMMA AnsweringInit == DiagnosisInit => Answering
<1> SUFFICES ASSUME DiagnosisInit PROVE Answering
  OBVIOUS
<1>1. Covered /\ Meant
  BY DEF DiagnosisInit, Init, Covered, Meant, OwnedDests, Owns, Asked
<1>2. Kept /\ Cleared /\ Attic
  BY DEF DiagnosisInit, Init, Kept, Cleared, Attic, Early, InPlace
<1>3. Outside /\ Untouched /\ Restored
  BY DEF DiagnosisInit, Init, Outside, Untouched, Restored, Asked, OwnedDests, NoRow, Nowhere,
     Elsewhere
<1> QED BY <1>1, <1>2, <1>3 DEF Answering

\* The commands under the findings answer the script.
LEMMA AnswersTheScript ==
    ASSUME Holds, Answering, AtRest, since = "rescue", HasBefore
    PROVE  LET links == Links(current - 1)
               blocking == {d \in DOMAIN links \union Rows : Shape(d) = "foreign"}
               reported == Broken \union {d \in Dest : RestoredUnrecorded(d)}
           IN  /\ \A d \in blocking : d \in reported /\ Advice(d).aside
               /\ \A d \in reported :
                     d \in DOMAIN Before /\ live[d].to # Directory =>
                         \/ Advice(d).run = "rollback"
                         \/ d \in DOMAIN Links(current) /\ live[d].to = Links(current)[d]
               /\ \A d \in DOMAIN links : live[d].to \in {links[d], Directory}
<1>. USE DEF Holds, OperationsInv
<1>. DEFINE links == Links(current - 1)
            reported == Broken \union {d \in Dest : RestoredUnrecorded(d)}
<1>1. /\ current # NoGen /\ journal = NoJournal /\ (current - 1) \in DOMAIN gens
      /\ Before = gens[current - 1].entries
  BY DEF HasBefore, AtRest, NoGen, Before
<1>2. DOMAIN Before \subseteq Dest
  BY <1>1, PartialElim DEF TypeOK, Generation
<1>3. /\ DOMAIN links = {d \in DOMAIN Before : Before[d] # Nowhere}
      /\ \A d \in DOMAIN links : links[d] = Before[d]
  BY <1>1 DEF Links
<1>4. /\ \A d \in DOMAIN Before :
            IF Before[d] = Nowhere
            THEN /\ live[d].to \notin Target
                 /\ d \in Rows /\ live[d] = Nothing => <<current - 1, d>> \in parked
            ELSE live[d].to \in {Before[d], Directory}
      /\ \A d \in Rows :
            /\ d \in Entries /\ gens[current].entries[d] = ledger[d].to
            /\ ledger[d].to = Elsewhere /\ live[d].to = Elsewhere => live[d].ino # ledger[d].ino
  BY <1>1 DEF Answering, Restored, Rows
<1> HIDE DEF links
<1>5. \A d \in DOMAIN links : live[d].to \in {links[d], Directory}
  BY <1>3, <1>4
<1>6. ASSUME NEW d \in DOMAIN links \union Rows, Shape(d) = "foreign"
      PROVE  d \in reported /\ Advice(d).aside
  <2>1. d \in Dest
    BY <1>2, <1>3 DEF Rows, OwnedDests
  <2>2. live[d].to \in Target /\ ~Owns(d)
    <3>1. live[d].to \in Target \/ live[d].to = Directory \/ live[d].to = Nowhere
      BY <2>1 DEF TypeOK, Object, Nothing
    <3> QED BY <1>6, <3>1, TargetTypes DEF Shape, Nowhere, Directory
  <2>3. live[d].to # Directory /\ live[d] # Nothing
    BY <2>2, TargetTypes
  <2>4. CASE d \notin Rows
    <3>1. d \in DOMAIN Before /\ live[d].to = Before[d]
      BY <1>3, <1>5, <1>6, <2>3, <2>4
    <3>2. RestoredUnrecorded(d)
      BY <2>2, <2>4, <3>1 DEF RestoredUnrecorded, IsLink, HadThere
    <3> QED BY <2>1, <2>4, <3>2 DEF Advice
  <2>5. CASE d \in Rows
    <3>1. LinkFinding(d) \in {"elsewhere", "lookalike"}
      <4>1. CASE live[d].to # ledger[d].to
        BY <2>3, <4>1 DEF LinkFinding
      <4>2. CASE live[d].to = ledger[d].to /\ live[d].ino # ledger[d].ino
        BY <2>3, <4>2 DEF LinkFinding
      <4>3. CASE live[d].to = ledger[d].to /\ live[d].ino = ledger[d].ino
        <5>1. ledger[d] \in Row
          BY <2>1, <2>5 DEF Rows, OwnedDests, TypeOK
        <5>2. ledger[d] = [to |-> live[d].to, ino |-> live[d].ino]
          BY <4>3, <5>1 DEF Row
        <5>3. live[d].to = Elsewhere
          BY <2>2, <5>2 DEF Owns, Target
        <5> QED BY <1>4, <2>5, <4>3, <5>3
      <4> QED BY <4>1, <4>2, <4>3
    <3>2. d \in Broken
      BY <2>5, <3>1 DEF Broken
    <3>3. Advice(d).aside
      BY <2>5, <3>1 DEF Advice
    <3> QED BY <3>2, <3>3
  <2> QED BY <2>4, <2>5
<1>7. ASSUME NEW d \in reported, d \in DOMAIN Before, live[d].to # Directory
      PROVE  \/ Advice(d).run = "rollback"
             \/ d \in DOMAIN Links(current) /\ live[d].to = Links(current)[d]
  <2>1. d \in Dest
    BY <1>2, <1>7
  <2>2. CASE d \notin Rows
    BY <2>2 DEF Advice
  <2>3. CASE d \in Rows /\ LinkFinding(d) = "gone"
    <3>1. live[d] = Nothing
      BY <2>3 DEF LinkFinding
    <3>2. Before[d] = Nowhere
      <4>1. Before[d] \in Target \union {Nowhere}
        BY <1>1, <1>7, PartialElim DEF TypeOK, Generation
      <4>2. Nothing.to # Directory
        BY DEF Nothing, Nowhere, Directory
      <4> QED BY <1>4, <1>7, <3>1, <4>1, <4>2, TargetTypes
    <3>3. TakenByRescue(d)
      BY <1>4, <1>7, <2>3, <3>1, <3>2 DEF TakenByRescue, HadThere
    <3> QED BY <2>3, <3>3 DEF Advice
  <2>4. CASE d \in Rows /\ LinkFinding(d) = "elsewhere"
    <3>1. live[d] # Nothing
      BY <2>4 DEF LinkFinding
    <3>2. live[d].to \in Target
      BY <1>7, <2>1, <3>1 DEF TypeOK, Object
    <3>3. live[d].to = Before[d]
      BY <1>4, <1>7, <3>2
    <3>4. LedByRescue(d)
      BY <1>7, <3>3 DEF LedByRescue, HadThere
    <3> QED BY <2>4, <3>4 DEF Advice
  <2>5. CASE d \in Rows /\ LinkFinding(d) \in {"lookalike", "outside"}
    <3>1. live[d] # Nothing /\ live[d].to = ledger[d].to
      BY <2>5 DEF LinkFinding
    <3>2. live[d].to \in Target
      BY <1>7, <2>1, <3>1 DEF TypeOK, Object
    <3>3. d \in Entries /\ gens[current].entries[d] = live[d].to
      BY <1>4, <2>5, <3>1
    <3> QED BY <3>2, <3>3, TargetTypes DEF Links, Entries
  <2>6. CASE d \in Rows /\ LinkFinding(d) \in {"dangles", "intact"}
    BY <2>6 DEF Advice
  <2>7. LinkFinding(d) # "directory"
    BY <1>7 DEF LinkFinding
  <2>8. LinkFinding(d) \in {"gone", "directory", "elsewhere", "lookalike", "outside", "dangles",
                            "intact"}
    BY DEF LinkFinding
  <2> QED BY <2>2, <2>3, <2>4, <2>5, <2>6, <2>7, <2>8
<1> QED BY <1>5, <1>6, <1>7 DEF links

\* After rescue.sh the commands doctor prints lead to a rollback that records
\* what the script restored (D81), when one command runs at a time.
THEOREM DoctorAnswersRescue ==
    ASSUME SideBySide = FALSE
    PROVE  DiagnosisSpec => []RescueIsAnswered
<1>1. DiagnosisInit => Holds /\ Answering
  BY HoldsInit, AnsweringInit DEF DiagnosisInit
<1>2. Holds /\ Answering /\ [DiagnosisNext]_<<vars, Evidence>> => Holds' /\ Answering'
  <2> SUFFICES ASSUME Holds, Answering, [DiagnosisNext]_<<vars, Evidence>>
               PROVE  Holds' /\ Answering'
    OBVIOUS
  <2>1. Holds'
    BY HoldsStep
  <2>2. CASE Hands
    BY <2>1, <2>2, AnsweringByHands
  <2>3. CASE [Next]_vars /\ (Traces \/ UNCHANGED <<vars, Evidence>>)
    BY <2>1, <2>3, AnsweringByOperations
  <2> QED BY <2>1, <2>2, <2>3 DEF DiagnosisNext
<1>3. Holds /\ Answering => RescueIsAnswered
  BY AnswersTheScript DEF RescueIsAnswered
<1> QED BY <1>1, <1>2, <1>3, PTL DEF DiagnosisSpec
=============================================================================
