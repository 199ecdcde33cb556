------------------------------ MODULE Diagnosis ------------------------------
(***************************************************************************)
(* What ricepilot says of the machine between two operations: `doctor`'s   *)
(* findings and the commands it prints under them, and `diff`'s rows, read *)
(* off the records and live paths of module Operations, and set against    *)
(* what the next switch or rollback would do there.                        *)
(*                                                                         *)
(* Source: src/src/doctor.rs, src/src/diff.rs, and src/src/rescue.rs for   *)
(* what the script does when the user runs it.                             *)
(*                                                                         *)
(* Both are read-only, so they are operators.  What is added to Operations *)
(* are the hands that make work for them: rescue.sh run by the user, a     *)
(* manifest edited, a directory taken out of a profile.                    *)
(***************************************************************************)
EXTENDS Operations

VARIABLES
    parked,     \* attic/rescue-NNNN: what rescue.sh moved there, as <<NNNN, d>>
    adopted,    \* per path, the last adopt's retired journal
    since       \* history: "nothing" since the last switch or rollback, "rescue"
                \* for rescue.sh alone, "other" for any other hands

NoAdopt == [into |-> Nowhere, attic |-> FALSE]

Evidence == <<parked, adopted, since>>

DiagnosisTypeOK ==
    /\ parked \subseteq (0..MaxOps) \X Dest
    /\ adopted \in [Dest -> [into : Profile \union {Nowhere}, attic : BOOLEAN]]
    /\ since \in {"nothing", "rescue", "other"}

DiagnosisInit ==
    /\ Init
    /\ parked = {}
    /\ adopted = [d \in Dest |-> NoAdopt]
    /\ since = "nothing"

(***************************************************************************)
(* Other hands.  Each counts as a change by the user, at rest.             *)
(***************************************************************************)

Hand ==
    /\ Unlocked
    /\ journal = NoJournal
    /\ tampers < MaxTampers
    /\ tampers' = tampers + 1

IsLink(d) == live[d].to \in Target

\* sh rescue.sh: a link where the generation had one, over a link or nothing;
\* a link where it had none is moved to the script's attic, unless something
\* is parked there already.  Anything else is skipped.
RunRescue ==
    /\ Hand
    /\ rescue # NoGen
    /\ LET to == gens[rescue].entries
           puts == {d \in DOMAIN to : to[d] # Nowhere /\ live[d].to # Directory}
           parks == {d \in DOMAIN to :
                       to[d] = Nowhere /\ IsLink(d) /\ <<rescue, d>> \notin parked}
       IN  /\ live' = [d \in Dest |->
                         IF d \in puts
                         THEN [to |-> to[d], ino |-> Fresh(d), by |-> "script"]
                         ELSE IF d \in parks THEN Nothing ELSE live[d]]
           /\ parked' = parked \union {<<rescue, d>> : d \in parks}
           /\ touched' = touched \union puts \union parks
    /\ since' = IF since = "nothing" THEN "rescue" ELSE since
    /\ UNCHANGED <<records, journal, profiles, request, step, job, ops, promise,
                   stops, adopted>>

\* The user deletes a [[path]] from a manifest.
EditManifest(a, d) ==
    /\ Hand
    /\ d \in claims[a]
    /\ claims' = [claims EXCEPT ![a] = @ \ {d}]
    /\ since' = "other"
    /\ UNCHANGED <<live, records, journal, payload, request, step, job, ops,
                   promise, touched, stops, parked, adopted>>

\* The user takes a directory out of a profile.
TakeSource(a, d) ==
    /\ Hand
    /\ d \in payload[a]
    /\ payload' = [payload EXCEPT ![a] = @ \ {d}]
    /\ since' = "other"
    /\ UNCHANGED <<live, records, journal, claims, request, step, job, ops,
                   promise, touched, stops, parked, adopted>>

Hands ==
    \/ RunRescue
    \/ \E a \in Profile, d \in Dest : EditManifest(a, d) \/ TakeSource(a, d)

Retires == journal # NoJournal /\ journal' = NoJournal

\* What a step of Operations leaves behind for doctor: the retired journal of
\* an adopt, whose attic has the directory if it was exchanged.
Traces ==
    /\ parked' = parked
    /\ adopted' = [d \in Dest |->
                     IF Retires /\ journal.adopt /\ d \in DOMAIN journal.changes
                     THEN [into |-> journal.changes[d], attic |-> Crossed(d)]
                     ELSE adopted[d]]
    /\ since' = IF Retires /\ job.kind \in {"switch", "rollback"} THEN "nothing"
                ELSE IF tampers' # tampers \/ (Retires /\ since # "nothing") THEN "other"
                ELSE since

DiagnosisNext == (Next /\ Traces) \/ Hands

DiagnosisSpec ==
    DiagnosisInit /\ [][DiagnosisNext]_<<vars, Evidence>> /\ Fairness

(***************************************************************************)
(* doctor                                                                  *)
(***************************************************************************)

Rows == OwnedDests

\* previous_generation: where rollback goes and what rescue.sh restores.
HasBefore == current > 0 /\ (current - 1) \in DOMAIN gens
Before == IF HasBefore THEN gens[current - 1].entries ELSE [d \in {} |-> Nowhere]

HadThere(d, what) == d \in DOMAIN Before /\ Before[d] = what

\* owned_links: what is wrong at the path of a ledger row.
LinkFinding(d) ==
    IF live[d] = Nothing THEN "gone"
    ELSE IF live[d].to = Directory THEN "directory"
    ELSE IF live[d].to # ledger[d].to THEN "elsewhere"
    ELSE IF live[d].ino # ledger[d].ino THEN "lookalike"
    ELSE IF live[d].to \notin Profile THEN "outside"
    ELSE IF d \notin payload[live[d].to] THEN "dangles"
    ELSE "intact"

Broken == {d \in Rows : LinkFinding(d) # "intact"}

\* Mutant: only the ledger's own paths are looked at.
RestoredNot(d) == FALSE

\* restored_unrecorded.
RestoredUnrecorded(d) ==
    /\ d \notin Rows
    /\ IsLink(d)
    /\ HadThere(d, live[d].to)

\* The way back rescue.sh took, told from a change by anybody else (D81).
TakenByRescue(d) == HadThere(d, Nowhere) /\ <<current - 1, d>> \in parked
LedByRescue(d) == HadThere(d, live[d].to)

\* The commands under a finding: whether the path is set aside, and what is
\* run after that.
Advice(d) ==
    LET finding == LinkFinding(d)
        Says(aside, run) == [aside |-> aside, run |-> run]
    IN
    IF d \notin Rows THEN Says(TRUE, "rollback")
    ELSE CASE finding = "gone" ->
                 Says(FALSE, IF TakenByRescue(d) THEN "rollback" ELSE "switch")
           [] finding = "elsewhere" ->
                 Says(TRUE, IF LedByRescue(d) THEN "rollback" ELSE "switch")
           [] finding \in {"directory", "lookalike"} -> Says(TRUE, "switch")
           [] finding = "outside" -> Says(FALSE, "list")
           [] OTHER -> Says(FALSE, "rollback")

\* manifests_agree_with_ledger: the next switch would retire the link.
Undeclared == {d \in Rows : ledger[d].to \in Profile /\ d \notin claims[ledger[d].to]}

\* Mutant: any row at the path will do.
MissingSourceAnyRow(a, d) ==
    /\ d \in claims[a]
    /\ d \notin payload[a]
    /\ d \notin Rows

\* sources: a declared source that is not there.  One a ledger row leads to
\* is left to owned_links.
MissingSource(a, d) ==
    /\ d \in claims[a]
    /\ d \notin payload[a]
    /\ ledger[d].to # a

\* adopted_then_emptied (D49).
Emptied == {d \in Dest \ Rows : adopted[d] # NoAdopt /\ live[d] = Nothing}

\* Its second advice: link the copy again.
Relinkable(d) == d \in claims[adopted[d].into] \intersect payload[adopted[d].into]

\* rescue: missing, stale, or not asked for.
RescueUnreliable == current > 0 /\ rescue # current - 1

Reported == Broken \union {d \in Dest : RestoredUnrecorded(d)} \union Undeclared

(***************************************************************************)
(* diff                                                                    *)
(***************************************************************************)

\* A row that is not Row::same: what the profile declares, and what the
\* ledger has beyond it unless nothing is there.
Differs(a, d) ==
    \/ d \in claims[a] /\ ~(Owns(d) /\ live[d].to = a /\ d \in payload[a])
    \/ d \in Rows \ claims[a] /\ Shape(d) # "absent"

(***************************************************************************)
(* Properties                                                              *)
(***************************************************************************)

SwitchTargets(a) == [d \in claims[a] |-> a]
SwitchRetires(a) == Rows \ claims[a]

\* A switch to a ends with "nothing to do".
NothingToDo(a) ==
    /\ ~Declines(SwitchTargets(a), SwitchRetires(a))
    /\ DOMAIN Changes(SwitchTargets(a), SwitchRetires(a)) = {}

\* The paths that make plan refuse a switch to a.
Stoppers(a) ==
    {d \in claims[a] \union SwitchRetires(a) :
        \/ Shape(d) \notin {"owned", "absent"}
        \/ d \in claims[a] \ payload[a]}

\* The reports foretell the switch: diff says that a profile is what is live
\* exactly when a switch to it finds nothing to do; and a path ricepilot has
\* a record of, or a source that is missing, never makes a switch refuse
\* without doctor having named it.
ReportsForetellSwitch ==
    AtRest => \A a \in Profile :
        /\ (\A d \in Dest : ~Differs(a, d)) <=> NothingToDo(a)
        /\ \A d \in Stoppers(a) :
              d \in Rows \/ d \in claims[a] \ payload[a] =>
                  d \in Reported \/ MissingSource(a, d)

\* At rest rescue.sh restores the generation before the current one, also
\* when the operation died before writing it and a recover finished it.  On a
\* machine whose live paths, manifests and profiles only ricepilot has
\* changed, whatever died and was recovered, doctor has nothing to complain
\* of; and where it says that an adopted path is empty, the directory is in
\* the attic and the copy it offers to link is one a switch accepts.
DoctorIsQuiet ==
    AtRest =>
        /\ ~RescueUnreliable
        /\ tampers = 0 =>
              /\ Reported = {}
              /\ \A d \in Emptied :
                    /\ adopted[d].attic
                    /\ Relinkable(d)
                    /\ d \notin Stoppers(adopted[d].into)

\* After rescue.sh, and nothing else since, the commands doctor prints lead
\* to a rollback that records what the script restored: with what it sets
\* aside out of the way the rollback is not refused at any link, every path
\* the script gave another link or none is answered with the rollback and
\* never with a switch back, and the generation the rollback re-applies has
\* the links that are live (D81).
RescueIsAnswered ==
    AtRest /\ since = "rescue" /\ HasBefore =>
        LET links == Links(current - 1)
            blocking == {d \in DOMAIN links \union Rows : Shape(d) = "foreign"}
            reported == Broken \union {d \in Dest : RestoredUnrecorded(d)}
        IN  /\ \A d \in blocking : d \in reported /\ Advice(d).aside
            /\ \A d \in reported :
                  d \in DOMAIN Before /\ live[d].to # Directory =>
                      \/ Advice(d).run = "rollback"
                      \/ d \in DOMAIN Links(current) /\ live[d].to = Links(current)[d]
            /\ \A d \in DOMAIN links : live[d].to \in {links[d], Directory}
=============================================================================
