---------------------------------- MODULE Gc ----------------------------------
(***************************************************************************)
(* `ricepilot gc --commit`, the one command that removes anything: the     *)
(* survey of the attic, the name typed back, the second look at the entry, *)
(* the rename to state/gc/ and the removal there, object by object.  The   *)
(* process may die anywhere, and the user, rescue.sh and other programs    *)
(* change the entries, the profiles and the live paths meanwhile.          *)
(*                                                                         *)
(* Source: src/src/gc/mod.rs, src/src/gc/remove.rs, src/src/cli/gc.rs.     *)
(*                                                                         *)
(* An entry is a tree over a few names: the link some operation displaced, *)
(* the directory an adopt displaced with its files, and one name nothing   *)
(* accounts for.  Mounts, permissions and depth only ever keep an entry;   *)
(* they are left out.                                                      *)
(***************************************************************************)
EXTENDS Integers, FiniteSets, Functions

CONSTANTS
    Entry,          \* names an attic entry can have
    Kind,           \* per entry, which record accounts for it
    File,           \* names inside an adopted directory
    MaxChanges,     \* bound: changes made by anybody but gc
    MaxStops        \* bound: how often gc dies

\* An adopt's or a switch's journal, or the generation of a rescue attic.
Kinds == {"adopt", "switch", "rescue"}

ASSUME EntryAssumption == IsFiniteSet(Entry) /\ Kind \in [Entry -> Kinds]
ASSUME FileAssumption == File \intersect {"link", "dir", "stray", "none"} = {}
ASSUME BoundsAssumption ==
    MaxChanges \in Nat /\ MaxStops \in Nat

Name == {"link", "dir", "stray"} \union File

\* An object: its inode, and what it holds.  A link leads to a target some
\* record names, or to one that no record does.
Inode == 1..3
Contents(p) == IF p = "link" THEN {"recorded", "unrecorded"} ELSE {"a", "b"}
Object(p) == [ino : Inode, is : Contents(p)]

\* A tree, with the names that are there as its domain; None is no entry.
Tree == UNION {{t \in [D -> UNION {Object(p) : p \in Name}] :
                   /\ \A p \in D : t[p] \in Object(p)
                   /\ D \intersect File # {} => "dir" \in D} : D \in SUBSET Name}
None == [none |-> 0]
There(t, p) == t # None /\ p \in DOMAIN t

\* What the operator is asked about: an entry as it was listed.
Item == [area : {"attic", "gc"}, entry : Entry, listing : Tree]
NoItem == [area |-> "none", listing |-> <<>>]

VARIABLES
    attic,      \* state/attic/<entry>
    tomb,       \* state/gc/attic-<entry>
    copy,       \* per adopted directory, the profile's copy of its files
    dest,       \* per entry, what is at its destination: ricepilot's link,
                \* nothing, a link into the entry or into its tombstone,
                \* another link, a directory
    inflight,   \* a journal is in flight
    phase,      \* what the gc that holds the lock does next, "idle" without one
    asked,      \* the candidates it has yet to ask about
    item,       \* the one whose name was typed
    refs,       \* what the second look found pointing into it
    now,        \* the listing of the second look
    looked,     \* names checked against the listing
    removed,    \* names removed
    raced,      \* history: names changed between the look and the removal
    disturbed,  \* history: what others changed since the name was typed
    changes, stops

entries == <<attic, tomb>>
world == <<copy, dest, inflight>>
judged == <<item, refs, now>>
progress == <<looked, removed, raced>>
vars == <<entries, world, phase, asked, judged, progress, disturbed, changes, stops>>

NoRefs == [pointed |-> FALSE, pending |-> FALSE]

TypeOK ==
    /\ attic \in [Entry -> Tree \union {None}]
    /\ tomb \in [Entry -> Tree \union {None}]
    /\ copy \in [Entry -> [File -> {"a", "b", "absent"}]]
    /\ dest \in [Entry -> {"ours", "empty", "pointer", "tombpointer", "foreign", "directory"}]
    /\ inflight \in BOOLEAN
    /\ phase \in {"idle", "asking", "typed", "loaded", "walked", "accepted", "erasing"}
    /\ asked \subseteq Item
    /\ item \in Item \union {NoItem}
    /\ refs \in [pointed : BOOLEAN, pending : BOOLEAN]
    /\ now \in Tree
    /\ looked \subseteq Name
    /\ removed \subseteq looked
    /\ raced \subseteq looked
    /\ disturbed \subseteq Entry \X (Name \union {"dest"})
    /\ changes \in 0..MaxChanges
    /\ stops \in 0..MaxStops

\* What an operation of each kind has left in its attic: a link, perhaps not
\* the one it expected, or the directory of an adopt.  rescue.sh has not run.
Displaced(e) ==
    LET as(p, c) == [ino |-> 1, is |-> c]
        links == {[p \in {"link"} |-> as(p, c)] : c \in Contents("link")}
    IN  CASE Kind[e] = "adopt" ->
                links \union {[p \in {"dir"} \union F |-> as(p, "a")] : F \in SUBSET File}
          [] Kind[e] = "switch" -> links
          [] Kind[e] = "rescue" -> {None}

Init ==
    /\ attic \in [Entry -> UNION {Displaced(e) : e \in Entry}]
    /\ \A e \in Entry : attic[e] \in Displaced(e)
    /\ tomb = [e \in Entry |-> None]
    /\ copy = [e \in Entry |-> [f \in File |-> IF There(attic[e], f) THEN "a" ELSE "absent"]]
    /\ dest = [e \in Entry |-> "ours"]
    /\ inflight = FALSE
    /\ phase = "idle"
    /\ asked = {}
    /\ item = NoItem
    /\ refs = NoRefs
    /\ now = <<>>
    /\ looked = {}
    /\ removed = {}
    /\ raced = {}
    /\ disturbed = {}
    /\ changes = 0
    /\ stops = 0

(***************************************************************************)
(* What may go                                                             *)
(***************************************************************************)

\* Mutant: that the profile has a file of the name is enough.
HeldByName(e) ==
    /\ dest[e] = "ours"
    /\ \A f \in File : There(attic[e], f) => copy[e][f] # "absent"

\* Mutant: the way back of a rolled back adopt is not looked at.
HeldAnywhere(e) ==
    \A f \in File : There(attic[e], f) => copy[e][f] = attic[e][f].is

\* held_elsewhere: the destination is ricepilot's link and the profile has
\* every file of the directory, as it is in the directory.
Held(e) ==
    /\ dest[e] = "ours"
    /\ \A f \in File : There(attic[e], f) => copy[e][f] = attic[e][f].is

\* account: every object is at a place the record names.  A link at the place
\* of a link is one, wherever it leads.
Accounted(e, listing) ==
    /\ "stray" \notin DOMAIN listing
    /\ "dir" \in DOMAIN listing => Kind[e] = "adopt" /\ Held(e)

\* A link that leads into an entry where it is now.
Pointer(area) == IF area = "gc" THEN "tombpointer" ELSE "pointer"

\* Refs::load and pointing_into: a link that is known leads into the entry,
\* or a removal of the same name is waiting.
References(area, e) == [pointed |-> dest[e] = Pointer(area), pending |-> tomb[e] # None]

\* assess.  What a link leads into is kept wherever it is; an interrupted
\* removal is not judged by what it holds.
Fit(area, e, listing, seen) ==
    /\ ~seen.pointed
    /\ area = "attic" => ~seen.pending /\ Accounted(e, listing)

Holds(area, e) == IF area = "gc" THEN tomb[e] ELSE attic[e]

Candidates ==
    {i \in {[area |-> a, entry |-> e, listing |-> Holds(a, e)] :
               a \in {"attic", "gc"}, e \in Entry} :
        i.listing # None /\ Fit(i.area, i.entry, i.listing, References(i.area, i.entry))}

(***************************************************************************)
(* gc, under the lock                                                      *)
(***************************************************************************)

\* What collect had in its memory is gone when it returns.
Forgets ==
    /\ item' = NoItem
    /\ refs' = NoRefs
    /\ now' = <<>>
    /\ looked' = {}
    /\ removed' = {}
    /\ raced' = {}
    /\ disturbed' = {}

\* run: the lock is taken and everything itemised above the first question.
Survey ==
    /\ phase = "idle"
    /\ ~inflight
    /\ Candidates # {}
    /\ asked' = Candidates
    /\ phase' = "asking"
    /\ UNCHANGED <<entries, world, judged, progress, disturbed, changes, stops>>

\* The interrupted removals are asked about first.
Asking(i) ==
    /\ phase = "asking"
    /\ i \in asked
    /\ (\E j \in asked : j.area = "gc") => i.area = "gc"
    /\ asked' = asked \ {i}

NotTyped(i) ==
    /\ Asking(i)
    /\ UNCHANGED <<entries, world, phase, judged, progress, disturbed, changes, stops>>

Typed(i) ==
    /\ Asking(i)
    /\ item' = i
    /\ phase' = "typed"
    /\ UNCHANGED <<entries, world, refs, now, progress, disturbed, changes, stops>>

Leaves ==
    /\ phase = "asking"
    /\ asked = {}
    /\ phase' = "idle"
    /\ UNCHANGED <<entries, world, asked, judged, progress, disturbed, changes, stops>>

\* Mutant: the links at the destinations are not read again.
LoadRecords ==
    /\ phase = "typed"
    /\ refs' = [References(item.area, item.entry) EXCEPT !.pointed = FALSE]
    /\ phase' = "loaded"
    /\ UNCHANGED <<entries, world, asked, item, now, progress, disturbed, changes, stops>>

\* collect, assess_again: the records are read afresh ...
LoadRefs ==
    /\ phase = "typed"
    /\ refs' = References(item.area, item.entry)
    /\ phase' = "loaded"
    /\ UNCHANGED <<entries, world, asked, item, now, progress, disturbed, changes, stops>>

\* ... the entry is walked ...
Walk ==
    /\ phase = "loaded"
    /\ now' = Holds(item.area, item.entry)
    /\ phase' = "walked"
    /\ UNCHANGED <<entries, world, asked, item, refs, progress, disturbed, changes, stops>>

\* Mutant: an interrupted removal is judged like an entry of the attic.
AcceptableAnew ==
    /\ Fit("attic", item.entry, now, [refs EXCEPT !.pending = FALSE])
    /\ now = item.listing

\* ... and it is still a candidate, and what was shown.
Acceptable ==
    /\ Fit(item.area, item.entry, now, refs)
    /\ now = item.listing

Accept ==
    /\ phase = "walked"
    /\ Acceptable
    /\ phase' = "accepted"
    /\ UNCHANGED <<entries, world, asked, judged, progress, disturbed, changes, stops>>

\* remove::bury: one rename, of the whole entry, to a name that is free.
Bury ==
    /\ phase = "accepted" /\ item.area = "attic"
    /\ tomb[item.entry] = None
    /\ tomb' = [tomb EXCEPT ![item.entry] = attic[item.entry]]
    /\ attic' = [attic EXCEPT ![item.entry] = None]
    /\ phase' = "erasing"
    /\ UNCHANGED <<world, asked, judged, progress, disturbed, changes, stops>>

\* Tombstone::already.
Resume ==
    /\ phase = "accepted" /\ item.area = "gc"
    /\ phase' = "erasing"
    /\ UNCHANGED <<entries, world, asked, judged, progress, disturbed, changes, stops>>

(***************************************************************************)
(* remove::erase                                                           *)
(***************************************************************************)

Stone == tomb[item.entry]
Left == DOMAIN item.listing \ removed

\* The listed name the removal is at: a name that was looked at is taken away
\* before another one is, a directory after its files.
At(p) ==
    /\ phase = "erasing"
    /\ p \in Left
    /\ p \in File => "dir" \in looked
    /\ \A q \in looked \ (removed \union {"dir"}) : q = p
    /\ "dir" \in looked \ removed => p \in File \union {"dir"}

\* Mutant: an object of the name will do.
SameName(p) == There(Stone, p)

\* The object is there, and the one that was listed.
Same(p) == There(Stone, p) /\ Stone[p].ino = item.listing[p].ino

Look(p) ==
    /\ At(p)
    /\ p \notin looked
    /\ Same(p)
    /\ looked' = looked \union {p}
    /\ UNCHANGED <<entries, world, phase, asked, judged, removed, raced, disturbed, changes, stops>>

\* A directory goes when it is empty.
Emptied(p) == p = "dir" => File \intersect (Left \union DOMAIN Stone) = {}

Unlink(p) ==
    /\ At(p)
    /\ p \in looked
    /\ There(Stone, p)
    /\ Emptied(p)
    /\ tomb' = [tomb EXCEPT ![item.entry] =
                  Restrict(@, DOMAIN @ \ (IF p = "dir" THEN {p} \union File ELSE {p}))]
    /\ removed' = removed \union {p}
    /\ UNCHANGED <<attic, world, phase, asked, judged, looked, raced, disturbed, changes, stops>>

\* The entry's own directory, last.
Finish ==
    /\ phase = "erasing"
    /\ Left = {}
    /\ DOMAIN Stone = {}
    /\ tomb' = [tomb EXCEPT ![item.entry] = None]
    /\ phase' = "asking"
    /\ Forgets
    /\ UNCHANGED <<attic, world, asked, changes, stops>>

\* Anything that is not as listed ends the removal of this entry; what is
\* left stays where it is, and the next candidate is asked about.
Refuse ==
    /\ \/ phase = "walked" /\ ~Acceptable
       \/ \E p \in Left : At(p) /\ p \notin looked /\ ~Same(p)
       \/ \E p \in Left : /\ At(p) /\ p \in looked
                          /\ \/ ~There(Stone, p)
                             \/ File \intersect Left = {} /\ ~Emptied(p)
       \/ phase = "erasing" /\ Left = {} /\ DOMAIN Stone # {}
    /\ phase' = "asking"
    /\ Forgets
    /\ UNCHANGED <<entries, world, asked, changes, stops>>

\* The process dies, or the terminal is closed.
Stop ==
    /\ phase # "idle"
    /\ stops < MaxStops
    /\ stops' = stops + 1
    /\ phase' = "idle"
    /\ asked' = {}
    /\ Forgets
    /\ UNCHANGED <<entries, world, changes>>

(***************************************************************************)
(* Everybody else                                                          *)
(***************************************************************************)

Changes ==
    /\ changes < MaxChanges
    /\ changes' = changes + 1

Disturbs(e, p) == disturbed' = IF item.area # "none" /\ item.entry = e
                               THEN disturbed \union {<<e, p>>} ELSE disturbed

\* An inode nobody has seen at this name.
Fresh(e, p, t) ==
    CHOOSE n \in Inode :
        /\ There(t, p) => n # t[p].ino
        /\ \A i \in asked \union {item} :
              i.area # "none" /\ i.entry = e /\ p \in DOMAIN i.listing
                  => n # i.listing[p].ino

\* The tree with o at p, or with nothing there.
With(t, p, o) == [q \in DOMAIN t \union {p} |-> IF q = p THEN o ELSE t[q]]
Without(t, S) == Restrict(t, DOMAIN t \ S)

\* Somebody writes to a file of an entry, puts something in it or in the
\* place of something, or takes something out.
Meddle(area, e, p) ==
    LET t == Holds(area, e) IN
    /\ Changes
    /\ t # None
    /\ p \in File => "dir" \in DOMAIN t
    /\ \E u \in {With(t, p, [ino |-> Fresh(e, p, t), is |-> c]) : c \in Contents(p)}
                  \union (IF p \in DOMAIN t THEN {Without(t, {p})} ELSE {})
                  \union (IF p \in DOMAIN t /\ p \in File
                          THEN {With(t, p, [ino |-> t[p].ino, is |-> c]) :
                                   c \in Contents(p) \ {t[p].is}} ELSE {}) :
          IF area = "gc"
          THEN tomb' = [tomb EXCEPT ![e] = u] /\ UNCHANGED attic
          ELSE attic' = [attic EXCEPT ![e] = u] /\ UNCHANGED tomb
    /\ Disturbs(e, p)
    /\ raced' = IF area = "gc" /\ item.area # "none" /\ item.entry = e /\ p \in looked \ removed
                THEN raced \union {p} ELSE raced
    /\ UNCHANGED <<world, phase, asked, judged, looked, removed, stops>>

\* A program rewrites a file of the profile's copy, or removes it.
CopyDrifts(e, f) ==
    /\ Changes
    /\ \E c \in {"a", "b", "absent"} \ {copy[e][f]} : copy' = [copy EXCEPT ![e][f] = c]
    /\ Disturbs(e, f)
    /\ UNCHANGED <<entries, dest, inflight, phase, asked, judged, progress, stops>>

\* A link into the attic, into state/gc or elsewhere, made by hand; or the
\* link taken away.
LinkByHand(e) ==
    /\ Changes
    /\ dest[e] # "directory"
    /\ \E d \in {"pointer", "tombpointer", "foreign", "empty"} \ {dest[e]} :
          /\ d = "tombpointer" => tomb[e] # None
          /\ dest' = [dest EXCEPT ![e] = d]
    /\ Disturbs(e, "dest")
    /\ UNCHANGED <<entries, copy, inflight, phase, asked, judged, progress, stops>>

\* The way back of an adopt that was rolled back: `mv -nT <attic path> <dest>`.
WayBack(e) ==
    /\ Changes
    /\ dest[e] = "empty"
    /\ There(attic[e], "dir")
    /\ attic' = [attic EXCEPT ![e] = Without(@, {"dir"} \union File)]
    /\ dest' = [dest EXCEPT ![e] = "directory"]
    /\ Disturbs(e, "dir")
    /\ UNCHANGED <<tomb, copy, inflight, phase, asked, judged, progress, stops>>

\* rescue.sh, which takes no lock, parks whatever link is at a destination
\* its generation has nothing at - unless the place in its attic is taken.
RescueParks(e) ==
    LET link == [ino |-> Fresh(e, "link", attic[e]),
                 is  |-> IF dest[e] = "ours" THEN "recorded" ELSE "unrecorded"]
    IN  /\ Changes
        /\ Kind[e] = "rescue"
        /\ dest[e] \in {"ours", "pointer", "tombpointer", "foreign"}
        /\ ~There(attic[e], "link")
        /\ attic' = [attic EXCEPT ![e] = IF @ = None THEN [p \in {"link"} |-> link]
                                         ELSE With(@, "link", link)]
        /\ dest' = [dest EXCEPT ![e] = "empty"]
        /\ Disturbs(e, "link")
        /\ UNCHANGED <<tomb, copy, inflight, phase, asked, judged, progress, stops>>

\* Another operation, which needs the lock: a rollback empties a destination,
\* a switch makes its link again, one that dies leaves its journal and a
\* recover retires it.
Operates(e) ==
    /\ Changes
    /\ phase = "idle"
    /\ ~inflight
    /\ \/ dest[e] = "ours" /\ dest' = [dest EXCEPT ![e] = "empty"]
       \/ dest[e] = "empty" /\ dest' = [dest EXCEPT ![e] = "ours"]
    /\ inflight' \in BOOLEAN
    /\ UNCHANGED <<entries, copy, phase, asked, judged, progress, disturbed, stops>>

Recover ==
    /\ phase = "idle"
    /\ inflight
    /\ inflight' = FALSE
    /\ UNCHANGED <<entries, copy, dest, phase, asked, judged, progress,
                   disturbed, changes, stops>>

Removes ==
    \/ LoadRefs
    \/ Walk
    \/ Accept
    \/ Bury
    \/ Resume
    \/ \E p \in Name : Look(p)
    \/ \E p \in Name : Unlink(p)
    \/ Finish
    \/ Refuse
    \/ Leaves

Others ==
    \/ \E a \in {"attic", "gc"}, e \in Entry, p \in Name \ {"dir"} : Meddle(a, e, p)
    \/ \E e \in Entry, f \in File : CopyDrifts(e, f)
    \/ \E e \in Entry : LinkByHand(e)
    \/ \E e \in Entry : WayBack(e)
    \/ \E e \in Entry : RescueParks(e)
    \/ \E e \in Entry : Operates(e)
    \/ Recover

Next ==
    \/ Survey
    \/ \E i \in asked : Typed(i)
    \/ \E i \in asked : NotTyped(i)
    \/ Removes
    \/ Stop
    \/ Others

(***************************************************************************)
(* A gc that has been answered goes on; a journal in flight is recovered;  *)
(* and an operator who is offered an interrupted removal again and again   *)
(* runs gc and types its name in the end.                                  *)
(***************************************************************************)
Fairness ==
    /\ WF_vars(Removes)
    /\ WF_vars(Recover)
    /\ WF_vars(Survey)
    /\ WF_vars(\E i \in asked : NotTyped(i))
    /\ SF_vars(\E i \in asked : i.area = "gc" /\ Typed(i))

Spec == Init /\ [][Next]_vars /\ Fairness

(***************************************************************************)
(* Properties                                                              *)
(***************************************************************************)

\* The object at p of the entry in hand is taken away by gc.
Takes(p) ==
    /\ item.area # "none"
    /\ There(Stone, p)
    /\ ~There(tomb'[item.entry], p)
    /\ changes' = changes

Untouched(p) == <<item.entry, p>> \notin disturbed

\* "A directory adopt displaced is kept unless it is provably held elsewhere"
\* (D61): a file gc takes out of one is, at that moment, in the profile that
\* ricepilot's link at the destination leads to - unless somebody changed one
\* of the three since its name was typed, or the removal was one that had been
\* interrupted before.
TakesOnlyWhatIsHeld ==
    [][\A f \in File :
          Takes(f) /\ item.area = "attic" =>
              \/ copy[item.entry][f] = Stone[f].is
              \/ ~Untouched(f)]_vars

\* The same for the way back of an adopt that was rolled back (D49): the
\* directory goes only while the destination is ricepilot's link.
WayBackIsKept ==
    [][Takes("dir") /\ item.area = "attic" =>
          dest[item.entry] = "ours" \/ ~Untouched("dest")]_vars

\* "Only what the operator was shown" (D62): what gc takes away is the very
\* object its listing had at that name, whatever others do in between - as
\* long as nobody changes it between the look at it and its removal.
TakesOnlyWhatWasShown ==
    [][\A p \in Name : Takes(p) =>
          \/ p \in DOMAIN item.listing /\ Stone[p].ino = item.listing[p].ino
          \/ p \in raced]_vars

\* "Nothing ricepilot records may point into it" (D61): no entry that a known
\* link leads into is moved away from under it, and nothing is taken out of an
\* interrupted removal that one leads into, unless the link was made after the
\* name was typed.
PointedAtStays ==
    [][/\ \A e \in Entry :
             tomb[e] = None /\ tomb'[e] # None =>
                 dest[e] # "pointer" \/ <<e, "dest">> \in disturbed
       /\ \A p \in Name :
             Takes(p) /\ item.area = "gc" =>
                 dest[item.entry] # "tombpointer" \/ ~Untouched("dest")]_vars

\* An interrupted removal is finished in the end, however often gc died in it
\* and whatever has become of its contents and the copy meanwhile - unless a
\* known link leads into it for good: what one leads into is kept.
RemovalEnds ==
    \A e \in Entry :
        \/ tomb[e] # None ~> tomb[e] = None
        \/ <>[](dest[e] = "tombpointer")

=============================================================================
