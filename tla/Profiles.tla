------------------------------- MODULE Profiles -------------------------------
(***************************************************************************)
(* How a profile comes to hold files, and how ricepilot knows that they    *)
(* have changed: capture, adopt and init copy directories that programs    *)
(* are writing to, compare the copy with the original, and record a tree   *)
(* manifest; switch compares the profile with that record and makes a new  *)
(* one; recover does what a dead adopt or switch did not get to.           *)
(*                                                                         *)
(* Source: src/src/cli/capture.rs, src/src/cli/adopt.rs,                   *)
(* src/src/cli/init.rs, src/src/verify.rs, copy_tree of                    *)
(* src/src/ops/mutate.rs, and drift and the record of                      *)
(* src/src/cli/switch.rs.                                                  *)
(*                                                                         *)
(* A tree is a partial function from names to files; a file is a content   *)
(* and the time of its last write, and every write takes a new time.  How  *)
(* a live path is exchanged for a link is module Journal's subject, which  *)
(* links a profile has is module Operations'.                              *)
(***************************************************************************)
EXTENDS Integers, Sequences, FiniteSets, Functions

CONSTANTS
    Dir,            \* live directories, each with a leaf name of its own
    Order,          \* the names in a directory, in the order of a walk
    In,             \* per name, the directory below it is in; the first name's
                    \* is the directory itself
    Text,           \* what a file may say
    Volatile,       \* names init proposes as volatile
    MaxCommands,    \* bound: commands that get past their plan
    MaxEdits,       \* bound: changes by other programs and the user
    MaxStops        \* bound: how often a process dies

Name == {Order[i] : i \in 1..Len(Order)}
Group == {In[n] : n \in Name}

ASSUME SetsAssumption ==
    /\ IsFiniteSet(Dir)
    /\ Order \in Seq(Name)
    /\ Text # {}
    /\ In \in [Name -> Group]
    /\ Volatile \subseteq Name
ASSUME BoundsAssumption == {MaxCommands, MaxEdits, MaxStops} \subseteq Nat

VARIABLES
    live,       \* the live paths: a directory with an inode, or a link
    attic,      \* per adopted path, the directory displaced
    profile,    \* profiles/<name>: its payload, its profile.toml, its root
    staging,    \* staging/<name>-<id>
    baseline,   \* state/baseline/<name>: "none", "begun" or "whole"
    registered, \* whether init's rows are in the ledger
    recorded,   \* state/manifests/<name>.toml
    journal,    \* the operation in flight
    step,       \* what the process that holds the lock does next, or "free"
    job,        \* what it is about, in its memory
    walk,       \* how far its walk over a directory is
    accepted,   \* history: the directories whose copy was accepted
    image,      \* history: the directory as it was when its copy ended
    moved,      \* history: the names written to since then
    before,     \* history: what the paths said that others have changed at
                \* rest since the last whole record
    excused,    \* history: the paths others changed while an operation was
                \* under way, or an adopt wrote and did not get to record
    shown,      \* history: the drift the last switch showed
    commands, edits, stops

disk == <<live, attic, profile, staging, baseline, registered, recorded, journal>>
process == <<step, job, walk>>
copying == <<accepted, image, moved>>
drifting == <<before, excused, shown>>
bounds == <<commands, edits, stops>>
vars == <<disk, process, copying, drifting, bounds>>

File == [text : Text, at : 0..MaxEdits]
Tree == UNION {[N -> File] : N \in SUBSET Name}
Empty == [n \in {} |-> 0]
Payload == UNION {[D -> Tree] : D \in SUBSET Dir}

\* profile.toml: the directories it declares, and the user's own changes.
Toml == [declares : SUBSET Dir, notes : 0..MaxEdits]
NoToml == [declares |-> {}, notes |-> -1]

\* by-reference: the root is a live tree, and there is no payload.
Nowhere == "nowhere"
ASSUME RootAssumption == Nowhere \notin Dir

NoProfile == [there |-> FALSE, root |-> Nowhere, volatile |-> {},
              payload |-> Empty, toml |-> NoToml]

NoJournal == [kind |-> "none"]
NoJob == [kind |-> "none"]
NoRecord == [is |-> "none"]
NoWalk == [at |-> 0]
Unseen == -1

\* A path of the profile's tree, relative to its root.
ManifestPath == <<"profile.toml", "profile.toml">>
Path == (Dir \X Name) \union {ManifestPath}

Steps == {"free", "next", "copy", "compare", "manifest", "appear", "register",
          "record", "declare", "journal", "exchange", "rerecord", "apply", "finish"}

TypeOK ==
    /\ \A d \in Dir : /\ live[d].is \in {"dir", "link"}
                      /\ live[d].files \in Tree
    /\ DOMAIN attic \subseteq Dir
    /\ profile.payload \in Payload
    /\ profile.toml \in Toml \union {NoToml}
    /\ staging.payload \in Payload
    /\ baseline \in {"none", "begun", "whole"}
    /\ registered \in BOOLEAN
    /\ recorded.is \in {"none", "tree"}
    /\ journal.kind \in {"none", "adopt", "switch"}
    /\ step \in Steps
    /\ accepted \subseteq Dir
    /\ excused \subseteq Path
    /\ DOMAIN before \subseteq Path

First == CHOOSE t \in Text : TRUE

Init ==
    /\ live = [d \in Dir |->
                 [is |-> "dir", ino |-> 1,
                  files |-> [n \in Name |-> [text |-> First, at |-> 0]]]]
    /\ attic = Empty
    /\ profile = NoProfile
    /\ staging = NoProfile
    /\ baseline = "none"
    /\ registered = FALSE
    /\ recorded = NoRecord
    /\ journal = NoJournal
    /\ step = "free"
    /\ job = NoJob
    /\ walk = NoWalk
    /\ accepted = {}
    /\ image = Empty
    /\ moved = {}
    /\ before = Empty
    /\ excused = {}
    /\ shown = {}
    /\ commands = 0
    /\ edits = 0
    /\ stops = 0

AtRest == step = "free" /\ journal = NoJournal

Without(t, n) == [m \in DOMAIN t \ {n} |-> t[m]]
Put(t, n, file) == [m \in DOMAIN t \union {n} |-> IF m = n THEN file ELSE t[m]]

(***************************************************************************)
(* Tree manifests                                                          *)
(***************************************************************************)

ByReference == profile.root # Nowhere

\* The files of the profile's tree.
Files == IF ByReference THEN [d \in {profile.root} |-> live[d].files]
         ELSE profile.payload

\* verify::build over the profile's root, its volatile globs left out.
Build ==
    LET kept == {p \in Dir \X Name :
                   /\ p[1] \in DOMAIN Files
                   /\ p[2] \in DOMAIN Files[p[1]] \ profile.volatile}
        tree == [p \in kept |-> Files[p[1]][p[2]]]
    IN  IF ByReference THEN tree
        ELSE Put(tree, ManifestPath, [text |-> profile.toml, at |-> 0])

\* compare, without what was only touched: removed, added, or other content.
Changed(was, is) ==
    {p \in DOMAIN was \union DOMAIN is :
        \/ p \notin DOMAIN was
        \/ p \notin DOMAIN is
        \/ was[p].text # is[p].text}

\* compare_one's Touched: the same content, written again.
Touched(was, is) ==
    {p \in DOMAIN was \intersect DOMAIN is :
        was[p].text = is[p].text /\ was[p].at # is[p].at}

\* against_record, and what of it is substantive.
Drift == IF recorded = NoRecord THEN {} ELSE Changed(recorded.tree, Build)

\* rerecord_paths: the rows of the given paths are made again.
Rerecorded(mine) ==
    LET now == Build
        kept == DOMAIN recorded.tree \ mine
        made == DOMAIN now \intersect mine
    IN  [is |-> "tree",
         tree |-> [p \in kept \union made |->
                     IF p \in made THEN now[p] ELSE recorded.tree[p]]]

(***************************************************************************)
(* A command begins, under the lock                                        *)
(***************************************************************************)

NewWalk == [at |-> 1, listed |-> {}, names |-> {}, seen |-> Unseen, out |-> Empty]

Begins(j, first, w) ==
    /\ step = "free"
    /\ commands < MaxCommands
    /\ commands' = commands + 1
    /\ job' = j
    /\ step' = first
    /\ walk' = w

IsDir(d) == live[d].is = "dir"

\* The paths an adopt of d writes in the profile.
Own(d) == ({d} \X Name) \union {ManifestPath}

\* capture: the profile's name is free, and the sources are directories.
StartCapture(from) ==
    /\ ~profile.there
    /\ from # {}
    /\ \A d \in from : IsDir(d)
    /\ Begins([kind |-> "capture", from |-> from, todo |-> from, dir |-> Nowhere],
              "next", NoWalk)
    /\ staging' = NoProfile
    /\ UNCHANGED <<live, attic, profile, baseline, registered, recorded, journal,
                   copying, drifting, edits, stops>>

\* init, up to the answers: neither the profile nor its baseline may be there.
StartInit(root, volatile) ==
    /\ ~profile.there
    /\ baseline = "none"
    /\ IsDir(root)
    /\ Begins([kind |-> "init", dir |-> root, volatile |-> volatile], "copy", NewWalk)
    /\ baseline' = "begun"
    /\ UNCHANGED <<live, attic, profile, staging, registered, recorded, journal,
                   copying, drifting, edits, stops>>

\* adopt, up to the yes: plan_it has the directory's inode.
StartAdopt(d) ==
    /\ profile.there
    /\ ~ByReference
    /\ journal = NoJournal
    /\ IsDir(d)
    /\ d \notin DOMAIN profile.payload
    /\ Begins([kind |-> "adopt", dir |-> d, ino |-> live[d].ino], "copy", NewWalk)
    /\ profile' = [profile EXCEPT !.payload = Put(@, d, Empty)]
    /\ excused' = excused \union Own(d)
    /\ UNCHANGED <<live, attic, staging, baseline, registered, recorded, journal,
                   copying, before, shown, edits, stops>>

\* switch into the profile, as far as the journal: with --strict drift, or no
\* record to compare with, declines.
StartSwitch(strict) ==
    /\ profile.there
    /\ journal = NoJournal
    /\ strict => recorded # NoRecord /\ Drift = {}
    /\ Begins([kind |-> "switch"], "apply", NoWalk)
    /\ shown' = Drift
    /\ journal' = [kind |-> "switch", crossed |-> FALSE]
    /\ UNCHANGED <<live, attic, profile, staging, baseline, registered, recorded,
                   copying, before, excused, edits, stops>>

\* recover: forward when the exchange has happened, else the journal goes.
StartRecover ==
    /\ step = "free"
    /\ journal # NoJournal
    /\ LET crossed == IF journal.kind = "adopt" THEN live[journal.dir].is = "link"
                      ELSE journal.crossed
       IN  step' = IF ~crossed THEN "finish"
                   ELSE IF journal.kind = "adopt" THEN "rerecord" ELSE "record"
    /\ job' = journal
    /\ walk' = NoWalk
    /\ UNCHANGED <<disk, copying, drifting, bounds>>

(***************************************************************************)
(* The walk over a directory: copy_tree's, and verify::build's after it.   *)
(* A directory is listed when the walk comes to it; then each object is    *)
(* looked at, and read in a later step.                                    *)
(***************************************************************************)

Source == live[job.dir].files
Here == Order[walk.at]
InWalk == step \in {"copy", "compare"}
Walking == InWalk /\ walk.at <= Len(Order)
Goes(w) == walk' = w /\ UNCHANGED <<step, job>>

\* Where the copy goes as it is made: the staged profile, the profile, or the
\* baseline, whose contents nothing reads.
Writes(tree) ==
    CASE step = "compare" \/ job.kind = "init" -> UNCHANGED <<profile, staging>>
      [] step = "copy" /\ job.kind = "capture" ->
            /\ staging' = [staging EXCEPT !.payload[job.dir] = tree]
            /\ UNCHANGED profile
      [] step = "copy" /\ job.kind = "adopt" ->
            /\ profile' = [profile EXCEPT !.payload[job.dir] = tree]
            /\ UNCHANGED staging

\* list_dir.
List ==
    /\ Walking
    /\ In[Here] \notin walk.listed
    /\ Goes([walk EXCEPT !.listed = @ \union {In[Here]},
                         !.names = @ \union {n \in DOMAIN Source : In[n] = In[Here]}])
    /\ UNCHANGED <<disk, copying, drifting, bounds>>

\* statat of copy_one, lstat of Walk::walk: a name that was not listed is not
\* come to, one that has gone since is passed over by build.
Look ==
    /\ Walking
    /\ In[Here] \in walk.listed
    /\ walk.seen = Unseen
    /\ \/ /\ Here \in walk.names \intersect DOMAIN Source
          /\ Goes([walk EXCEPT !.seen = Source[Here].at])
       \/ /\ \/ Here \notin walk.names
             \/ Here \notin DOMAIN Source /\ step = "compare"
          /\ Goes([walk EXCEPT !.at = @ + 1])
    /\ UNCHANGED <<disk, copying, drifting, bounds>>

\* copy_file and hash_file: the content as it is now, under the time of the
\* look.
Read ==
    /\ Walking
    /\ walk.seen # Unseen
    /\ Here \in DOMAIN Source
    /\ LET tree == Put(walk.out, Here, [text |-> Source[Here].text, at |-> walk.seen])
       IN  /\ Goes([walk EXCEPT !.at = @ + 1, !.seen = Unseen, !.out = tree])
           /\ Writes(tree)
    /\ UNCHANGED <<live, attic, baseline, registered, recorded, journal,
                   copying, drifting, bounds>>

\* The lock goes with the process.
Releases ==
    /\ step' = "free"
    /\ job' = NoJob
    /\ walk' = NoWalk
    /\ image' = Empty
    /\ moved' = {}

\* A name that is not there to be copied or hashed: the command ends, and
\* what it has written stays.
WalkFails ==
    /\ Walking
    /\ Here \in walk.names \ DOMAIN Source
    /\ In[Here] \in walk.listed
    /\ walk.seen # Unseen \/ step = "copy"
    /\ Releases
    /\ UNCHANGED <<disk, accepted, drifting, bounds>>

\* The copy is complete.  capture and adopt compare it with the directory,
\* init does not.
CopyEnds ==
    /\ step = "copy"
    /\ walk.at > Len(Order)
    /\ image' = Source
    /\ moved' = {}
    /\ IF job.kind = "init"
       THEN /\ baseline' = "whole"
            /\ step' = "appear"
            /\ walk' = NoWalk
       ELSE /\ UNCHANGED baseline
            /\ step' = "compare"
            /\ walk' = NewWalk
    /\ UNCHANGED <<live, attic, profile, staging, registered, recorded, journal,
                   job, accepted, drifting, bounds>>

Copy == IF job.kind = "capture" THEN staging.payload[job.dir]
        ELSE profile.payload[job.dir]

\* Mutant: what was only touched does not count, as it does not for drift.
IdenticalContent == Changed(walk.out, Copy) = {}

\* compare of the directory's manifest and the copy's: no difference at all,
\* times included.
Identical == Changed(walk.out, Copy) = {} /\ Touched(walk.out, Copy) = {}

Compared == step = "compare" /\ walk.at > Len(Order)

Accept ==
    /\ Compared
    /\ Identical
    /\ accepted' = accepted \union {job.dir}
    /\ step' = IF job.kind = "capture" THEN "next" ELSE "declare"
    /\ walk' = NoWalk
    /\ image' = Empty
    /\ moved' = {}
    /\ UNCHANGED <<disk, job, drifting, bounds>>

\* Not identical; a path the manifest declares already; a directory that is
\* not the one that was confirmed (still_the_same_directory).  Nothing is
\* taken back.
Refuse ==
    /\ \/ Compared /\ ~Identical
       \/ step = "declare" /\ job.dir \in profile.toml.declares
       \/ step = "journal" /\ live[job.dir].ino # job.ino
    /\ Releases
    /\ UNCHANGED <<disk, accepted, drifting, bounds>>

(***************************************************************************)
(* capture and init: the profile is assembled at a staging name.           *)
(***************************************************************************)

\* capture, the next of its sources.
NextSource(d) ==
    /\ step = "next"
    /\ d \in job.todo
    /\ staging' = [staging EXCEPT !.payload = Put(@, d, Empty)]
    /\ job' = [job EXCEPT !.todo = @ \ {d}, !.dir = d]
    /\ step' = "copy"
    /\ walk' = NewWalk
    /\ UNCHANGED <<live, attic, profile, baseline, registered, recorded, journal,
                   copying, drifting, bounds>>

\* Mutant: the first source is taken for the last.
WriteManifestEarly ==
    /\ step = "next"
    /\ job.dir # Nowhere
    /\ staging' = [staging EXCEPT !.toml = [declares |-> job.from, notes |-> 0]]
    /\ step' = "appear"
    /\ UNCHANGED <<live, attic, profile, baseline, registered, recorded, journal,
                   job, walk, copying, drifting, bounds>>

\* Its profile.toml, once all of them are copied.
WriteManifest ==
    /\ step = "next"
    /\ job.todo = {}
    /\ staging' = [staging EXCEPT !.toml = [declares |-> job.from, notes |-> 0]]
    /\ step' = "appear"
    /\ UNCHANGED <<live, attic, profile, baseline, registered, recorded, journal,
                   job, walk, copying, drifting, bounds>>

\* rename_within, the one visible step.
Appear ==
    /\ step = "appear"
    /\ ~profile.there
    /\ IF job.kind = "capture"
       THEN /\ profile' = [staging EXCEPT !.there = TRUE]
            /\ step' = "record"
       ELSE /\ profile' = [there |-> TRUE, root |-> job.dir, volatile |-> job.volatile,
                           payload |-> Empty,
                           toml |-> [declares |-> {job.dir}, notes |-> 0]]
            /\ step' = "register"
    /\ staging' = NoProfile
    /\ UNCHANGED <<live, attic, baseline, registered, recorded, journal,
                   job, walk, copying, drifting, bounds>>

\* init's rows for the links that are in place already.
Register ==
    /\ step = "register"
    /\ registered' = TRUE
    /\ step' = "record"
    /\ UNCHANGED <<live, attic, profile, staging, baseline, recorded, journal,
                   job, walk, copying, drifting, bounds>>

(***************************************************************************)
(* adopt, from the accepted copy on                                        *)
(***************************************************************************)

\* declare_path: before the journal (D51).
Declare ==
    /\ step = "declare"
    /\ job.dir \notin profile.toml.declares
    /\ profile' = [profile EXCEPT !.toml.declares = @ \union {job.dir}]
    /\ step' = "journal"
    /\ UNCHANGED <<live, attic, staging, baseline, registered, recorded, journal,
                   job, walk, copying, drifting, bounds>>

\* still_the_same_directory, and the journal.
WriteJournal ==
    /\ step = "journal"
    /\ live[job.dir].ino = job.ino
    /\ journal' = [kind |-> "adopt", dir |-> job.dir]
    /\ step' = "exchange"
    /\ UNCHANGED <<live, attic, profile, staging, baseline, registered, recorded,
                   job, walk, copying, drifting, bounds>>

\* The directory goes to the attic, a link into the profile takes its place.
Exchange ==
    /\ step = "exchange"
    /\ attic' = Put(attic, job.dir, live[job.dir])
    /\ live' = [live EXCEPT ![job.dir] = [is |-> "link", ino |-> 0, files |-> Empty]]
    /\ step' = "rerecord"
    /\ UNCHANGED <<profile, staging, baseline, registered, recorded, journal,
                   job, walk, copying, drifting, bounds>>

\* Mutant: the whole tree is recorded again.
RerecordAll ==
    /\ step = "rerecord"
    /\ recorded' = IF recorded = NoRecord THEN NoRecord ELSE [is |-> "tree", tree |-> Build]
    /\ before' = Restrict(before, DOMAIN before \ Own(job.dir))
    /\ excused' = excused \ Own(job.dir)
    /\ step' = "finish"
    /\ UNCHANGED <<live, attic, profile, staging, baseline, registered, journal,
                   job, walk, copying, shown, bounds>>

\* rerecord_adopted: the adopt's own paths and no others (D80).
Rerecord ==
    /\ step = "rerecord"
    /\ recorded' = IF recorded = NoRecord THEN NoRecord ELSE Rerecorded(Own(job.dir))
    /\ before' = Restrict(before, DOMAIN before \ Own(job.dir))
    /\ excused' = excused \ Own(job.dir)
    /\ step' = "finish"
    /\ UNCHANGED <<live, attic, profile, staging, baseline, registered, journal,
                   job, walk, copying, shown, bounds>>

(***************************************************************************)
(* switch, and what every command ends with                                *)
(***************************************************************************)

\* The exchanges of a switch (modules Journal and Operations).
Apply ==
    /\ step = "apply"
    /\ journal' = [journal EXCEPT !.crossed = TRUE]
    /\ step' = "record"
    /\ UNCHANGED <<live, attic, profile, staging, baseline, registered, recorded,
                   job, walk, copying, drifting, bounds>>

\* verify::build of the profile and verify::save.  capture and init end here.
Record ==
    /\ step = "record"
    /\ recorded' = [is |-> "tree", tree |-> Build]
    /\ before' = Empty
    /\ excused' = {}
    /\ IF job.kind \in {"capture", "init"}
       THEN Releases
       ELSE step' = "finish" /\ UNCHANGED <<job, walk, image, moved>>
    /\ UNCHANGED <<live, attic, profile, staging, baseline, registered, journal,
                   accepted, shown, bounds>>

\* mark_done.
Finish ==
    /\ step = "finish"
    /\ journal' = NoJournal
    /\ shown' = {}
    /\ Releases
    /\ UNCHANGED <<live, attic, profile, staging, baseline, registered, recorded,
                   accepted, before, excused, bounds>>

(***************************************************************************)
(* What others do, at any moment                                           *)
(***************************************************************************)

\* The process is killed, or one of its writes fails.
Stop ==
    /\ step # "free"
    /\ stops < MaxStops
    /\ stops' = stops + 1
    /\ Releases
    /\ UNCHANGED <<disk, accepted, drifting, commands, edits>>

Edits ==
    /\ edits < MaxEdits
    /\ edits' = edits + 1
    /\ UNCHANGED <<attic, staging, baseline, registered, recorded, journal,
                   process, accepted, image, shown, commands, stops>>

\* What a path of the profile says.
Says(p) == IF p \in DOMAIN Build THEN Build[p].text ELSE "nothing"

\* History of a change at a path of the profile.
Noted(p) ==
    IF AtRest
    THEN /\ before' = IF p \in DOMAIN before THEN before ELSE Put(before, p, Says(p))
         /\ UNCHANGED excused
    ELSE /\ excused' = excused \union {p}
         /\ UNCHANGED before

\* The tree with a name written, or taken away.
Written(files, n, text) == Put(files, n, [text |-> text, at |-> edits + 1])

Edited(files, n) ==
    {Written(files, n, t) : t \in Text}
    \union (IF n \in DOMAIN files THEN {Without(files, n)} ELSE {})

\* A program writes, makes or removes a file of a live directory.
EditLive(d, n) ==
    /\ Edits
    /\ IsDir(d)
    /\ \E files \in Edited(live[d].files, n) :
          live' = [live EXCEPT ![d].files = files]
    /\ moved' = moved \union (IF InWalk /\ job.dir = d THEN {n} ELSE {})
    /\ IF profile.there /\ profile.root = d THEN Noted(<<d, n>>)
       ELSE UNCHANGED <<before, excused>>
    /\ UNCHANGED profile

\* The same in the profile, through a live path or directly.  Nobody knows of
\* a copy that is being made.
EditProfile(d, n) ==
    /\ Edits
    /\ profile.there
    /\ d \in DOMAIN profile.payload
    /\ ~(InWalk /\ job.dir = d)
    /\ \E files \in Edited(profile.payload[d], n) :
          profile' = [profile EXCEPT !.payload[d] = files]
    /\ Noted(<<d, n>>)
    /\ UNCHANGED <<live, moved>>

\* The user writes into profile.toml, which is theirs.
EditToml ==
    /\ Edits
    /\ profile.there
    /\ ~ByReference
    /\ profile' = [profile EXCEPT !.toml.notes = edits + 1]
    /\ Noted(ManifestPath)
    /\ UNCHANGED <<live, moved>>

\* An installer replaces a directory by another that holds the same files.
\* Not while a journal is in flight: module Journal has that.
Replace(d) ==
    /\ Edits
    /\ journal = NoJournal
    /\ IsDir(d)
    /\ live' = [live EXCEPT ![d].ino = @ + 1]
    /\ UNCHANGED <<profile, moved, before, excused>>

Works ==
    \/ List
    \/ Look
    \/ Read
    \/ WalkFails
    \/ CopyEnds
    \/ Accept
    \/ Refuse
    \/ \E d \in Dir : NextSource(d)
    \/ WriteManifest
    \/ Appear
    \/ Register
    \/ Declare
    \/ WriteJournal
    \/ Exchange
    \/ Rerecord
    \/ Apply
    \/ Record
    \/ Finish

Next ==
    \/ \E from \in SUBSET Dir : StartCapture(from)
    \/ \E d \in Dir, volatile \in {{}, Volatile} : StartInit(d, volatile)
    \/ \E d \in Dir : StartAdopt(d)
    \/ \E strict \in BOOLEAN : StartSwitch(strict)
    \/ StartRecover
    \/ Works
    \/ Stop
    \/ \E d \in Dir, n \in Name : EditLive(d, n) \/ EditProfile(d, n)
    \/ EditToml
    \/ \E d \in Dir : Replace(d)

Spec == Init /\ [][Next]_vars

(***************************************************************************)
(* Properties                                                              *)
(***************************************************************************)

\* "The copy is hash-verified before the profile exists" (capture.rs): a copy
\* that is accepted, of a directory that programs write to all the while,
\* holds every file as the directory had it at one moment, the end of the
\* copy; and what it does not hold had come or gone in the meantime.
CopyIsOneMoment ==
    [][accepted' # accepted =>
          /\ \A n \in DOMAIN Copy : n \in DOMAIN image /\ Copy[n] = image[n]
          /\ \A n \in DOMAIN image \ moved : n \in DOMAIN Copy]_vars

\* Whatever dies or is refused between the steps of capture and adopt: a
\* manifest never declares a directory whose copy was not accepted; only a
\* declared directory goes to the attic, and it is the one the user said yes
\* to; and init's rows never come before the profile they name.
DeclaredIsCopied ==
    /\ profile.there /\ ~ByReference =>
          profile.toml.declares \subseteq accepted \intersect DOMAIN profile.payload
    /\ DOMAIN attic \subseteq profile.toml.declares
    /\ step = "exchange" => live[job.dir].ino = job.ino
    /\ registered => profile.there /\ ByReference

\* What doctor says of drift - "ricepilot never writes into a profile; an
\* app, a script or an editor did" - is true (D80): at rest only paths others
\* have changed are reported, every change made at rest is reported until it
\* is undone, also past an adopt in between, and a switch or its recover
\* records no such change that the switch had not shown.
DriftIsOthers ==
    /\ AtRest /\ profile.there =>
          /\ Drift \subseteq DOMAIN before \union excused
          /\ recorded # NoRecord =>
                \A p \in DOMAIN before \ excused : before[p] # Says(p) => p \in Drift
    /\ step = "record" /\ recorded # NoRecord =>
          \A p \in DOMAIN before \ excused : before[p] # Says(p) => p \in shown
=============================================================================
