----------------------------- MODULE Operations -----------------------------
(***************************************************************************)
(* ricepilot over many commands: switch, rollback, adopt and recover, run  *)
(* by several processes, each of which may die between any two of its      *)
(* writes, with the user changing live paths in between.  The subject is   *)
(* the records - generations, the pointer at the current one, the ledger,  *)
(* rescue.sh, the journal - and what they say of the live paths.           *)
(*                                                                         *)
(* Source: src/src/cli/switch.rs, src/src/cli/mod.rs (the requests and     *)
(* recover), src/src/cli/adopt.rs, src/src/ledger.rs,                      *)
(* src/src/generations.rs, src/src/observe.rs, src/src/plan.rs.            *)
(*                                                                         *)
(* How one destination crosses is module Journal's subject: here it takes  *)
(* one step, as AtomicSwitch has it, and recover's direction is read off   *)
(* which destinations have crossed.                                        *)
(***************************************************************************)
EXTENDS Integers, FiniteSets

CONSTANTS
    Proc,           \* commands that may be waiting for the lock
    SideBySide,     \* whether other commands may run while one is waiting
    Dest,           \* the live paths
    Profile,        \* the registered profiles
    Declared,       \* per profile, the paths its manifest declares at the start
    Sources,        \* per profile, the paths it has a directory for at the start
    Directories,    \* live paths that are the user's real directories at the start
    MaxOps,         \* bound: operations that reach their journal
    MaxStops,       \* bound: how often a process dies
    MaxTampers      \* bound: how often the user changes a live path

NoGen == -1

\* What a live path leads to: a profile, somewhere else, or itself.
Elsewhere == "elsewhere"
Directory == "directory"
Nowhere == "nothing"

Target == Profile \union {Elsewhere}

ASSUME SetsAssumption ==
    /\ IsFiniteSet(Dest)
    /\ Profile \intersect {Elsewhere, Directory, Nowhere} = {}
    /\ Declared \in [Profile -> SUBSET Dest]
    /\ Sources \in [Profile -> SUBSET Dest]
    /\ Directories \subseteq Dest
ASSUME BoundsAssumption ==
    /\ SideBySide \in BOOLEAN
    /\ MaxOps \in Nat
    /\ MaxStops \in Nat
    /\ MaxTampers \in Nat

(***************************************************************************)
(* An object at a live path: where it leads, its inode, and - which no     *)
(* code can see - who made it.  Inodes are compared only with the ledger   *)
(* row of the same path, so three of them are enough to have a fresh one.  *)
(***************************************************************************)
Inode == 1..3

Object == [to : Target \union {Directory}, ino : Inode, by : {"ricepilot", "script", "user"}]

Nothing == [to |-> Nowhere, ino |-> 0, by |-> "nobody"]

Row == [to : Target, ino : Inode]
NoRow == [to |-> Nowhere, ino |-> 0]

VARIABLES
    live,       \* the live paths
    ledger,     \* ledger.toml: per path its row
    gens,       \* generations/NNNN.toml
    current,    \* generations/current
    rescue,     \* the generation rescue.sh was written from
    journal,    \* journal/current.toml
    claims,     \* the manifests: the paths each profile declares
    payload,    \* the paths each profile has a source directory for
    request,    \* per process: what it was asked, read before the lock
    step,       \* the next write of the process that holds the lock, "free"
                \* when none does
    job,        \* what that process is doing, in its memory
    ops,        \* ids given out so far
    promise,    \* history: what the journal in flight is to end with
    touched,    \* history: paths the user changed since they were recorded
    stops,      \* how often a process died
    tampers     \* how often the user changed a live path

records == <<ledger, gens, current, rescue>>
profiles == <<claims, payload>>
bounds == <<stops, tampers>>
vars == <<live, records, journal, profiles, request, step, job, ops,
          promise, touched, bounds>>

NoJournal == [id |-> 0]
NoRequest == [kind |-> "none"]
NoJob == [kind |-> "none"]
NoPromise == [rows |-> {}]
\* The lock is not held.
Unlocked == step = "free"

\* Functions from part of the live paths.
Partial(S) == UNION {[D -> S] : D \in SUBSET Dest}

Request ==
    [kind : {"switch", "rollback"}, targets : Partial(Target),
     retire : SUBSET Dest, ready : BOOLEAN]

Generation == [id : 1..MaxOps, entries : Partial(Target \union {Nowhere})]

Journal ==
    [id : 1..MaxOps, changes : Partial(Target \union {Nowhere}), adopt : BOOLEAN]

Job ==
    [kind : {"switch", "rollback", "adopt", "recover"}, id : 1..MaxOps,
     targets : Partial(Target), retire : SUBSET Dest, dests : SUBSET Dest,
     changes : Partial(Target \union {Nowhere}), new : 1..(MaxOps + 1)]

\* Whether it is a rollback, and what an uninterrupted process would record:
\* the ledger's paths, and those of its generation.
Promise == [undoing : BOOLEAN, rows : SUBSET Dest, dests : SUBSET Dest]

Steps == {"free", "copy", "declare", "before", "journal", "cross",
          "point", "record", "rescue", "finish", "abandon"}

TypeOK ==
    /\ live \in [Dest -> Object \union {Nothing}]
    /\ ledger \in [Dest -> Row \union {NoRow}]
    /\ DOMAIN gens \subseteq 0..MaxOps
    /\ \A g \in DOMAIN gens : gens[g] \in Generation
    /\ current \in 0..MaxOps \union {NoGen}
    /\ rescue \in 0..MaxOps \union {NoGen}
    /\ journal \in Journal \union {NoJournal}
    /\ claims \in [Profile -> SUBSET Dest]
    /\ payload \in [Profile -> SUBSET Dest]
    /\ request \in [Proc -> Request \union {NoRequest}]
    /\ step \in Steps
    /\ job \in Job \union {NoJob}
    /\ (job = NoJob) <=> (step = "free")
    /\ ops \in 0..MaxOps
    /\ promise \in Promise \union {NoPromise}
    /\ touched \subseteq Dest
    /\ stops \in 0..MaxStops
    /\ tampers \in 0..MaxTampers

Init ==
    /\ live = [d \in Dest |->
                 IF d \in Directories
                 THEN [to |-> Directory, ino |-> 1, by |-> "user"] ELSE Nothing]
    /\ ledger = [d \in Dest |-> NoRow]
    /\ gens = <<>>
    /\ current = NoGen
    /\ rescue = NoGen
    /\ journal = NoJournal
    /\ claims = Declared
    /\ payload = Sources
    /\ request = [p \in Proc |-> NoRequest]
    /\ step = "free"
    /\ job = NoJob
    /\ ops = 0
    /\ promise = NoPromise
    /\ touched = {}
    /\ stops = 0
    /\ tampers = 0

(***************************************************************************)
(* Reading                                                                 *)
(***************************************************************************)

\* Mutant: a row is compared by its target alone.
OwnsByTarget(d) ==
    /\ live[d].to \in Profile
    /\ ledger[d].to = live[d].to

\* The ownership predicate: a symlink, into a registered profile, that a
\* ledger row describes down to its inode.
Owns(d) ==
    /\ live[d].to \in Profile
    /\ ledger[d] = [to |-> live[d].to, ino |-> live[d].ino]

\* observe_one.
Shape(d) ==
    CASE live[d].to = Nowhere   -> "absent"
      [] live[d].to = Directory -> "realdir"
      [] live[d].to \in Target  -> IF Owns(d) THEN "owned" ELSE "foreign"

OwnedDests == {d \in Dest : ledger[d] # NoRow}

\* Generation::observe: the link at each path, or that there is none.
Topology(D) ==
    [d \in D |-> IF live[d].to \in Target THEN live[d].to ELSE Nowhere]

\* Generation::targets.
Links(g) ==
    LET E == {d \in DOMAIN gens[g].entries : gens[g].entries[d] # Nowhere}
    IN  [d \in E |-> gens[g].entries[d]]

\* An inode for a new object at d that no row remembers.
Fresh(d) == CHOOSE i \in Inode : i # live[d].ino /\ i # ledger[d].ino

NextGen == IF current = NoGen THEN 1 ELSE current + 1

(***************************************************************************)
(* The request, made before the lock is taken                              *)
(***************************************************************************)

\* One command at a time: asked at rest, and done before the next begins.
Waiting == \E p \in Proc : request[p] # NoRequest
Alone == SideBySide \/ ~Waiting

Asks(p, kind, targets) ==
    /\ request[p] = NoRequest
    /\ SideBySide \/ (~Waiting /\ Unlocked /\ journal = NoJournal)
    /\ ops < MaxOps
    /\ request' = [request EXCEPT ![p] =
                     [kind |-> kind, targets |-> targets,
                      retire |-> {}, ready |-> FALSE]]
    /\ UNCHANGED <<live, records, journal, profiles, step, job, ops, promise,
                   touched, bounds>>

\* cmd_switch, switch_request: the targets are the profile's.
AskSwitch(p, a) == Asks(p, "switch", [d \in claims[a] |-> a])

\* cmd_rollback: the targets are generation NNNN-1's.
AskRollback(p) ==
    /\ current > 0
    /\ (current - 1) \in DOMAIN gens
    /\ Asks(p, "rollback", Links(current - 1))

\* Both: what the ledger has beyond the targets is to be retired.
ReadLedger(p) ==
    /\ request[p] # NoRequest
    /\ ~request[p].ready
    /\ request' = [request EXCEPT ![p].ready = TRUE,
                                  ![p].retire = OwnedDests \ DOMAIN request[p].targets]
    /\ UNCHANGED <<live, records, journal, profiles, step, job, ops, promise,
                   touched, bounds>>

(***************************************************************************)
(* Phase A, under the lock                                                 *)
(***************************************************************************)

\* Mutant: only a directory is refused, not a link of somebody else's.
DeclinesDirectories(targets, retire) ==
    \/ \E d \in DOMAIN targets :
          \/ Shape(d) = "realdir"
          \/ targets[d] \in Profile /\ d \notin payload[targets[d]]
    \/ \E d \in retire : Shape(d) = "realdir"

\* plan(): any one of these and nothing is done at all.
Declines(targets, retire) ==
    \/ \E d \in DOMAIN targets :
          \/ Shape(d) \notin {"owned", "absent"}
          \/ targets[d] \in Profile /\ d \notin payload[targets[d]]
    \/ \E d \in retire : Shape(d) \notin {"owned", "absent"}

\* plan(): the destinations that change, and what they change to.
Changes(targets, retire) ==
    LET moved == {d \in DOMAIN targets : live[d].to # targets[d]}
        gone == {d \in retire \ DOMAIN targets : Shape(d) = "owned"}
    IN  [d \in moved \union gone |-> IF d \in moved THEN targets[d] ELSE Nowhere]

\* The lock is busy, a journal is in flight, the plan declines, or there is
\* nothing to do: the command ends and has changed nothing.
GivesUp(p) ==
    /\ request[p] # NoRequest
    /\ request[p].ready
    /\ \/ ~Unlocked
       \/ journal # NoJournal
       \/ Declines(request[p].targets, request[p].retire)
       \/ DOMAIN Changes(request[p].targets, request[p].retire) = {}
    /\ request' = [request EXCEPT ![p] = NoRequest]
    /\ UNCHANGED <<live, records, journal, profiles, step, job, ops, promise,
                   touched, bounds>>

\* Mutant: nobody looks for a journal in flight.
BeginsOverJournal(j, first) ==
    /\ Unlocked
    /\ ops < MaxOps
    /\ ops' = ops + 1
    /\ job' = j
    /\ step' = first

\* What the lock, the journal and unique_id have in common: one operation at
\* a time, under an id nobody had.
Begins(j, first) ==
    /\ Unlocked
    /\ journal = NoJournal
    /\ ops < MaxOps
    /\ ops' = ops + 1
    /\ job' = j
    /\ step' = first

\* run_with, up to the commit gate and past it.
Start(p) ==
    LET r == request[p] IN
    /\ r # NoRequest
    /\ r.ready
    /\ ~Declines(r.targets, r.retire)
    /\ DOMAIN Changes(r.targets, r.retire) # {}
    /\ Begins([kind |-> r.kind, id |-> ops + 1,
               targets |-> r.targets, retire |-> r.retire,
               dests |-> DOMAIN r.targets \union r.retire,
               changes |-> Changes(r.targets, r.retire), new |-> NextGen],
              IF current = NoGen THEN "before" ELSE "journal")
    /\ request' = [request EXCEPT ![p] = NoRequest]
    /\ UNCHANGED <<live, records, journal, profiles, promise, touched, bounds>>

\* adopt of a real directory, up to the user's yes.  The profile must not
\* have a source of that name yet.
StartAdopt(d, a) ==
    /\ Alone
    /\ Shape(d) = "realdir"
    /\ d \notin payload[a]
    /\ Begins([kind |-> "adopt", id |-> ops + 1,
               targets |-> [e \in {d} |-> a], retire |-> {},
               dests |-> OwnedDests \union {d},
               changes |-> [e \in {d} |-> a], new |-> NextGen],
              "copy")
    /\ UNCHANGED <<live, records, journal, profiles, request, promise, touched, bounds>>

\* recover --commit.  The journal names what changes, not what was asked:
\* forward as soon as one destination has crossed, backward otherwise.
Crossed(d) == live[d].to = journal.changes[d]

StartRecover ==
    LET changed == DOMAIN journal.changes
        gone == {d \in changed : journal.changes[d] = Nowhere}
    IN
    /\ Alone
    /\ journal # NoJournal
    /\ Unlocked
    /\ job' = [kind |-> "recover", id |-> journal.id,
               targets |-> [d \in changed \ gone |-> journal.changes[d]],
               retire |-> gone,
               dests |-> changed \union OwnedDests,
               changes |-> journal.changes, new |-> NextGen]
    /\ step' = IF \E d \in changed : Crossed(d) THEN "cross" ELSE "abandon"
    /\ UNCHANGED <<live, records, journal, profiles, request, ops, promise, touched, bounds>>

(***************************************************************************)
(* What an adopt does first                                                *)
(***************************************************************************)

\* The path an adopt is about.
Adopted == CHOOSE d \in Dest : d \in DOMAIN job.targets

\* copy_tree, and the comparison of the two trees.
CopyTree ==
    /\ step = "copy"
    /\ payload' = [payload EXCEPT ![job.targets[Adopted]] = @ \union {Adopted}]
    /\ step' = "declare"
    /\ UNCHANGED <<live, records, journal, claims, request, job, ops, promise,
                   touched, bounds>>

\* declare_path: the manifest must not declare the path already.
Declare ==
    /\ step = "declare"
    /\ Adopted \notin claims[job.targets[Adopted]]
    /\ claims' = [claims EXCEPT ![job.targets[Adopted]] = @ \union {Adopted}]
    /\ step' = IF current = NoGen THEN "before" ELSE "journal"
    /\ UNCHANGED <<live, records, journal, payload, request, job, ops, promise,
                   touched, bounds>>

(***************************************************************************)
(* From the commit gate to the journal's end: the order of the writes.     *)
(***************************************************************************)

\* Generation 0000, the topology before the first operation.
SaveFirst ==
    /\ step = "before"
    /\ gens' = [g \in DOMAIN gens \union {0} |->
                  IF g = 0 THEN [id |-> job.id, entries |-> Topology(job.dests)]
                  ELSE gens[g]]
    /\ step' = "journal"
    /\ UNCHANGED <<live, ledger, current, rescue, journal, profiles, request,
                   job, ops, promise, touched, bounds>>

\* journal::write, before the first effect.
WriteJournal ==
    /\ step = "journal"
    /\ journal' = [id |-> job.id, changes |-> job.changes,
                   adopt |-> job.kind = "adopt"]
    /\ promise' = [undoing |-> job.kind = "rollback",
                   rows |-> (OwnedDests \ job.retire) \union DOMAIN job.targets,
                   dests |-> job.dests]
    /\ step' = "cross"
    /\ UNCHANGED <<live, records, profiles, request, job, ops, touched, bounds>>

\* One destination changes: exchanged or created first, retired last.
Cross(d) ==
    /\ step = "cross"
    /\ d \in DOMAIN job.changes
    /\ live[d].to # job.changes[d]
    /\ job.changes[d] = Nowhere =>
          \A e \in DOMAIN job.changes :
              job.changes[e] # Nowhere => live[e].to = job.changes[e]
    /\ live' = [live EXCEPT ![d] =
                  IF job.changes[d] = Nowhere THEN Nothing
                  ELSE [to |-> job.changes[d], ino |-> Fresh(d), by |-> "ricepilot"]]
    /\ UNCHANGED <<records, journal, profiles, request, step, job, ops, promise,
                   touched, bounds>>

AllCrossed == \A d \in DOMAIN job.changes : live[d].to = job.changes[d]

\* settle_recovered: the process that died had saved its generation and made
\* it the current one.
AlreadySaved ==
    /\ job.kind = "recover"
    /\ current > 0
    /\ gens[current].id = job.id

\* Mutant: the generation has only the paths that changed.
SaveChanges ==
    /\ step = "cross"
    /\ AllCrossed
    /\ ~AlreadySaved
    /\ job.kind = "recover" => (job.new - 1) \in DOMAIN gens
    /\ gens' = [g \in DOMAIN gens \union {job.new} |->
                  IF g = job.new
                  THEN [id |-> job.id, entries |-> Topology(DOMAIN job.changes)]
                  ELSE gens[g]]
    /\ touched' = touched \ job.dests
    /\ step' = "point"
    /\ UNCHANGED <<live, ledger, current, rescue, journal, profiles, request,
                   job, ops, promise, bounds>>

\* Mutant: the generation is what was asked for, not what is there.
SavePlan ==
    /\ step = "cross"
    /\ AllCrossed
    /\ ~AlreadySaved
    /\ job.kind = "recover" => (job.new - 1) \in DOMAIN gens
    /\ gens' = [g \in DOMAIN gens \union {job.new} |->
                  IF g = job.new
                  THEN [id |-> job.id,
                        entries |-> [d \in job.dests |->
                                       IF d \in DOMAIN job.targets
                                       THEN job.targets[d] ELSE Nowhere]]
                  ELSE gens[g]]
    /\ touched' = touched \ job.dests
    /\ step' = "point"
    /\ UNCHANGED <<live, ledger, current, rescue, journal, profiles, request,
                   job, ops, promise, bounds>>

\* Generation NNNN, observed off the disk.  A recover saves none when there
\* is no generation before it.
SaveGeneration ==
    /\ step = "cross"
    /\ AllCrossed
    /\ ~AlreadySaved
    /\ job.kind = "recover" => (job.new - 1) \in DOMAIN gens
    /\ gens' = [g \in DOMAIN gens \union {job.new} |->
                  IF g = job.new THEN [id |-> job.id, entries |-> Topology(job.dests)]
                  ELSE gens[g]]
    /\ touched' = touched \ job.dests
    /\ step' = "point"
    /\ UNCHANGED <<live, ledger, current, rescue, journal, profiles, request,
                   job, ops, promise, bounds>>

\* Mutant: a generation that is there is taken for a ledger that is there.
FindLedgerToo ==
    /\ step = "cross"
    /\ AllCrossed
    /\ AlreadySaved
    /\ job' = [job EXCEPT !.new = current]
    /\ step' = "rescue"
    /\ UNCHANGED <<live, records, journal, profiles, request, ops, promise,
                   touched, bounds>>

\* Mutant: the same for everything that is still to be written.
FindEverything ==
    /\ step = "cross"
    /\ AllCrossed
    /\ AlreadySaved
    /\ job' = [job EXCEPT !.new = current]
    /\ step' = "finish"
    /\ UNCHANGED <<live, records, journal, profiles, request, ops, promise,
                   touched, bounds>>

FindGeneration ==
    /\ step = "cross"
    /\ AllCrossed
    /\ AlreadySaved
    /\ job' = [job EXCEPT !.new = current]
    /\ step' = "record"
    /\ UNCHANGED <<live, records, journal, profiles, request, ops, promise,
                   touched, bounds>>

\* Mutant: a rollback moves the pointer back.
SetCurrentBack ==
    /\ step = "point"
    /\ current' = IF job.kind = "rollback" THEN job.new - 2 ELSE job.new
    /\ step' = "record"
    /\ UNCHANGED <<live, ledger, gens, rescue, journal, profiles, request, job,
                   ops, promise, touched, bounds>>

SetCurrent ==
    /\ step = "point"
    /\ current' = job.new
    /\ step' = "record"
    /\ UNCHANGED <<live, ledger, gens, rescue, journal, profiles, request, job,
                   ops, promise, touched, bounds>>

\* Mutant: the row of a retired link stays.
SaveLedgerForgetsNothing ==
    /\ step = "record"
    /\ \A d \in DOMAIN job.targets : live[d].to \in Target
    /\ ledger' = [d \in Dest |->
                    IF d \in DOMAIN job.targets
                    THEN [to |-> live[d].to, ino |-> live[d].ino]
                    ELSE ledger[d]]
    /\ step' = "rescue"
    /\ UNCHANGED <<live, gens, current, rescue, journal, profiles, request, job,
                   ops, promise, touched, bounds>>

\* Ledger::record, which looks at each link again, Ledger::forget, save.
SaveLedger ==
    /\ step = "record"
    /\ \A d \in DOMAIN job.targets : live[d].to \in Target
    /\ ledger' = [d \in Dest |->
                    IF d \in job.retire THEN NoRow
                    ELSE IF d \in DOMAIN job.targets
                    THEN [to |-> live[d].to, ino |-> live[d].ino]
                    ELSE ledger[d]]
    /\ step' = "rescue"
    /\ UNCHANGED <<live, gens, current, rescue, journal, profiles, request, job,
                   ops, promise, touched, bounds>>

\* rescue::regenerate, for the generation before.
WriteRescue ==
    /\ step = "rescue"
    /\ (job.new - 1) \in DOMAIN gens
    /\ rescue' = job.new - 1
    /\ step' = "finish"
    /\ UNCHANGED <<live, ledger, gens, current, journal, profiles, request, job,
                   ops, promise, touched, bounds>>

\* The lock goes with the process.
Releases ==
    /\ step' = "free"
    /\ job' = NoJob

\* Mutant: a backward recover leaves the journal where it is.
MarkDoneWhenFinished ==
    /\ step = "finish"
    /\ journal' = NoJournal
    /\ promise' = NoPromise
    /\ Releases
    /\ UNCHANGED <<live, records, profiles, request, ops, touched, bounds>>

\* mark_done, the last act; a backward recover has done nothing else here.
MarkDone ==
    /\ step \in {"finish", "abandon"}
    /\ journal' = NoJournal
    /\ promise' = NoPromise
    /\ Releases
    /\ UNCHANGED <<live, records, profiles, request, ops, touched, bounds>>

(***************************************************************************)
(* What goes wrong                                                         *)
(***************************************************************************)

\* declare_path refuses: the copy stays where it was made, nothing is undone.
DeclareFails ==
    /\ step = "declare"
    /\ Adopted \in claims[job.targets[Adopted]]
    /\ Releases
    /\ UNCHANGED <<live, records, journal, profiles, request, ops, promise, touched, bounds>>

\* The process is killed, or one of its writes fails.
Stop ==
    /\ ~Unlocked
    /\ stops < MaxStops
    /\ stops' = stops + 1
    /\ Releases
    /\ UNCHANGED <<live, records, journal, profiles, request, ops, promise, touched, tampers>>

\* The user, or a program of theirs, changes a live path.  Not while the lock
\* is held and not while a journal is in flight: module Journal has that.
Tamper(d, to) ==
    /\ Unlocked
    /\ journal = NoJournal
    /\ tampers < MaxTampers
    /\ to = Nowhere => live[d] # Nothing
    /\ live' = [live EXCEPT ![d] =
                  IF to = Nowhere THEN Nothing
                  ELSE [to |-> to, ino |-> Fresh(d), by |-> "user"]]
    /\ touched' = touched \union {d}
    /\ tampers' = tampers + 1
    /\ UNCHANGED <<records, journal, profiles, request, step, job, ops, promise, stops>>

Works ==
    \/ CopyTree
    \/ Declare
    \/ SaveFirst
    \/ WriteJournal
    \/ \E d \in Dest : Cross(d)
    \/ SaveGeneration
    \/ FindGeneration
    \/ SetCurrent
    \/ SaveLedger
    \/ WriteRescue
    \/ MarkDone
    \/ DeclareFails

Next ==
    \/ \E p \in Proc, a \in Profile : AskSwitch(p, a)
    \/ \E p \in Proc : AskRollback(p)
    \/ \E p \in Proc : ReadLedger(p)
    \/ \E p \in Proc : GivesUp(p)
    \/ \E p \in Proc : Start(p)
    \/ \E d \in Dest, a \in Profile : StartAdopt(d, a)
    \/ StartRecover
    \/ Works
    \/ Stop
    \/ \E d \in Dest, to \in Target \union {Directory, Nowhere} : Tamper(d, to)

(***************************************************************************)
(* A process that holds the lock runs on, a command that has read the      *)
(* ledger goes on to the lock, and a user who is told of a journal in      *)
(* flight runs recover.  Nobody has to ask for anything else.              *)
(***************************************************************************)
Fairness ==
    /\ WF_vars(Works)
    /\ WF_vars(\E p \in Proc : ReadLedger(p))
    /\ WF_vars(\E p \in Proc : GivesUp(p))
    /\ WF_vars(StartRecover)

Spec == Init /\ [][Next]_vars /\ Fairness

(***************************************************************************)
(* Properties                                                              *)
(***************************************************************************)

AtRest == Unlocked /\ journal = NoJournal

\* The current generation says what is at its paths, except where the user
\* has been since.
CurrentIsTrue ==
    AtRest /\ current # NoGen =>
        \A d \in DOMAIN gens[current].entries \ touched :
            gens[current].entries[d] = Topology({d})[d]

\* A link ricepilot made into a profile is ricepilot's in its records, at
\* rest, so the next switch does not refuse it as foreign (D77).
OwnWorkIsOwned ==
    AtRest => \A d \in Dest :
        live[d].by = "ricepilot" /\ live[d].to \in Profile => Owns(d)

\* ricepilot never takes a link for its own that somebody else made, even
\* one at the same path with the same target (D31).
OwnsNothingElse ==
    \A d \in Dest : Owns(d) => live[d].by = "ricepilot"

\* "A generation is the complete link topology of every managed destination"
\* (D35): the current one has every link ricepilot owns.
CurrentIsComplete ==
    AtRest => \A d \in Dest :
        Owns(d) => /\ current # NoGen
                   /\ d \in DOMAIN Links(current)
                   /\ Links(current)[d] = live[d].to

\* No operation ever replaces or drops the journal of another: it stays in
\* place until its own operation, or a recover of it, retires it.
JournalNeverBuried ==
    [][journal # NoJournal /\ journal' # journal =>
          /\ journal' = NoJournal
          /\ job.id = journal.id
          /\ \/ \A d \in DOMAIN journal.changes : Crossed(d)
             \/ \A d \in DOMAIN journal.changes : ~Crossed(d)]_vars

\* History is kept: the pointer moves up by one or not at all, and a
\* generation it has reached is never written again.
HistoryIsKept ==
    [][/\ current' # current => current' = NextGen
       /\ current # NoGen => \A g \in 0..current : gens'[g] = gens[g]]_vars

\* An operation displaces only what ricepilot put there, or the directory
\* an adopt was told to take.
DisplacesOnlyItsOwn ==
    [][\A d \in Dest :
          live[d] # Nothing /\ live'[d] # live[d] /\ tampers' = tampers =>
              \/ live[d].by = "ricepilot"
              \/ live[d].to = Directory /\ journal.adopt]_vars

\* "rollback re-applies generation NNNN-1": the generation it makes has the
\* links of the one before the one it was the current generation of.
RollbackReapplies ==
    [][current' # current /\ promise.undoing => Links(current') = Links(current - 1)]_vars

AsPromised ==
    step = "finish" /\ step' = "free" /\ journal' = NoJournal =>
        /\ OwnedDests = promise.rows
        /\ DOMAIN gens[current].entries = promise.dests

\* "A crash at any point after the exchanges ... settles to the same records"
\* (D77), on a machine where the user has not changed a live path: when a
\* journal is retired after its exchanges, the ledger and the generation are
\* about the paths they would be about had nobody died.
AloneAsPromised == [][tampers = 0 => AsPromised]_vars

\* A journal that is in flight is retired in the end, by its own process or
\* by a recover, and the lock is free again.
JournalSettled == journal # NoJournal ~> AtRest
=============================================================================
