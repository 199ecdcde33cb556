-------------------------- MODULE Operations_proofs --------------------------
(***************************************************************************)
(* Proofs about many commands, for any number of waiting commands, live    *)
(* paths, profiles, operations, deaths and changes by the user: records    *)
(* stay in their types, no journal is buried, history is kept, nothing     *)
(* foreign is displaced and nothing foreign becomes ricepilot's own.       *)
(***************************************************************************)
EXTENDS Operations, TLAPS

-----------------------------------------------------------------------------
(***************************************************************************)
(* Functions from part of the live paths                                   *)
(***************************************************************************)

\* A partial function is a function on its domain, which holds live paths.
LEMMA PartialElim ==
    ASSUME NEW S, NEW f \in Partial(S)
    PROVE  DOMAIN f \subseteq Dest /\ f \in [DOMAIN f -> S]
<1>1. PICK D \in SUBSET Dest : f \in [D -> S]
  BY Zenon DEF Partial
<1> QED BY <1>1

\* A function from live paths is a partial function.
LEMMA PartialIntro ==
    ASSUME NEW S, NEW D \in SUBSET Dest, NEW f \in [D -> S]
    PROVE  f \in Partial(S)
  BY Zenon DEF Partial

\* What is observed at live paths is a link or its absence.
LEMMA TopologyType ==
    ASSUME NEW D \in SUBSET Dest
    PROVE  Topology(D) \in Partial(Target \union {Nowhere})
<1>1. Topology(D) \in [D -> Target \union {Nowhere}]
  BY DEF Topology
<1> QED BY <1>1, PartialIntro

\* The words for what is not in a profile are no profiles, and the inode a
\* new object is given is one.
LEMMA TargetTypes ==
    /\ Directory \notin Target /\ Nowhere \notin Target
    /\ Nothing.to \notin Target /\ NoRow.to \notin Target
  BY SetsAssumption DEF Target, Directory, Nowhere, Elsewhere, Nothing, NoRow

\* A new inode is one of the file system's.
LEMMA FreshType ==
    ASSUME NEW d \in Dest
    PROVE  Fresh(d) \in Inode /\ Fresh(d) # live[d].ino /\ Fresh(d) # ledger[d].ino
<1>1. \E i \in Inode : i # live[d].ino /\ i # ledger[d].ino
  BY DEF Inode
<1> QED BY <1>1, Zenon DEF Fresh

-----------------------------------------------------------------------------
(***************************************************************************)
(* The process that holds the lock, the journal and the numbers of the     *)
(* generations.                                                            *)
(***************************************************************************)

Early == {"copy", "declare", "before", "journal"}
Late == {"cross", "point", "record", "rescue", "finish", "abandon"}

\* Before its own journal there is none; from then on the journal is the
\* process's, and its destinations are where the step says.
InFlight ==
    /\ step \in Early => journal = NoJournal /\ job.kind # "recover"
    /\ step \in {"copy", "declare"} => /\ job.kind = "adopt"
                                      /\ \E d \in Dest : d \in DOMAIN job.targets
    /\ step \in Late => /\ journal # NoJournal
                        /\ journal.id = job.id
                        /\ journal.changes = job.changes
    /\ step \in {"point", "record", "rescue", "finish"} => AllCrossed
    /\ step = "abandon" => \A d \in DOMAIN journal.changes : ~Crossed(d)

\* The generations up to the current one are all there, the next one is the
\* one that is written, and ids go up with them.
Numbering ==
    /\ current # NoGen => /\ 1 <= current
                          /\ 0..current \subseteq DOMAIN gens
                          /\ current <= gens[current].id
                          /\ gens[current].id <= ops
    /\ journal # NoJournal => /\ journal.id <= ops
                              /\ current # NoGen => gens[current].id <= journal.id
    /\ step # "free" => /\ job.id <= ops
                        /\ current # NoGen => gens[current].id <= job.id
    /\ step \in Early \union {"cross", "point", "abandon"} => job.new = NextGen
    /\ step \in Early /\ current # NoGen => gens[current].id < job.id
    /\ step = "cross" /\ job.kind # "recover" /\ current # NoGen => gens[current].id < job.id
    /\ step = "point" => /\ {job.new - 1, job.new} \subseteq DOMAIN gens
                         /\ gens[job.new].id = job.id
                         /\ current # NoGen => gens[current].id < job.id
    /\ step = "before" => current = NoGen
    /\ step \in {"journal", "cross"} /\ job.kind # "recover" => (job.new - 1) \in DOMAIN gens
    /\ step \in {"record", "rescue"} => current # NoGen /\ job.new = current

\* What the process and the records are, as far as every step needs it.
LEMMA JobType ==
    ASSUME TypeOK, step # "free"
    PROVE  /\ job \in Job
           /\ job.kind \in {"switch", "rollback", "adopt", "recover"}
           /\ job.id \in 1..MaxOps
           /\ job.targets \in Partial(Target)
           /\ job.retire \subseteq Dest
           /\ job.dests \subseteq Dest
           /\ job.changes \in Partial(Target \union {Nowhere})
           /\ job.new \in 1..(MaxOps + 1)
           /\ DOMAIN job.changes \subseteq Dest
           /\ DOMAIN job.targets \subseteq Dest
<1>1. job \in Job
  BY DEF TypeOK
<1>2. /\ job.kind \in {"switch", "rollback", "adopt", "recover"}
      /\ job.id \in 1..MaxOps
      /\ job.targets \in Partial(Target)
      /\ job.retire \subseteq Dest
      /\ job.dests \subseteq Dest
      /\ job.changes \in Partial(Target \union {Nowhere})
      /\ job.new \in 1..(MaxOps + 1)
  BY <1>1 DEF Job
<1> QED BY <1>1, <1>2, PartialElim, Zenon

\* The next generation's number.
LEMMA NextGenType ==
    ASSUME TypeOK
    PROVE  NextGen \in 1..(MaxOps + 1)
  BY BoundsAssumption DEF TypeOK, NextGen, NoGen

\* The number of a generation that is being written is within the bound.
LEMMA NewIsBounded ==
    ASSUME TypeOK, Numbering, InFlight,
           \/ step = "point"
           \/ step = "cross" /\ ~AlreadySaved
    PROVE  job.new \in 1..MaxOps
<1>1. /\ job.new = NextGen /\ job.id \in 1..MaxOps /\ job.new \in 1..(MaxOps + 1)
      /\ current \in 0..MaxOps \union {NoGen}
  BY JobType DEF Numbering, TypeOK
<1>2. CASE current = NoGen
  BY <1>1, <1>2, BoundsAssumption DEF NextGen
<1>3. CASE current # NoGen
  <2>1. gens[current].id \in Int
    BY <1>3 DEF Numbering, TypeOK, Generation
  <2>2. gens[current].id < job.id
    BY <1>1, <1>3, <2>1 DEF Numbering, AlreadySaved
  <2> QED BY <1>1, <1>3, <2>1, <2>2, BoundsAssumption DEF Numbering, NextGen, NoGen
<1> QED BY <1>2, <1>3

-----------------------------------------------------------------------------
(***************************************************************************)
(* Type correctness                                                        *)
(***************************************************************************)

\* The requests: what is asked for is taken from a manifest or a generation.
LEMMA RequestType ==
    ASSUME TypeOK, NEW p \in Proc, request[p] # NoRequest
    PROVE  request[p] \in Request
  BY DEF TypeOK

\* What a generation or a journal leads to.
LEMMA LinksType ==
    ASSUME TypeOK, NEW g \in DOMAIN gens
    PROVE  Links(g) \in Partial(Target)
<1>. DEFINE E == {d \in DOMAIN gens[g].entries : gens[g].entries[d] # Nowhere}
<1>1. gens[g].entries \in Partial(Target \union {Nowhere})
  BY DEF TypeOK, Generation
<1>2. /\ E \in SUBSET Dest
      /\ [d \in E |-> gens[g].entries[d]] \in [E -> Target]
  BY <1>1, PartialElim
<1>3. [d \in E |-> gens[g].entries[d]] \in Partial(Target)
  BY <1>2, PartialIntro
<1> QED BY <1>3 DEF Links

\* A plan is a change per path.
LEMMA ChangesType ==
    ASSUME NEW targets \in Partial(Target), NEW retire \in SUBSET Dest
    PROVE  Changes(targets, retire) \in Partial(Target \union {Nowhere})
<1>. DEFINE moved == {d \in DOMAIN targets : live[d].to # targets[d]}
            gone == {d \in retire \ DOMAIN targets : Shape(d) = "owned"}
            f == [d \in moved \union gone |-> IF d \in moved THEN targets[d] ELSE Nowhere]
<1>1. DOMAIN targets \subseteq Dest /\ targets \in [DOMAIN targets -> Target]
  BY PartialElim
<1>2. /\ moved \union gone \in SUBSET Dest
      /\ f \in [moved \union gone -> Target \union {Nowhere}]
  BY <1>1
<1>3. f \in Partial(Target \union {Nowhere})
  BY <1>2, PartialIntro
<1> QED BY <1>3 DEF Changes

\* Each action, as far as types go.
LEMMA AsksType ==
    ASSUME TypeOK, NEW p \in Proc, NEW k \in {"switch", "rollback"},
           NEW targets \in Partial(Target), Asks(p, k, targets)
    PROVE  TypeOK'
<1>1. request'[p] \in Request
  BY DEF Asks, Request, TypeOK
<1>2. request' \in [Proc -> Request \union {NoRequest}]
  BY <1>1 DEF Asks, TypeOK
<1> QED BY <1>2 DEF Asks, TypeOK, records, profiles, bounds

\* The steps that make a record of several fields, one by one.
LEMMA ReadLedgerType ==
    ASSUME TypeOK, NEW p \in Proc, ReadLedger(p)
    PROVE  TypeOK'
<1>1. request[p] \in Request
  BY RequestType DEF ReadLedger
<1>2. request'[p] \in Request
  BY <1>1 DEF ReadLedger, Request, TypeOK, OwnedDests
<1>3. request' \in [Proc -> Request \union {NoRequest}]
  BY <1>2 DEF ReadLedger, TypeOK
<1> QED BY <1>3 DEF ReadLedger, TypeOK, records, profiles, bounds

LEMMA StartType ==
    ASSUME TypeOK, NEW p \in Proc, Start(p)
    PROVE  TypeOK'
<1>. DEFINE r == request[p]
            j == [kind |-> r.kind, id |-> ops + 1,
                  targets |-> r.targets, retire |-> r.retire,
                  dests |-> DOMAIN r.targets \union r.retire,
                  changes |-> Changes(r.targets, r.retire), new |-> NextGen]
<1>1. r \in Request
  BY RequestType DEF Start
<1>2. /\ r.kind \in {"switch", "rollback"} /\ r.targets \in Partial(Target)
      /\ r.retire \in SUBSET Dest
  BY <1>1 DEF Request
<1>3. DOMAIN r.targets \subseteq Dest
  BY <1>2, PartialElim
<1>4. ops + 1 \in 1..MaxOps
  BY BoundsAssumption DEF Start, Begins, TypeOK
<1>5. j \in Job
  BY <1>2, <1>3, <1>4, ChangesType, NextGenType DEF Job
<1>6. job' = j /\ step' \in {"before", "journal"} /\ ops' = ops + 1
      /\ request' = [request EXCEPT ![p] = NoRequest]
  BY DEF Start, Begins
<1>7. j # NoJob
  BY <1>2 DEF NoJob
<1> QED BY <1>4, <1>5, <1>6, <1>7, BoundsAssumption
        DEF TypeOK, Start, records, profiles, bounds, Steps

LEMMA StartAdoptType ==
    ASSUME TypeOK, NEW d \in Dest, NEW a \in Profile, StartAdopt(d, a)
    PROVE  TypeOK'
<1>. DEFINE f == [e \in {d} |-> a]
            j == [kind |-> "adopt", id |-> ops + 1, targets |-> f, retire |-> {},
                  dests |-> OwnedDests \union {d}, changes |-> f, new |-> NextGen]
<1>1. f \in [{d} -> Target] /\ f \in [{d} -> Target \union {Nowhere}] /\ {d} \in SUBSET Dest
  BY DEF Target
<1>2. f \in Partial(Target) /\ f \in Partial(Target \union {Nowhere})
  BY <1>1, PartialIntro
<1>3. ops + 1 \in 1..MaxOps
  BY BoundsAssumption DEF StartAdopt, Begins, TypeOK
<1>4. j \in Job
  BY <1>2, <1>3, NextGenType DEF Job, OwnedDests
<1>5. job' = j /\ step' = "copy" /\ ops' = ops + 1
  BY DEF StartAdopt, Begins
<1>6. j # NoJob
  BY DEF NoJob
<1> QED BY <1>3, <1>4, <1>5, <1>6, BoundsAssumption
        DEF TypeOK, StartAdopt, records, profiles, bounds, Steps

LEMMA JournalType ==
    ASSUME TypeOK, journal # NoJournal
    PROVE  /\ journal \in Journal
           /\ journal.id \in 1..MaxOps
           /\ journal.adopt \in BOOLEAN
           /\ DOMAIN journal.changes \subseteq Dest
           /\ journal.changes \in [DOMAIN journal.changes -> Target \union {Nowhere}]
           /\ journal.changes \in Partial(Target \union {Nowhere})
<1>1. /\ journal \in Journal /\ journal.id \in 1..MaxOps
      /\ journal.changes \in Partial(Target \union {Nowhere})
      /\ journal.adopt \in BOOLEAN
  BY DEF TypeOK, Journal
<1> QED BY <1>1, PartialElim

LEMMA StartRecoverType ==
    ASSUME TypeOK, StartRecover
    PROVE  TypeOK'
<1>. DEFINE changed == DOMAIN journal.changes
            gone == {d \in changed : journal.changes[d] = Nowhere}
            f == [d \in changed \ gone |-> journal.changes[d]]
            j == [kind |-> "recover", id |-> journal.id, targets |-> f, retire |-> gone,
                  dests |-> changed \union OwnedDests,
                  changes |-> journal.changes, new |-> NextGen]
<1>1. journal # NoJournal
  BY DEF StartRecover
<1>2. changed \ gone \in SUBSET Dest /\ f \in [changed \ gone -> Target]
  BY <1>1, JournalType
<1>3. f \in Partial(Target)
  BY <1>2, PartialIntro
<1>4. j \in Job
  BY <1>1, <1>3, JournalType, NextGenType DEF Job, OwnedDests
<1>5. job' = j /\ step' \in {"cross", "abandon"}
  BY Zenon DEF StartRecover
<1>6. j # NoJob
  BY DEF NoJob
<1> QED BY <1>4, <1>5, <1>6 DEF TypeOK, StartRecover, records, profiles, bounds, Steps

\* The writes of the process that holds the lock.
LEMMA WorksType ==
    ASSUME TypeOK, InFlight, Numbering, Works
    PROVE  TypeOK'
<1>1. step # "free"
  BY DEF Works, CopyTree, Declare, SaveFirst, WriteJournal, Cross, SaveGeneration,
     FindGeneration, SetCurrent, SaveLedger, WriteRescue, MarkDone, DeclareFails
<1>2. CASE CopyTree \/ Declare
  <2>1. \E d \in Dest : d \in DOMAIN job.targets
    BY <1>2 DEF InFlight, CopyTree, Declare
  <2>2. Adopted \in Dest
    BY <2>1, Zenon DEF Adopted
  <2>3. /\ payload' \in [Profile -> SUBSET Dest] /\ claims' \in [Profile -> SUBSET Dest]
    BY <2>2, <1>2 DEF CopyTree, Declare, TypeOK, profiles
  <2> QED BY <2>3, <1>2 DEF CopyTree, Declare, TypeOK, records, bounds, Steps, NoJob
<1>3. CASE SaveFirst
  <2>1. [id |-> job.id, entries |-> Topology(job.dests)] \in Generation
    BY <1>1, JobType, TopologyType DEF Generation
  <2>2. /\ DOMAIN gens' \subseteq 0..MaxOps
        /\ \A g \in DOMAIN gens' : gens'[g] \in Generation
    BY <2>1, <1>3, BoundsAssumption DEF SaveFirst, TypeOK
  <2> QED BY <2>2, <1>3 DEF SaveFirst, TypeOK, profiles, bounds, Steps, NoJob
<1>4. CASE WriteJournal
  <2>1. journal' \in Journal
    BY <1>1, <1>4, JobType DEF WriteJournal, Journal
  <2>2. promise' \in Promise
    BY <1>1, <1>4, JobType DEF WriteJournal, Promise, OwnedDests
  <2> QED BY <2>1, <2>2, <1>4 DEF WriteJournal, TypeOK, records, profiles, bounds, Steps, NoJob
<1>5. ASSUME NEW d \in Dest, Cross(d) PROVE TypeOK'
  <2>1. job.changes[d] \in Target \union {Nowhere}
    BY <1>1, <1>5, JobType, PartialElim DEF Cross
  <2>2. live' \in [Dest -> Object \union {Nothing}]
    BY <2>1, <1>5, FreshType DEF Cross, TypeOK, Object
  <2> QED BY <2>2, <1>5 DEF Cross, TypeOK, records, profiles, bounds
<1>6. CASE SaveGeneration
  <2>1. [id |-> job.id, entries |-> Topology(job.dests)] \in Generation
    BY <1>1, JobType, TopologyType DEF Generation
  <2>2. job.new \in 1..MaxOps
    BY <1>6, NewIsBounded DEF SaveGeneration
  <2>3. /\ DOMAIN gens' \subseteq 0..MaxOps
        /\ \A g \in DOMAIN gens' : gens'[g] \in Generation
    BY <2>1, <2>2, <1>6, BoundsAssumption DEF SaveGeneration, TypeOK
  <2> QED BY <2>3, <1>6 DEF SaveGeneration, TypeOK, profiles, bounds, Steps, NoJob
<1>7. CASE FindGeneration
  <2>1. current \in 1..(MaxOps + 1)
    BY <1>7, BoundsAssumption DEF FindGeneration, AlreadySaved, TypeOK, NoGen
  <2>2. job' = [job EXCEPT !.new = current]
    BY <1>7 DEF FindGeneration
  <2>3. job' \in Job
    BY <1>1, <2>1, <2>2, JobType DEF Job
  <2>4. job' # NoJob
    BY <2>3 DEF Job, NoJob
  <2> QED BY <2>3, <2>4, <1>7 DEF FindGeneration, TypeOK, records, profiles, bounds, Steps
<1>8. CASE SetCurrent
  <2>1. job.new \in 1..MaxOps
    BY <1>8, NewIsBounded DEF SetCurrent
  <2> QED BY <2>1, <1>8 DEF SetCurrent, TypeOK, profiles, bounds, Steps, NoJob
<1>9. CASE SaveLedger
  <2>1. \A d \in DOMAIN job.targets : live[d].to \in Target => live[d].ino \in Inode
    BY <1>1, JobType, TargetTypes DEF TypeOK, Object
  <2>2. ledger' \in [Dest -> Row \union {NoRow}]
    BY <2>1, <1>9 DEF SaveLedger, TypeOK, Row
  <2> QED BY <2>2, <1>9 DEF SaveLedger, TypeOK, profiles, bounds, Steps, NoJob
<1>10. CASE WriteRescue
  <2>1. job.new - 1 \in 0..MaxOps
    BY <1>10 DEF WriteRescue, TypeOK
  <2> QED BY <2>1, <1>10 DEF WriteRescue, TypeOK, profiles, bounds, Steps, NoJob
<1>11. CASE MarkDone \/ DeclareFails
  BY <1>11 DEF MarkDone, DeclareFails, Releases, TypeOK, records, profiles, bounds, Steps
<1> QED
  BY <1>2, <1>3, <1>4, <1>5, <1>6, <1>7, <1>8, <1>9, <1>10, <1>11 DEF Works

\* The types hold at first.
LEMMA TypeInit == Init => TypeOK
<1>1. ASSUME Init PROVE gens = [x \in {} |-> 0] \/ DOMAIN gens = {}
  BY <1>1 DEF Init
<1>2. ASSUME Init PROVE live \in [Dest -> Object \union {Nothing}]
  BY <1>2, SetsAssumption DEF Init, Object, Inode
<1> QED BY <1>1, <1>2, BoundsAssumption, SetsAssumption DEF Init, TypeOK, Steps

\* Every step keeps them.
LEMMA TypeStep ==
    ASSUME TypeOK, InFlight, Numbering, [Next]_vars
    PROVE  TypeOK'
<1>1. ASSUME NEW p \in Proc, NEW a \in Profile, AskSwitch(p, a) PROVE TypeOK'
  <2>1. [d \in claims[a] |-> a] \in [claims[a] -> Target] /\ claims[a] \in SUBSET Dest
    BY DEF TypeOK, Target
  <2> QED BY <2>1, <1>1, PartialIntro, AsksType DEF AskSwitch
<1>2. ASSUME NEW p \in Proc, AskRollback(p) PROVE TypeOK'
  BY <1>2, LinksType, AsksType DEF AskRollback
<1>3. ASSUME NEW p \in Proc, GivesUp(p) PROVE TypeOK'
  BY <1>3 DEF GivesUp, TypeOK, records, profiles, bounds
<1>4. CASE Stop
  BY <1>4, BoundsAssumption DEF Stop, Releases, TypeOK, records, profiles, Steps
<1>5. ASSUME NEW d \in Dest, NEW to \in Target \union {Directory, Nowhere}, Tamper(d, to)
      PROVE  TypeOK'
  <2>1. live' \in [Dest -> Object \union {Nothing}]
    BY <1>5, FreshType DEF Tamper, TypeOK, Object
  <2> QED BY <2>1, <1>5, BoundsAssumption DEF Tamper, TypeOK, records, profiles
<1>6. CASE UNCHANGED vars
  BY <1>6 DEF vars, TypeOK, records, profiles, bounds
<1> QED
  BY <1>1, <1>2, <1>3, <1>4, <1>5, <1>6, ReadLedgerType, StartType, StartAdoptType,
     StartRecoverType, WorksType DEF Next

-----------------------------------------------------------------------------
(***************************************************************************)
(* The invariant                                                           *)
(***************************************************************************)

\* No step of one process is taken while another's journal is in the way.
LEMMA InFlightStep ==
    ASSUME TypeOK, InFlight, [Next]_vars
    PROVE  InFlight'
<1>. USE DEF Early, Late
<1>1. ASSUME NEW p \in Proc, NEW k, NEW targets, Asks(p, k, targets) PROVE InFlight'
  BY <1>1 DEF Asks, InFlight, AllCrossed, Crossed
<1>2. ASSUME NEW p \in Proc, ReadLedger(p) \/ GivesUp(p) PROVE InFlight'
  BY <1>2 DEF ReadLedger, GivesUp, InFlight, AllCrossed, Crossed
<1>3. ASSUME NEW p \in Proc, Start(p) PROVE InFlight'
  <2>1. request[p].kind \in {"switch", "rollback"}
    BY <1>3, RequestType DEF Start, Request
  <2>2. step' \in {"before", "journal"} /\ journal' = NoJournal /\ job'.kind = request[p].kind
    BY <1>3 DEF Start, Begins
  <2> QED BY <2>1, <2>2 DEF InFlight
<1>4. ASSUME NEW d \in Dest, NEW a \in Profile, StartAdopt(d, a) PROVE InFlight'
  <2>1. /\ step' = "copy" /\ journal' = NoJournal
        /\ job'.kind = "adopt" /\ job'.targets = [e \in {d} |-> a]
    BY <1>4 DEF StartAdopt, Begins
  <2> QED BY <2>1 DEF InFlight
<1>5. CASE StartRecover
  <2>1. /\ journal' = journal /\ journal # NoJournal /\ live' = live
        /\ job'.id = journal.id /\ job'.changes = journal.changes
    BY <1>5 DEF StartRecover
  <2>2. step' = IF \E d \in DOMAIN journal.changes : Crossed(d) THEN "cross" ELSE "abandon"
    BY <1>5 DEF StartRecover
  <2> QED BY <2>1, <2>2 DEF InFlight, Crossed
<1>6. CASE CopyTree \/ Declare \/ SaveFirst
  BY <1>6 DEF CopyTree, Declare, SaveFirst, InFlight
<1>7. CASE WriteJournal
  <2>1. /\ step' = "cross" /\ job' = job
        /\ journal'.id = job.id /\ journal'.changes = job.changes
    BY <1>7 DEF WriteJournal
  <2>2. journal' # NoJournal
    BY <1>7, JobType DEF WriteJournal, NoJournal
  <2> QED BY <2>1, <2>2 DEF InFlight
<1>8. ASSUME NEW d \in Dest, Cross(d) PROVE InFlight'
  BY <1>8 DEF Cross, InFlight
<1>9. CASE SaveGeneration
  BY <1>9 DEF SaveGeneration, InFlight, AllCrossed
<1>10. CASE FindGeneration
  <2>1. /\ job'.changes = job.changes /\ job'.id = job.id
        /\ step' = "record" /\ journal' = journal /\ live' = live
    BY <1>10, JobType DEF FindGeneration, Job
  <2> QED BY <2>1, <1>10 DEF FindGeneration, InFlight, AllCrossed
<1>11. CASE SetCurrent
  BY <1>11 DEF SetCurrent, InFlight, AllCrossed
<1>12. CASE SaveLedger
  BY <1>12 DEF SaveLedger, InFlight, AllCrossed
<1>13. CASE WriteRescue
  BY <1>13 DEF WriteRescue, InFlight, AllCrossed
<1>14. CASE MarkDone \/ DeclareFails \/ Stop
  BY <1>14 DEF MarkDone, DeclareFails, Stop, Releases, InFlight
<1>15. ASSUME NEW d \in Dest, NEW to, Tamper(d, to) PROVE InFlight'
  BY <1>15 DEF Tamper, Unlocked, InFlight
<1>16. CASE UNCHANGED vars
  BY <1>16 DEF vars, InFlight, AllCrossed, Crossed
<1> QED
  BY <1>1, <1>2, <1>3, <1>4, <1>5, <1>6, <1>7, <1>8, <1>9, <1>10, <1>11, <1>12,
     <1>13, <1>14, <1>15, <1>16 DEF Next, Works, AskSwitch, AskRollback

\* What Numbering is about, and what most actions leave alone.
numbers == <<gens, current, journal, step, job, ops>>

\* Steps that write no generation keep the numbering.
LEMMA NumberingFrame == Numbering /\ UNCHANGED numbers => Numbering'
  BY DEF Numbering, numbers, NextGen

\* The number of the next generation, and the ids in use, go up together.
LEMMA NumberingStep ==
    ASSUME TypeOK, TypeOK', InFlight, Numbering, [Next]_vars
    PROVE  Numbering'
<1>. USE DEF Early, NoGen
<1>0. /\ current \in Int /\ ops \in Int
      /\ \A g \in DOMAIN gens : gens[g].id \in Int
      /\ journal # NoJournal => journal.id \in Int
      /\ step # "free" => job.id \in Int /\ 1 <= job.id /\ job.new \in Int
  <2>1. current \in Int /\ ops \in Int
    BY DEF TypeOK
  <2>2. \A g \in DOMAIN gens : gens[g].id \in Int
    BY DEF TypeOK, Generation
  <2>3. journal # NoJournal => journal.id \in Int
    BY JournalType
  <2>4. step # "free" => job.id \in Int /\ 1 <= job.id /\ job.new \in Int
    BY JobType
  <2> QED BY <2>1, <2>2, <2>3, <2>4
<1>1. CASE UNCHANGED numbers
  BY <1>1, NumberingFrame
<1>2. ASSUME NEW p \in Proc, Start(p) PROVE Numbering'
  <2>1. /\ job'.id = ops + 1 /\ job'.new = NextGen /\ ops' = ops + 1
        /\ step' = IF current = NoGen THEN "before" ELSE "journal"
        /\ UNCHANGED <<current, gens, journal>> /\ journal = NoJournal
    BY <1>2 DEF Start, Begins, records
  <2> QED BY <2>1, <1>0 DEF Numbering, NextGen
<1>3. ASSUME NEW d \in Dest, NEW a \in Profile, StartAdopt(d, a) PROVE Numbering'
  <2>1. /\ job'.id = ops + 1 /\ job'.new = NextGen /\ ops' = ops + 1
        /\ step' = "copy"
        /\ UNCHANGED <<current, gens, journal>> /\ journal = NoJournal
    BY <1>3 DEF StartAdopt, Begins, records
  <2> QED BY <2>1, <1>0 DEF Numbering, NextGen
<1>4. CASE StartRecover
  <2>1. /\ job'.id = journal.id /\ job'.new = NextGen /\ job'.kind = "recover"
        /\ UNCHANGED <<current, gens, journal, ops>> /\ journal # NoJournal
    BY <1>4 DEF StartRecover, records
  <2>2. step' \in {"cross", "abandon"}
    BY <1>4, Zenon DEF StartRecover
  <2> QED BY <2>1, <2>2, <1>0 DEF Numbering, NextGen
<1>5. CASE CopyTree
  BY <1>5, <1>0 DEF CopyTree, Numbering, NextGen, records
<1>6. CASE Declare
  BY <1>6, <1>0 DEF Declare, Numbering, NextGen, records, InFlight
<1>7. CASE SaveFirst
  BY <1>7, <1>0 DEF SaveFirst, Numbering, NextGen
<1>8. CASE WriteJournal
  <2>1. /\ journal'.id = job.id /\ step' = "cross" /\ step = "journal"
        /\ UNCHANGED <<gens, current, job, ops>>
    BY <1>8 DEF WriteJournal, records
  <2> QED BY <2>1, <1>0 DEF Numbering, NextGen
<1>9. CASE SaveGeneration
  BY <1>9, <1>0 DEF SaveGeneration, Numbering, NextGen, AlreadySaved
<1>10. CASE FindGeneration
  <2>1. /\ job'.new = current /\ job'.id = job.id /\ job'.kind = job.kind
        /\ step' = "record" /\ current > 0
        /\ UNCHANGED <<gens, current, journal, ops>>
    BY <1>10, JobType DEF FindGeneration, Job, records, AlreadySaved
  <2> QED BY <2>1, <1>0, <1>10 DEF FindGeneration, Numbering, NextGen
<1>11. CASE SetCurrent
  <2>1. /\ current' = job.new /\ step' = "record" /\ step = "point"
        /\ UNCHANGED <<gens, journal, job, ops>>
    BY <1>11 DEF SetCurrent
  <2>2. /\ 1 <= job.new /\ 0..job.new \subseteq DOMAIN gens /\ job.new <= job.id
        /\ gens[job.new].id = job.id
    BY <2>1, <1>0 DEF Numbering, NextGen
  <2> QED BY <2>1, <2>2, <1>0 DEF Numbering, InFlight, Late
<1>12. CASE SaveLedger
  BY <1>12, <1>0 DEF SaveLedger, Numbering, NextGen
<1>13. CASE WriteRescue
  BY <1>13, <1>0 DEF WriteRescue, Numbering, NextGen
<1>14. CASE MarkDone \/ DeclareFails \/ Stop
  BY <1>14, <1>0 DEF MarkDone, DeclareFails, Stop, Releases, Numbering, NextGen, records
<1> QED
  BY <1>1, <1>2, <1>3, <1>4, <1>5, <1>6, <1>7, <1>8, <1>9, <1>10, <1>11, <1>12,
     <1>13, <1>14 DEF Next, Works, AskSwitch, AskRollback, Asks, ReadLedger, GivesUp,
     Cross, Tamper, vars, records, numbers

\* What an operation may displace: what is ricepilot's own, and a directory
\* if it is an adopt.
Its(d, adopting) ==
    \/ live[d] = Nothing
    \/ live[d].by = "ricepilot"
    \/ live[d].to = Directory /\ adopting

\* From the plan to the end of the journal that is all there is at the paths
\* that change, and what stays as it was asked for is ricepilot's.
Movable ==
    /\ step \in Early => \A d \in DOMAIN job.changes : Its(d, job.kind = "adopt")
    /\ journal # NoJournal => \A d \in DOMAIN journal.changes : Its(d, journal.adopt)
    /\ step # "free" =>
          \A d \in DOMAIN job.targets \ DOMAIN job.changes : live[d].by = "ricepilot"

\* The planner's shapes, as the ownership predicate has them.
LEMMA ShapeMeans ==
    ASSUME TypeOK, NEW d \in Dest
    PROVE  /\ Shape(d) = "owned" => Owns(d)
           /\ Shape(d) = "absent" => live[d] = Nothing
           /\ Shape(d) = "realdir" => live[d].to = Directory
           /\ live[d].to \in Target => Shape(d) \in {"owned", "foreign"}
<1>1. \/ live[d] = Nothing /\ live[d].to = Nowhere
      \/ live[d].to = Directory
      \/ live[d].to \in Target
  BY DEF TypeOK, Object, Nothing
<1>2. Nowhere # Directory
  BY DEF Nowhere, Directory
<1>3. CASE live[d].to = Nowhere
  BY <1>1, <1>2, <1>3, TargetTypes DEF Shape
<1>4. CASE live[d].to = Directory
  BY <1>2, <1>4, TargetTypes DEF Shape
<1>5. CASE live[d].to \in Target
  <2>1. live[d].to # Nowhere /\ live[d].to # Directory
    BY <1>5, TargetTypes
  <2>2. Shape(d) = IF Owns(d) THEN "owned" ELSE "foreign"
    BY <1>5, <2>1 DEF Shape
  <2> QED BY <1>5, <2>1, <2>2
<1> QED BY <1>1, <1>3, <1>4, <1>5

\* The plan of a switch or a rollback has only absent and owned paths in it.
LEMMA StartIsMovable ==
    ASSUME TypeOK, InFlight, OwnsNothingElse, NEW p \in Proc, Start(p)
    PROVE  Movable'
<1>. DEFINE r == request[p]
<1>1. /\ r.targets \in Partial(Target) /\ r.retire \subseteq Dest
  BY RequestType DEF Start, Request
<1>2. DOMAIN r.targets \subseteq Dest /\ r.targets \in [DOMAIN r.targets -> Target]
  BY <1>1, PartialElim
<1>3. /\ job'.targets = r.targets /\ job'.changes = Changes(r.targets, r.retire)
      /\ live' = live /\ journal' = NoJournal
  BY DEF Start, Begins
<1>4. \A d \in DOMAIN r.targets : Shape(d) \in {"owned", "absent"}
  BY DEF Start, Declines
<1>5. \A d \in DOMAIN r.targets \union r.retire :
         Shape(d) \in {"owned", "absent"} => live[d] = Nothing \/ live[d].by = "ricepilot"
  BY <1>1, <1>2, ShapeMeans DEF OwnsNothingElse
<1>6. /\ \A d \in DOMAIN job'.changes :
            /\ d \in DOMAIN r.targets \union r.retire
            /\ Shape(d) \in {"owned", "absent"}
      /\ \A d \in DOMAIN r.targets \ DOMAIN job'.changes : live[d].to = r.targets[d]
  BY <1>3, <1>4 DEF Changes
<1>7. \A d \in DOMAIN r.targets \ DOMAIN job'.changes : live[d].by = "ricepilot"
  <2> SUFFICES ASSUME NEW d \in DOMAIN r.targets \ DOMAIN job'.changes
               PROVE  live[d].by = "ricepilot"
    OBVIOUS
  <2>1. live[d].to \in Target
    BY <1>2, <1>6
  <2>2. live[d] # Nothing
    BY <2>1, TargetTypes
  <2> QED BY <1>4, <1>5, <2>2
<1> QED BY <1>3, <1>5, <1>6, <1>7 DEF Movable, Its

\* Every step keeps what a plan may move.
LEMMA MovableStep ==
    ASSUME TypeOK, InFlight, Movable, OwnsNothingElse, [Next]_vars
    PROVE  Movable'
<1>. USE DEF Its
<1>1. CASE UNCHANGED <<live, journal, step, job>>
  BY <1>1 DEF Movable
<1>2. ASSUME NEW d \in Dest, NEW a \in Profile, StartAdopt(d, a) PROVE Movable'
  <2>1. /\ job'.kind = "adopt" /\ job'.targets = [e \in {d} |-> a]
        /\ job'.changes = [e \in {d} |-> a] /\ live' = live /\ journal' = NoJournal
    BY <1>2 DEF StartAdopt, Begins
  <2>2. live[d].to = Directory
    BY <1>2, ShapeMeans DEF StartAdopt
  <2> QED BY <2>1, <2>2 DEF Movable
<1>3. CASE StartRecover
  <2>1. /\ journal' = journal /\ live' = live /\ step' \notin Early
        /\ job'.changes = journal.changes
        /\ DOMAIN job'.targets \subseteq DOMAIN journal.changes
    BY <1>3 DEF StartRecover, Early
  <2> QED BY <2>1 DEF Movable
<1>4. CASE CopyTree \/ Declare \/ SaveFirst
  BY <1>4 DEF CopyTree, Declare, SaveFirst, Movable, InFlight, Early
<1>5. CASE WriteJournal
  <2>1. /\ journal'.changes = job.changes /\ journal'.adopt = (job.kind = "adopt")
        /\ live' = live /\ job' = job /\ step = "journal" /\ step' = "cross"
    BY <1>5 DEF WriteJournal
  <2> QED BY <2>1 DEF Movable, Early
<1>6. ASSUME NEW d \in Dest, Cross(d) PROVE Movable'
  <2>1. /\ UNCHANGED <<journal, step, job>> /\ step = "cross"
        /\ \A e \in Dest \ {d} : live'[e] = live[e]
        /\ live'[d] = Nothing \/ live'[d].by = "ricepilot"
        /\ d \in DOMAIN job.changes
    BY <1>6 DEF Cross, TypeOK
  <2>2. /\ DOMAIN job.targets \subseteq Dest
        /\ journal # NoJournal => DOMAIN journal.changes \subseteq Dest
    BY <2>1, JobType, JournalType
  <2> QED BY <2>1, <2>2 DEF Movable, Early
<1>7. CASE FindGeneration
  <2>1. /\ job'.changes = job.changes /\ job'.targets = job.targets
        /\ step' = "record" /\ step = "cross" /\ journal' = journal /\ live' = live
    BY <1>7, JobType DEF FindGeneration, Job
  <2> QED BY <2>1 DEF Movable, Early
<1>8. CASE SaveGeneration \/ SetCurrent \/ SaveLedger \/ WriteRescue
  BY <1>8 DEF SaveGeneration, SetCurrent, SaveLedger, WriteRescue, Movable, Early
<1>9. CASE MarkDone \/ DeclareFails \/ Stop
  BY <1>9 DEF MarkDone, DeclareFails, Stop, Releases, Movable, Early
<1>10. ASSUME NEW d \in Dest, NEW to, Tamper(d, to) PROVE Movable'
  BY <1>10 DEF Tamper, Unlocked, Movable, Early
<1> QED
  BY <1>1, <1>2, <1>3, <1>4, <1>5, <1>6, <1>7, <1>8, <1>9, <1>10, StartIsMovable
     DEF Next, Works, AskSwitch, AskRollback, Asks, ReadLedger, GivesUp, vars

\* A row is written for what an operation put in place, and a new object never
\* has the inode a row remembers.
LEMMA OwnsStep ==
    ASSUME TypeOK, InFlight, Movable, OwnsNothingElse, [Next]_vars
    PROVE  OwnsNothingElse'
<1>1. CASE UNCHANGED <<live, ledger>>
  BY <1>1 DEF OwnsNothingElse, Owns
<1>2. ASSUME NEW d \in Dest, Cross(d) PROVE OwnsNothingElse'
  <2>1. /\ ledger' = ledger /\ \A e \in Dest \ {d} : live'[e] = live[e]
        /\ live'[d] = Nothing \/ live'[d].by = "ricepilot"
    BY <1>2 DEF Cross, TypeOK, records
  <2>2. Nothing.to \notin Profile
    BY TargetTypes DEF Target
  <2> QED BY <2>1, <2>2 DEF OwnsNothingElse, Owns
<1>3. ASSUME NEW d \in Dest, NEW to, Tamper(d, to) PROVE OwnsNothingElse'
  <2>1. /\ ledger' = ledger /\ \A e \in Dest \ {d} : live'[e] = live[e]
        /\ live'[d] = Nothing \/ live'[d].ino # ledger[d].ino
    BY <1>3, FreshType DEF Tamper, TypeOK, records
  <2>2. Nothing.to \notin Profile
    BY TargetTypes DEF Target
  <2> QED BY <2>1, <2>2 DEF OwnsNothingElse, Owns
<1>4. CASE SaveLedger
  <2> SUFFICES ASSUME NEW d \in Dest, Owns(d)' PROVE live'[d].by = "ricepilot"
    BY DEF OwnsNothingElse
  <2>1. live' = live /\ step = "record" /\ live[d].to \in Profile
    BY <1>4 DEF SaveLedger, Owns
  <2>2. live[d] # Nothing /\ live[d].to # Directory /\ NoRow.to \notin Profile
    BY <2>1, TargetTypes DEF Target
  <2>3. CASE d \in job.retire
    BY <1>4, <2>1, <2>2, <2>3 DEF SaveLedger, Owns
  <2>4. CASE d \in DOMAIN job.targets
    BY <2>1, <2>2, <2>4 DEF InFlight, Late, Movable, Its
  <2>5. CASE d \notin job.retire /\ d \notin DOMAIN job.targets
    BY <1>4, <2>1, <2>5 DEF SaveLedger, Owns, OwnsNothingElse
  <2> QED BY <2>3, <2>4, <2>5
<1> QED
  BY <1>1, <1>2, <1>3, <1>4
     DEF Next, Works, AskSwitch, AskRollback, Asks, ReadLedger, GivesUp, vars, records,
     Start, StartAdopt, StartRecover, CopyTree, Declare, SaveFirst, WriteJournal,
     SaveGeneration, FindGeneration, SetCurrent, WriteRescue, MarkDone, DeclareFails, Stop

OperationsInv ==
    /\ TypeOK
    /\ InFlight
    /\ Numbering
    /\ Movable
    /\ OwnsNothingElse

\* Every reachable state, whatever died in between, has the records, the
\* process and the live paths in agreement.
THEOREM InvariantHolds == Spec => []OperationsInv
<1>1. Init => OperationsInv
  <2> SUFFICES ASSUME Init PROVE OperationsInv
    OBVIOUS
  <2>1. TypeOK
    BY TypeInit
  <2>2. InFlight /\ Numbering /\ Movable
    BY DEF Init, InFlight, Numbering, Movable, Early, Late, NoGen
  <2>3. OwnsNothingElse
    BY TargetTypes DEF Init, OwnsNothingElse, Owns, Target
  <2> QED BY <2>1, <2>2, <2>3 DEF OperationsInv
<1>2. OperationsInv /\ [Next]_vars => OperationsInv'
  BY TypeStep, InFlightStep, NumberingStep, MovableStep, OwnsStep DEF OperationsInv
<1> QED BY <1>1, <1>2, PTL DEF Spec

-----------------------------------------------------------------------------
(***************************************************************************)
(* What follows from it                                                    *)
(***************************************************************************)

\* Every record and the process's memory stay in their types, under any
\* interleaving of commands, deaths and changes by the user.
THEOREM RecordsAreTyped == Spec => []TypeOK
<1>1. OperationsInv => TypeOK
  BY DEF OperationsInv
<1> QED BY <1>1, InvariantHolds, PTL

\* ricepilot never takes somebody else's link for its own (D31).
THEOREM OwnershipIsTrue == Spec => []OwnsNothingElse
<1>1. OperationsInv => OwnsNothingElse
  BY DEF OperationsInv
<1> QED BY <1>1, InvariantHolds, PTL

\* What a step does to a journal in flight, to the history and to a path,
\* as the action properties have it.
Burying ==
    journal # NoJournal /\ journal' # journal =>
        /\ journal' = NoJournal
        /\ job.id = journal.id
        /\ \/ \A d \in DOMAIN journal.changes : Crossed(d)
           \/ \A d \in DOMAIN journal.changes : ~Crossed(d)

Keeping ==
    /\ current' # current => current' = NextGen
    /\ current # NoGen => \A g \in 0..current : gens'[g] = gens[g]

Displacing ==
    \A d \in Dest :
        live[d] # Nothing /\ live'[d] # live[d] /\ tampers' = tampers =>
            \/ live[d].by = "ricepilot"
            \/ live[d].to = Directory /\ journal.adopt

\* A step leaves a journal in flight alone, or retires it, with all of its
\* destinations on one side.
LEMMA BuryingStep == OperationsInv /\ [Next]_vars => Burying
<1> SUFFICES ASSUME OperationsInv, [Next]_vars, journal # NoJournal, journal' # journal
             PROVE  /\ journal' = NoJournal
                    /\ job.id = journal.id
                    /\ \/ \A d \in DOMAIN journal.changes : Crossed(d)
                       \/ \A d \in DOMAIN journal.changes : ~Crossed(d)
  BY DEF Burying
<1>1. WriteJournal \/ MarkDone
  BY DEF Next, Works, AskSwitch, AskRollback, Asks, ReadLedger, GivesUp, Start,
     StartAdopt, StartRecover, CopyTree, Declare, SaveFirst, Cross, SaveGeneration,
     FindGeneration, SetCurrent, SaveLedger, WriteRescue, DeclareFails, Stop, Tamper, vars
<1>2. ~WriteJournal
  BY DEF OperationsInv, InFlight, Early, WriteJournal
<1>3. MarkDone
  BY <1>1, <1>2
<1> QED BY <1>3 DEF MarkDone, OperationsInv, InFlight, Late, AllCrossed, Crossed

\* A journal in flight is retired by its own operation or a recover of it,
\* with all of its destinations on one side.
THEOREM NoJournalIsBuried == Spec => JournalNeverBuried
<1> QED BY BuryingStep, InvariantHolds, PTL DEF Spec, JournalNeverBuried, Burying

\* A step writes no generation the pointer has reached.
LEMMA HistoryStep == OperationsInv /\ [Next]_vars => Keeping
<1> SUFFICES ASSUME OperationsInv, [Next]_vars
             PROVE  /\ current' # current => current' = NextGen
                    /\ current # NoGen => \A g \in 0..current : gens'[g] = gens[g]
  BY DEF Keeping
<1>1. CASE SaveFirst
  BY <1>1 DEF SaveFirst, OperationsInv, Numbering
<1>2. CASE SaveGeneration
  <2>1. /\ job.new = NextGen /\ current' = current /\ current \in Int
        /\ current # NoGen => 0..current \subseteq DOMAIN gens
    BY <1>2 DEF SaveGeneration, OperationsInv, Numbering, TypeOK, NoGen
  <2>2. \A g \in DOMAIN gens : g # job.new => gens'[g] = gens[g]
    BY <1>2 DEF SaveGeneration
  <2> QED BY <2>1, <2>2 DEF NextGen
<1>3. CASE SetCurrent
  BY <1>3 DEF SetCurrent, OperationsInv, Numbering
<1>4. CASE UNCHANGED <<gens, current>>
  BY <1>4
<1> QED
  BY <1>1, <1>2, <1>3, <1>4 DEF Next, Works, AskSwitch, AskRollback, Asks,
     ReadLedger, GivesUp, Start, StartAdopt, StartRecover, CopyTree, Declare, WriteJournal,
     Cross, FindGeneration, SaveLedger, WriteRescue, MarkDone, DeclareFails, Stop, Tamper,
     vars, records

\* The pointer at the current generation moves up by one or not at all, and
\* what it has reached is never written again.
THEOREM HistoryOnlyGrows == Spec => HistoryIsKept
<1> QED BY HistoryStep, InvariantHolds, PTL DEF Spec, HistoryIsKept, Keeping

\* A step displaces only a link of ricepilot or the directory of an adopt.
LEMMA DisplacingStep == OperationsInv /\ [Next]_vars => Displacing
<1> SUFFICES ASSUME OperationsInv, [Next]_vars, NEW d \in Dest,
                    live[d] # Nothing, live'[d] # live[d], tampers' = tampers
             PROVE  \/ live[d].by = "ricepilot"
                    \/ live[d].to = Directory /\ journal.adopt
  BY DEF Displacing
<1>1. ASSUME NEW e \in Dest, NEW to, Tamper(e, to) PROVE FALSE
  BY <1>1 DEF Tamper, OperationsInv, TypeOK
<1>2. PICK e \in Dest : Cross(e)
  BY <1>1 DEF Next, Works, AskSwitch, AskRollback, Asks,
     ReadLedger, GivesUp, Start, StartAdopt, StartRecover, CopyTree, Declare, SaveFirst,
     WriteJournal, SaveGeneration, FindGeneration, SetCurrent, SaveLedger, WriteRescue,
     MarkDone, DeclareFails, Stop, vars
<1>3. e = d
  BY <1>2 DEF Cross, OperationsInv, TypeOK
<1>4. d \in DOMAIN journal.changes /\ journal # NoJournal
  BY <1>2, <1>3 DEF Cross, OperationsInv, InFlight, Late
<1> QED BY <1>4 DEF OperationsInv, Movable, Its

\* Nothing foreign is displaced by any operation (R1).
THEOREM OnlyItsOwnIsDisplaced == Spec => DisplacesOnlyItsOwn
<1> QED BY DisplacingStep, InvariantHolds, PTL DEF Spec, DisplacesOnlyItsOwn, Displacing

-----------------------------------------------------------------------------
(***************************************************************************)
(* The current generation is true                                          *)
(***************************************************************************)

TrueOf(g) ==
    \A d \in DOMAIN gens[g].entries \ touched :
        gens[g].entries[d] = Topology({d})[d]

Saved == current # NoGen /\ gens[current].id = journal.id
NoneCrossed == \A d \in DOMAIN journal.changes : ~Crossed(d)

\* The current generation is true until the first destination crosses, and
\* again from the moment it is the one of the journal in flight.  In between
\* only the generation that is about to become current is.
Truth ==
    /\ step # "free" => DOMAIN job.changes # {}
    /\ journal # NoJournal => DOMAIN journal.changes # {}
    /\ journal = NoJournal /\ current # NoGen => TrueOf(current)
    /\ journal # NoJournal /\ current # NoGen /\ (Saved \/ NoneCrossed) => TrueOf(current)
    /\ journal # NoJournal /\ Saved => \A d \in DOMAIN journal.changes : Crossed(d)
    /\ step = "point" => TrueOf(job.new)
    /\ step \in {"record", "rescue", "finish"} => Saved

\* The current generation is there, and is one.
LEMMA CurrentIsThere ==
    ASSUME TypeOK, Numbering, current # NoGen
    PROVE  /\ current \in Int /\ current > 0
           /\ current \in DOMAIN gens
           /\ gens[current].id \in Int
           /\ DOMAIN gens[current].entries \subseteq Dest
<1>1. current \in Int /\ 1 <= current /\ current \in DOMAIN gens
  BY DEF TypeOK, Numbering
<1>2. gens[current] \in Generation
  BY <1>1 DEF TypeOK
<1>3. gens[current].id \in Int /\ gens[current].entries \in Partial(Target \union {Nowhere})
  BY <1>2 DEF Generation
<1> QED BY <1>1, <1>3, PartialElim

\* Steps that leave paths and generations alone keep what they say of each
\* other.
LEMMA TruthFrame ==
    ASSUME Truth, UNCHANGED <<live, gens, current, journal, step, job, touched>>
    PROVE  Truth'
  BY DEF Truth, TrueOf, Saved, NoneCrossed, Crossed, Topology

\* Every step keeps the current generation true.
LEMMA TruthStep ==
    ASSUME OperationsInv, OperationsInv', Truth, [Next]_vars
    PROVE  Truth'
<1>1. CASE UNCHANGED <<live, gens, current, journal, step, job, touched>>
  BY <1>1, TruthFrame
<1>2. ASSUME NEW p \in Proc, Start(p) PROVE Truth'
  <2>1. /\ DOMAIN job'.changes # {} /\ step' \in {"before", "journal"}
        /\ UNCHANGED <<live, gens, current, journal, touched>> /\ journal = NoJournal
    BY <1>2 DEF Start, Begins, records
  <2> QED BY <2>1 DEF Truth, TrueOf, Topology
<1>3. ASSUME NEW d \in Dest, NEW a \in Profile, StartAdopt(d, a) PROVE Truth'
  <2>1. /\ job'.changes = [e \in {d} |-> a] /\ step' = "copy"
        /\ UNCHANGED <<live, gens, current, journal, touched>> /\ journal = NoJournal
    BY <1>3 DEF StartAdopt, Begins, records
  <2> QED BY <2>1 DEF Truth, TrueOf, Topology
<1>4. CASE StartRecover
  <2>1. /\ job'.changes = journal.changes
        /\ UNCHANGED <<live, gens, current, journal, touched>> /\ journal # NoJournal
    BY <1>4 DEF StartRecover, records
  <2>2. step' \in {"cross", "abandon"}
    BY <1>4, Zenon DEF StartRecover
  <2> QED BY <2>1, <2>2 DEF Truth, TrueOf, Topology, Saved, NoneCrossed, Crossed
<1>5. CASE CopyTree \/ Declare
  <2>1. /\ UNCHANGED <<live, gens, current, journal, job, touched>>
        /\ step' \in {"declare", "before", "journal"} /\ journal = NoJournal /\ step # "free"
    BY <1>5 DEF CopyTree, Declare, records, OperationsInv, InFlight, Early
  <2> QED BY <2>1 DEF Truth, TrueOf, Topology
<1>6. CASE SaveFirst
  <2>1. /\ UNCHANGED <<live, current, journal, job, touched>> /\ current = NoGen
        /\ step' = "journal" /\ journal = NoJournal /\ step # "free"
    BY <1>6 DEF SaveFirst, OperationsInv, InFlight, Early, Numbering
  <2> QED BY <2>1 DEF Truth
<1>7. CASE WriteJournal
  <2>1. /\ UNCHANGED <<live, gens, current, job, touched>> /\ journal = NoJournal
        /\ journal'.changes = job.changes /\ journal'.id = job.id
        /\ step = "journal" /\ step' = "cross"
    BY <1>7 DEF WriteJournal, OperationsInv, InFlight, Early, records
  <2>2. current # NoGen => gens[current].id # job.id
    <3>1. CASE current # NoGen
      <4>1. gens[current].id \in Int /\ gens[current].id < job.id /\ job.id \in Int
        BY <2>1, <3>1, JobType, CurrentIsThere DEF OperationsInv, Numbering, Early
      <4> QED BY <4>1
    <3> QED BY <3>1
  <2> QED BY <2>1, <2>2 DEF Truth, TrueOf, Topology, Saved
<1>8. ASSUME NEW d \in Dest, Cross(d) PROVE Truth'
  <2>1. /\ UNCHANGED <<gens, current, journal, step, job, touched>> /\ step = "cross"
        /\ d \in DOMAIN journal.changes /\ journal # NoJournal
        /\ ~Crossed(d)
    BY <1>8 DEF Cross, OperationsInv, InFlight, Late, Crossed, records
  <2>2. live'[d].to = journal.changes[d]
    BY <1>8 DEF Cross, OperationsInv, InFlight, Late, TypeOK, Nothing
  <2>3. ~Saved
    BY <2>1 DEF Truth
  <2>4. ~Saved' /\ ~NoneCrossed'
    BY <2>1, <2>2, <2>3 DEF Saved, NoneCrossed, Crossed
  <2> QED BY <2>1, <2>4 DEF Truth
<1>9. CASE SaveGeneration
  <2>1. /\ UNCHANGED <<live, current, journal, job>> /\ step = "cross" /\ step' = "point"
        /\ journal # NoJournal /\ journal.id = job.id /\ journal.changes = job.changes
        /\ AllCrossed /\ ~AlreadySaved /\ job.dests \subseteq Dest
        /\ gens'[job.new].entries = Topology(job.dests)
    BY <1>9, JobType DEF SaveGeneration, OperationsInv, InFlight, Late
  <2>2. current # NoGen => gens'[current].id # job.id /\ current # job.new
    <3>1. CASE current # NoGen
      <4>1. /\ current \in Int /\ current > 0 /\ job.new = current + 1
            /\ current \in DOMAIN gens
        BY <2>1, <3>1, CurrentIsThere DEF OperationsInv, Numbering, NextGen
      <4>2. gens'[current] = gens[current]
        BY <1>9, <4>1 DEF SaveGeneration
      <4>3. gens[current].id # job.id
        <5>1. CASE job.kind = "recover"
          BY <2>1, <4>1, <5>1 DEF AlreadySaved
        <5>2. CASE job.kind # "recover"
          <6>1. gens[current].id \in Int /\ gens[current].id < job.id /\ job.id \in Int
            BY <2>1, <3>1, <5>2, JobType, CurrentIsThere DEF OperationsInv, Numbering
          <6> QED BY <6>1
        <5> QED BY <5>1, <5>2
      <4> QED BY <4>1, <4>2, <4>3
    <3> QED BY <3>1
  <2>3. ~Saved' /\ ~NoneCrossed'
    BY <2>1, <2>2 DEF Saved, NoneCrossed, AllCrossed, Crossed, Truth
  <2>4. TrueOf(job.new)'
    BY <2>1 DEF TrueOf, Topology
  <2> QED BY <2>1, <2>3, <2>4 DEF Truth
<1>10. CASE FindGeneration
  <2>1. /\ UNCHANGED <<live, gens, current, journal, touched>>
        /\ job'.changes = job.changes /\ step' = "record" /\ step = "cross"
        /\ journal # NoJournal /\ journal.id = job.id
        /\ current > 0 /\ gens[current].id = job.id
    BY <1>10, JobType DEF FindGeneration, Job, AlreadySaved, OperationsInv, InFlight, Late, records
  <2>2. current # NoGen
    BY <2>1 DEF NoGen
  <2> QED BY <2>1, <2>2 DEF Truth, TrueOf, Topology, Saved, NoneCrossed, Crossed
<1>11. CASE SetCurrent
  <2>1. /\ UNCHANGED <<live, gens, journal, job, touched>>
        /\ current' = job.new /\ step = "point" /\ step' = "record"
        /\ journal # NoJournal /\ journal.id = job.id /\ journal.changes = job.changes
        /\ AllCrossed /\ gens[job.new].id = job.id
    BY <1>11 DEF SetCurrent, OperationsInv, InFlight, Late, Numbering
  <2>2. job.new # NoGen
    BY <2>1, JobType DEF OperationsInv, NoGen
  <2>3. Saved' /\ TrueOf(current)'
    BY <2>1, <2>2 DEF Truth, Saved, TrueOf, Topology
  <2> QED BY <2>1, <2>3 DEF Truth, AllCrossed, Crossed
<1>12. CASE SaveLedger \/ WriteRescue
  <2>1. /\ UNCHANGED <<live, gens, current, journal, job, touched>>
        /\ step \in {"record", "rescue"} /\ step' \in {"rescue", "finish"}
    BY <1>12 DEF SaveLedger, WriteRescue
  <2> QED BY <2>1 DEF Truth, TrueOf, Topology, Saved, NoneCrossed, Crossed
<1>13. CASE MarkDone
  <2>1. /\ UNCHANGED <<live, gens, current, touched>> /\ step \in {"finish", "abandon"}
        /\ step' = "free" /\ journal' = NoJournal /\ journal # NoJournal
    BY <1>13 DEF MarkDone, Releases, records, OperationsInv, InFlight, Late
  <2>2. step = "abandon" => NoneCrossed
    BY <2>1 DEF OperationsInv, InFlight, NoneCrossed
  <2> QED BY <2>1, <2>2 DEF Truth, TrueOf, Topology
<1>14. CASE DeclareFails \/ Stop
  <2>1. UNCHANGED <<live, gens, current, journal, touched>> /\ step' = "free"
    BY <1>14 DEF DeclareFails, Stop, Releases, records
  <2> QED BY <2>1 DEF Truth, TrueOf, Topology, Saved, NoneCrossed, Crossed
<1>15. ASSUME NEW d \in Dest, NEW to, Tamper(d, to) PROVE Truth'
  <2>1. /\ UNCHANGED <<gens, current, journal, step, job>>
        /\ journal = NoJournal /\ step = "free"
        /\ touched' = touched \union {d}
        /\ \A e \in Dest \ {d} : live'[e] = live[e]
    BY <1>15 DEF Tamper, Unlocked, records, OperationsInv, TypeOK
  <2>2. current # NoGen => DOMAIN gens[current].entries \subseteq Dest
    BY CurrentIsThere DEF OperationsInv
  <2> QED BY <2>1, <2>2 DEF Truth, TrueOf, Topology
<1> QED
  BY <1>1, <1>2, <1>3, <1>4, <1>5, <1>6, <1>7, <1>8, <1>9, <1>10, <1>11, <1>12, <1>13,
     <1>14, <1>15 DEF Next, Works, AskSwitch, AskRollback, Asks, ReadLedger, GivesUp, vars, records

\* At rest the current generation says what is at its paths, except where the
\* user has been since.
THEOREM GenerationIsTrue == Spec => []CurrentIsTrue
<1>1. Init => Truth
  BY DEF Init, Truth
<1>2. OperationsInv /\ OperationsInv' /\ Truth /\ [Next]_vars => Truth'
  BY TruthStep
<1>3. Truth => CurrentIsTrue
  BY DEF Truth, CurrentIsTrue, AtRest, TrueOf
<1> QED BY <1>1, <1>2, <1>3, InvariantHolds, PTL DEF Spec

-----------------------------------------------------------------------------
(***************************************************************************)
(* ricepilot's own links are in its records                                *)
(***************************************************************************)

\* What is asked for and what is to be retired are different paths, every
\* change is one or the other, and what is to be retired and does not change
\* is not there.
Planned ==
    /\ \A p \in Proc : request[p] # NoRequest =>
          request[p].retire \intersect DOMAIN request[p].targets = {}
    /\ step # "free" =>
          /\ job.retire \intersect DOMAIN job.targets = {}
          /\ \A d \in DOMAIN job.changes :
                IF job.changes[d] = Nowhere THEN d \in job.retire ELSE d \in DOMAIN job.targets
          /\ \A d \in job.retire \ DOMAIN job.changes : live[d] = Nothing

\* A link of ricepilot's own that no row describes has just crossed: its
\* operation, or the recover of it, has yet to write the ledger.
Unrecorded(d) == live[d].by = "ricepilot" /\ live[d].to \in Profile /\ ~Owns(d)

Recorded ==
    \A d \in Dest : Unrecorded(d) =>
        /\ journal # NoJournal
        /\ d \in DOMAIN journal.changes
        /\ Crossed(d)
        /\ step \notin {"rescue", "finish"}

\* Every step keeps the rows it plans to write in step with the journal.
LEMMA PlannedStep ==
    ASSUME TypeOK, InFlight, Planned, [Next]_vars
    PROVE  Planned'
<1>1. CASE UNCHANGED <<live, request, step, job>>
  BY <1>1 DEF Planned
<1>2. ASSUME NEW p \in Proc, NEW k, NEW targets, Asks(p, k, targets) PROVE Planned'
  BY <1>2 DEF Asks, Planned, TypeOK
<1>3. ASSUME NEW p \in Proc, ReadLedger(p) PROVE Planned'
  <2>1. /\ request[p] \in Request /\ UNCHANGED <<live, step, job>>
        /\ request' = [request EXCEPT ![p] =
              [request[p] EXCEPT !.ready = TRUE,
                                 !.retire = OwnedDests \ DOMAIN request[p].targets]]
    BY <1>3, RequestType DEF ReadLedger
  <2>2. /\ request'[p].retire = OwnedDests \ DOMAIN request[p].targets
        /\ request'[p].targets = request[p].targets
        /\ \A q \in Proc \ {p} : request'[q] = request[q]
    BY <2>1 DEF Request, TypeOK
  <2> QED BY <2>1, <2>2 DEF Planned
<1>4. ASSUME NEW p \in Proc, GivesUp(p) PROVE Planned'
  BY <1>4 DEF GivesUp, Planned, TypeOK
<1>5. ASSUME NEW p \in Proc, Start(p) PROVE Planned'
  <2>. DEFINE r == request[p]
  <2>1. /\ job'.targets = r.targets /\ job'.retire = r.retire
        /\ job'.changes = Changes(r.targets, r.retire) /\ live' = live
        /\ \A q \in Proc : request'[q] # NoRequest => request'[q] = request[q]
        /\ r # NoRequest
    BY <1>5 DEF Start, Begins, TypeOK
  <2>2. r.retire \intersect DOMAIN r.targets = {}
    BY <2>1 DEF Planned
  <2>3. r.targets \in [DOMAIN r.targets -> Target] /\ r.retire \subseteq Dest
    BY <2>1, RequestType, PartialElim DEF Request
  <2>4. \A d \in DOMAIN r.targets : r.targets[d] # Nowhere
    BY <2>3, TargetTypes
  <2>5. \A d \in r.retire : Shape(d) \in {"owned", "absent"}
    BY <1>5 DEF Start, Declines
  <2>6. \A d \in r.retire : Shape(d) = "absent" => live[d] = Nothing
    BY <2>3, ShapeMeans
  <2>7. \A d \in r.retire \ DOMAIN job'.changes : live[d] = Nothing
    BY <2>1, <2>2, <2>5, <2>6 DEF Changes
  <2>8. \A d \in DOMAIN job'.changes :
           IF job'.changes[d] = Nowhere THEN d \in r.retire ELSE d \in DOMAIN r.targets
    BY <2>1, <2>4 DEF Changes
  <2> QED BY <2>1, <2>2, <2>7, <2>8 DEF Planned
<1>6. ASSUME NEW d \in Dest, NEW a \in Profile, StartAdopt(d, a) PROVE Planned'
  <2>1. /\ job'.retire = {} /\ job'.targets = [e \in {d} |-> a]
        /\ job'.changes = [e \in {d} |-> a] /\ UNCHANGED <<live, request>>
    BY <1>6 DEF StartAdopt, Begins
  <2>2. a # Nowhere
    BY TargetTypes DEF Target
  <2> QED BY <2>1, <2>2 DEF Planned
<1>7. CASE StartRecover
  <2>. DEFINE gone == {d \in DOMAIN journal.changes : journal.changes[d] = Nowhere}
  <2>1. /\ job'.retire = gone /\ DOMAIN job'.targets = DOMAIN journal.changes \ gone
        /\ job'.changes = journal.changes /\ UNCHANGED <<live, request>>
    BY <1>7 DEF StartRecover
  <2> QED BY <2>1 DEF Planned
<1>8. ASSUME NEW d \in Dest, Cross(d) PROVE Planned'
  <2>1. /\ UNCHANGED <<request, step, job>> /\ step # "free" /\ d \in DOMAIN job.changes
        /\ \A e \in Dest \ {d} : live'[e] = live[e]
    BY <1>8 DEF Cross, TypeOK
  <2> QED BY <2>1, JobType DEF Planned
<1>9. CASE FindGeneration
  <2>1. /\ job'.changes = job.changes /\ job'.targets = job.targets /\ job'.retire = job.retire
        /\ step # "free" /\ UNCHANGED <<live, request>>
    BY <1>9, JobType DEF FindGeneration, Job
  <2> QED BY <2>1 DEF Planned
<1>10. CASE CopyTree \/ Declare \/ SaveFirst \/ WriteJournal \/ SaveGeneration
            \/ SetCurrent \/ SaveLedger \/ WriteRescue
  BY <1>10 DEF CopyTree, Declare, SaveFirst, WriteJournal, SaveGeneration, SetCurrent,
     SaveLedger, WriteRescue, Planned
<1>11. CASE MarkDone \/ DeclareFails \/ Stop
  BY <1>11 DEF MarkDone, DeclareFails, Stop, Releases, Planned
<1>12. ASSUME NEW d \in Dest, NEW to, Tamper(d, to) PROVE Planned'
  BY <1>12 DEF Tamper, Unlocked, Planned
<1> QED
  BY <1>1, <1>2, <1>3, <1>4, <1>5, <1>6, <1>7, <1>8, <1>9, <1>10, <1>11, <1>12
     DEF Next, Works, AskSwitch, AskRollback, vars

\* Every step keeps ricepilot's own links in a row, or in a journal that will
\* make one.
LEMMA RecordedStep ==
    ASSUME TypeOK, TypeOK', InFlight, Planned, Recorded, [Next]_vars
    PROVE  Recorded'
<1>0. Nowhere \notin Profile /\ Nothing.to \notin Profile
  BY TargetTypes DEF Target
<1>1. CASE UNCHANGED <<live, ledger, journal>> /\ step' \notin {"rescue", "finish"}
  BY <1>1 DEF Recorded, Unrecorded, Owns, Crossed
<1>2. CASE UNCHANGED <<live, ledger, journal, step>>
  BY <1>2 DEF Recorded, Unrecorded, Owns, Crossed
<1>3. CASE WriteJournal
  <2>1. UNCHANGED <<live, ledger>> /\ journal = NoJournal
    BY <1>3 DEF WriteJournal, InFlight, Early, records
  <2> QED BY <2>1 DEF Recorded, Unrecorded, Owns
<1>4. ASSUME NEW d \in Dest, Cross(d) PROVE Recorded'
  <2>1. /\ UNCHANGED <<ledger, journal, step, job>> /\ step = "cross"
        /\ journal # NoJournal /\ journal.changes = job.changes
        /\ d \in DOMAIN journal.changes
        /\ \A e \in Dest \ {d} : live'[e] = live[e]
        /\ live'[d].to = journal.changes[d]
    BY <1>4 DEF Cross, TypeOK, records, InFlight, Late, Nothing
  <2> QED BY <2>1 DEF Recorded, Unrecorded, Owns, Crossed
<1>5. CASE SaveLedger
  <2> SUFFICES ASSUME NEW d \in Dest, Unrecorded(d)' PROVE FALSE
    BY DEF Recorded
  <2>1. /\ UNCHANGED <<live, journal, job>> /\ step = "record"
        /\ journal # NoJournal /\ journal.changes = job.changes /\ AllCrossed
        /\ ledger'[d] = IF d \in job.retire THEN NoRow
                        ELSE IF d \in DOMAIN job.targets
                        THEN [to |-> live[d].to, ino |-> live[d].ino]
                        ELSE ledger[d]
    BY <1>5 DEF SaveLedger, InFlight, Late
  <2>2. live[d].by = "ricepilot" /\ live[d].to \in Profile /\ live[d] # Nothing
    BY <2>1, <1>0 DEF Unrecorded
  <2>3. d \notin DOMAIN job.targets \/ d \in job.retire
    BY <2>1 DEF Unrecorded, Owns
  <2>4. CASE d \in job.retire
    <3>1. d \in DOMAIN job.changes
      BY <2>1, <2>2, <2>4 DEF Planned
    <3>2. job.changes[d] = Nowhere
      BY <2>1, <2>4, <3>1 DEF Planned
    <3> QED BY <1>0, <2>1, <2>2, <3>1, <3>2 DEF AllCrossed
  <2>5. CASE d \notin job.retire /\ d \notin DOMAIN job.targets
    <3>1. Unrecorded(d)
      BY <2>1, <2>2, <2>5 DEF Unrecorded, Owns
    <3>2. d \in DOMAIN job.changes /\ live[d].to = job.changes[d]
      BY <2>1, <3>1 DEF Recorded, Crossed
    <3> QED BY <1>0, <2>1, <2>2, <2>5, <3>2 DEF Planned
  <2> QED BY <2>3, <2>4, <2>5
<1>6. CASE WriteRescue
  BY <1>6 DEF WriteRescue, Recorded, Unrecorded, Owns
<1>7. CASE MarkDone
  <2>1. UNCHANGED <<live, ledger>> /\ step \in {"finish", "abandon"}
    BY <1>7 DEF MarkDone, records
  <2> QED BY <2>1 DEF Recorded, Unrecorded, Owns, InFlight
<1>8. ASSUME NEW d \in Dest, NEW to, Tamper(d, to) PROVE Recorded'
  <2>1. /\ UNCHANGED <<ledger, journal, step>> /\ journal = NoJournal
        /\ \A e \in Dest \ {d} : live'[e] = live[e]
        /\ live'[d].by # "ricepilot"
    BY <1>8 DEF Tamper, TypeOK, records, Nothing
  <2> QED BY <2>1 DEF Recorded, Unrecorded, Owns
<1>9. CASE StartRecover
  <2>1. step' \in {"cross", "abandon"} /\ UNCHANGED <<live, ledger, journal>>
    BY <1>9, Zenon DEF StartRecover, records
  <2> QED BY <1>1, <2>1
<1>10. CASE DeclareFails \/ Stop
  BY <1>1, <1>10 DEF DeclareFails, Stop, Releases, records
<1>11. ASSUME NEW p \in Proc, Start(p) PROVE Recorded'
  BY <1>1, <1>11 DEF Start, Begins, records
<1>12. ASSUME NEW d \in Dest, NEW a \in Profile, StartAdopt(d, a) PROVE Recorded'
  BY <1>1, <1>12 DEF StartAdopt, Begins, records
<1>13. CASE CopyTree \/ Declare \/ SaveFirst \/ SaveGeneration \/ FindGeneration \/ SetCurrent
  BY <1>1, <1>13 DEF CopyTree, Declare, SaveFirst, SaveGeneration, FindGeneration,
     SetCurrent, records
<1> QED
  BY <1>2, <1>3, <1>4, <1>5, <1>6, <1>7, <1>8, <1>9, <1>10, <1>11, <1>12, <1>13
     DEF Next, Works, AskSwitch, AskRollback, Asks, ReadLedger, GivesUp, vars, records

\* At rest a link ricepilot made into a profile is ricepilot's in its records,
\* whatever died between the exchange and the ledger (D77).
THEOREM OwnWorkIsRecorded == Spec => []OwnWorkIsOwned
<1>1. Init => Planned /\ Recorded
  BY DEF Init, Planned, Recorded, Unrecorded, Nothing
<1>2. OperationsInv /\ OperationsInv' /\ Planned /\ Recorded /\ [Next]_vars
      => Planned' /\ Recorded'
  BY PlannedStep, RecordedStep DEF OperationsInv
<1>3. Recorded => OwnWorkIsOwned
  BY DEF Recorded, Unrecorded, OwnWorkIsOwned, AtRest
<1> QED BY <1>1, <1>2, <1>3, InvariantHolds, PTL DEF Spec

-----------------------------------------------------------------------------
(***************************************************************************)
(* The current generation is complete, when one command runs at a time: a  *)
(* command that read the ledger before another one wrote it does not know  *)
(* of the other's rows, and leaves them out of its generation.             *)
(***************************************************************************)

Asked(p) == request[p] # NoRequest
Entries == DOMAIN gens[current].entries

Covered ==
    /\ \A p, q \in Proc : Asked(p) /\ Asked(q) => p = q
    /\ \A p \in Proc : Asked(p) =>
          /\ step = "free" /\ journal = NoJournal
          /\ request[p].ready =>
                OwnedDests \subseteq DOMAIN request[p].targets \union request[p].retire
    /\ OwnedDests # {} => current # NoGen /\ OwnedDests \subseteq Entries
    /\ step # "free" =>
          /\ OwnedDests \union DOMAIN job.changes \union DOMAIN job.targets \subseteq job.dests
          /\ job.kind = "recover" => DOMAIN job.targets \subseteq DOMAIN job.changes
    /\ step = "point" => /\ DOMAIN gens[job.new].entries = job.dests
                         /\ touched \intersect job.dests = {}
    /\ step = "record" => /\ DOMAIN job.targets \subseteq Entries
                          /\ touched \intersect DOMAIN job.targets = {}
    /\ journal # NoJournal /\ Saved =>
          /\ DOMAIN journal.changes \subseteq Entries
          /\ touched \intersect DOMAIN journal.changes = {}
    /\ \A d \in touched : ~Owns(d)

coverage == <<live, ledger, gens, current, journal, touched>>

\* Every step keeps the current generation complete.
LEMMA CoveredStep ==
    ASSUME SideBySide = FALSE, OperationsInv, OperationsInv', Truth, Truth', Covered,
           [Next]_vars
    PROVE  Covered'
<1>. USE DEF Asked, Entries
<1>1. CASE UNCHANGED <<coverage, request, step, job>>
  BY <1>1 DEF coverage, Covered, OwnedDests, Owns, Saved
<1>2. ASSUME NEW p \in Proc, NEW k, NEW targets, Asks(p, k, targets) PROVE Covered'
  <2>1. /\ UNCHANGED <<coverage, step, job>> /\ step = "free" /\ journal = NoJournal
        /\ \A q \in Proc : request[q] = NoRequest
        /\ \A q \in Proc \ {p} : request'[q] = request[q]
        /\ request'[p].ready = FALSE
    BY <1>2 DEF Asks, Waiting, Unlocked, coverage, records, OperationsInv, TypeOK
  <2> QED BY <2>1 DEF coverage, Covered, OwnedDests, Owns, Saved
<1>3. ASSUME NEW p \in Proc, ReadLedger(p) PROVE Covered'
  <2>1. /\ request[p] \in Request /\ UNCHANGED <<coverage, step, job>> /\ Asked(p)
        /\ request' = [request EXCEPT ![p] =
              [request[p] EXCEPT !.ready = TRUE,
                                 !.retire = OwnedDests \ DOMAIN request[p].targets]]
    BY <1>3, RequestType DEF ReadLedger, coverage, records, OperationsInv
  <2>2. /\ request'[p].retire = OwnedDests \ DOMAIN request[p].targets
        /\ request'[p].targets = request[p].targets
        /\ \A q \in Proc \ {p} : request'[q] = request[q]
    BY <2>1 DEF Request, OperationsInv, TypeOK
  <2>3. OwnedDests' = OwnedDests /\ (Saved' <=> Saved) /\ Entries' = Entries
    BY <2>1 DEF coverage, OwnedDests, Saved
  <2>4. step = "free" /\ journal = NoJournal /\ \A q \in Proc \ {p} : ~Asked(q)
    BY <2>1 DEF Covered
  <2>5. ASSUME NEW q \in Proc, Asked(q)'
        PROVE  /\ q = p
               /\ OwnedDests' \subseteq DOMAIN request'[q].targets \union request'[q].retire
    BY <2>2, <2>3, <2>4, <2>5
  <2>6. \A d \in touched' : ~Owns(d)'
    BY <2>1 DEF coverage, Covered, Owns
  <2> QED BY <2>1, <2>3, <2>4, <2>5, <2>6 DEF coverage, Covered
<1>4. ASSUME NEW p \in Proc, GivesUp(p) PROVE Covered'
  <2>1. /\ UNCHANGED <<coverage, step, job>>
        /\ \A q \in Proc : request'[q] # NoRequest => request'[q] = request[q]
    BY <1>4 DEF GivesUp, coverage, records, OperationsInv, TypeOK
  <2> QED BY <2>1 DEF coverage, Covered, OwnedDests, Owns, Saved
<1>5. ASSUME NEW p \in Proc, Start(p) PROVE Covered'
  <2>. DEFINE r == request[p]
  <2>1. /\ UNCHANGED coverage /\ Asked(p) /\ r.ready /\ journal = NoJournal
        /\ job'.targets = r.targets /\ job'.changes = Changes(r.targets, r.retire)
        /\ job'.dests = DOMAIN r.targets \union r.retire /\ job'.kind = r.kind
        /\ step' \in {"before", "journal"} /\ request'[p] = NoRequest
        /\ \A q \in Proc \ {p} : request'[q] = request[q]
    BY <1>5 DEF Start, Begins, coverage, records, OperationsInv, TypeOK
  <2>2. r.kind # "recover"
    BY <2>1, RequestType DEF OperationsInv, Request
  <2>3. DOMAIN Changes(r.targets, r.retire) \subseteq DOMAIN r.targets \union r.retire
    BY DEF Changes
  <2>4. \A q \in Proc : request'[q] = NoRequest
    BY <2>1 DEF Covered
  <2> QED BY <2>1, <2>2, <2>3, <2>4 DEF coverage, Covered, OwnedDests, Owns, Saved
<1>6. ASSUME NEW d \in Dest, NEW a \in Profile, StartAdopt(d, a) PROVE Covered'
  <2>1. /\ UNCHANGED <<coverage, request>> /\ journal = NoJournal
        /\ \A q \in Proc : request[q] = NoRequest
        /\ job'.targets = [e \in {d} |-> a] /\ job'.changes = [e \in {d} |-> a]
        /\ job'.dests = OwnedDests \union {d} /\ job'.kind = "adopt" /\ step' = "copy"
    BY <1>6 DEF StartAdopt, Alone, Waiting, Begins, coverage, records
  <2> QED BY <2>1 DEF coverage, Covered, OwnedDests, Owns, Saved
<1>7. CASE StartRecover
  <2>1. /\ UNCHANGED <<coverage, request>> /\ journal # NoJournal
        /\ \A q \in Proc : request[q] = NoRequest
        /\ DOMAIN job'.targets \subseteq DOMAIN journal.changes
        /\ job'.changes = journal.changes /\ job'.kind = "recover"
        /\ job'.dests = DOMAIN journal.changes \union OwnedDests
    BY <1>7 DEF StartRecover, Alone, Waiting, coverage, records
  <2>2. step' \in {"cross", "abandon"}
    BY <1>7, Zenon DEF StartRecover
  <2> QED BY <2>1, <2>2 DEF coverage, Covered, OwnedDests, Owns, Saved
<1>8. CASE CopyTree \/ Declare
  <2>1. /\ UNCHANGED <<coverage, request, job>> /\ step # "free"
        /\ step' \in {"declare", "before", "journal"}
    BY <1>8 DEF CopyTree, Declare, coverage, records
  <2> QED BY <2>1 DEF coverage, Covered, OwnedDests, Owns, Saved
<1>9. CASE SaveFirst
  <2>1. /\ UNCHANGED <<live, ledger, current, journal, touched, request, job>>
        /\ current = NoGen /\ step # "free" /\ step' = "journal" /\ journal = NoJournal
    BY <1>9 DEF SaveFirst, OperationsInv, Numbering, InFlight, Early
  <2> QED BY <2>1 DEF Covered, OwnedDests, Owns
<1>10. CASE WriteJournal
  <2>1. /\ UNCHANGED <<live, ledger, gens, current, touched, request, job>>
        /\ step = "journal" /\ step' = "cross" /\ journal'.id = job.id
        /\ journal'.changes = job.changes
    BY <1>10 DEF WriteJournal, records
  <2>2. ~Saved'
    <3>1. CASE current # NoGen
      <4>1. gens[current].id \in Int /\ gens[current].id < job.id /\ job.id \in Int
        BY <2>1, <3>1, JobType, CurrentIsThere DEF OperationsInv, Numbering, Early
      <4> QED BY <2>1, <4>1 DEF Saved
    <3>2. CASE current = NoGen
      BY <2>1, <3>2 DEF Saved
    <3> QED BY <3>1, <3>2
  <2>3. \A p \in Proc : request[p] = NoRequest
    BY <2>1 DEF Covered
  <2> QED BY <2>1, <2>2, <2>3 DEF Covered, OwnedDests, Owns
<1>11. ASSUME NEW d \in Dest, Cross(d) PROVE Covered'
  <2>1. /\ UNCHANGED <<ledger, gens, current, journal, touched, request, job, step>>
        /\ \A e \in Dest \ {d} : live'[e] = live[e]
        /\ live'[d] = Nothing \/ live'[d].ino # ledger[d].ino
    BY <1>11, FreshType DEF Cross, records, OperationsInv, TypeOK
  <2>2. touched \subseteq Dest /\ Nothing.to \notin Profile
    BY TargetTypes DEF OperationsInv, TypeOK, Target
  <2>3. \A e \in touched : ~Owns(e)'
    BY <2>1, <2>2 DEF Covered, Owns
  <2> QED BY <2>1, <2>3 DEF Covered, OwnedDests, Saved
<1>12. CASE SaveGeneration
  <2>1. /\ UNCHANGED <<live, ledger, current, journal, request, job>>
        /\ step = "cross" /\ step' = "point" /\ journal # NoJournal
        /\ touched' = touched \ job.dests
        /\ gens' = [g \in DOMAIN gens \union {job.new} |->
                      IF g = job.new THEN [id |-> job.id, entries |-> Topology(job.dests)]
                      ELSE gens[g]]
        /\ job.new = NextGen /\ journal.id = job.id
    BY <1>12 DEF SaveGeneration, OperationsInv, InFlight, Late, Numbering
  <2>2. /\ DOMAIN gens'[job.new].entries = job.dests
        /\ current # NoGen => gens'[current] = gens[current]
    <3>1. current # NoGen => current # job.new /\ current \in DOMAIN gens
      BY <2>1, CurrentIsThere DEF NextGen, OperationsInv
    <3> QED BY <2>1, <3>1 DEF Topology
  <2>3. ~Saved
    <3>1. CASE job.kind = "recover"
      <4>1. ~AlreadySaved
        BY <1>12 DEF SaveGeneration
      <4>2. current # NoGen => current > 0
        BY CurrentIsThere DEF OperationsInv
      <4> QED BY <2>1, <3>1, <4>1, <4>2 DEF AlreadySaved, Saved
    <3>2. CASE job.kind # "recover"
      <4>1. current # NoGen =>
               gens[current].id \in Int /\ gens[current].id < job.id /\ job.id \in Int
        BY <2>1, <3>2, JobType, CurrentIsThere DEF OperationsInv, Numbering
      <4> QED BY <2>1, <4>1 DEF Saved
    <3> QED BY <3>1, <3>2
  <2>4. ~Saved'
    BY <2>1, <2>2, <2>3 DEF Saved
  <2> QED BY <2>1, <2>2, <2>4 DEF Covered, OwnedDests, Owns
<1>13. CASE FindGeneration
  <2>1. /\ UNCHANGED <<coverage, request>> /\ step = "cross" /\ step' = "record"
        /\ job'.targets = job.targets /\ job'.changes = job.changes
        /\ job'.dests = job.dests /\ job'.kind = job.kind /\ job.kind = "recover"
        /\ journal # NoJournal /\ journal.changes = job.changes
        /\ Saved
    BY <1>13, JobType DEF FindGeneration, Job, AlreadySaved, Saved, coverage, records,
       OperationsInv, InFlight, Late, NoGen
  <2> QED BY <2>1 DEF coverage, Covered, OwnedDests, Owns, Saved
<1>14. CASE SetCurrent
  <2>1. /\ UNCHANGED <<live, ledger, gens, journal, touched, request, job>>
        /\ step = "point" /\ step' = "record" /\ current' = job.new
        /\ journal # NoJournal /\ journal.changes = job.changes
    BY <1>14 DEF SetCurrent, OperationsInv, InFlight, Late
  <2>2. job.new # NoGen
    BY <2>1, JobType DEF OperationsInv, NoGen
  <2> QED BY <2>1, <2>2 DEF Covered, OwnedDests, Owns
<1>15. CASE SaveLedger
  <2>1. /\ UNCHANGED <<live, gens, current, journal, touched, request, job>>
        /\ step = "record" /\ step' = "rescue" /\ current # NoGen
        /\ ledger' = [d \in Dest |->
                        IF d \in job.retire THEN NoRow
                        ELSE IF d \in DOMAIN job.targets
                        THEN [to |-> live[d].to, ino |-> live[d].ino]
                        ELSE ledger[d]]
    BY <1>15 DEF SaveLedger, OperationsInv, Numbering
  <2>2. OwnedDests' \subseteq OwnedDests \union DOMAIN job.targets
    BY <2>1 DEF OwnedDests
  <2>3. \A d \in touched : ~Owns(d)'
    <3> SUFFICES ASSUME NEW d \in touched, Owns(d)' PROVE FALSE
      BY <2>1
    <3>1. d \in Dest /\ d \notin DOMAIN job.targets /\ NoRow.to \notin Profile
      BY <2>1, TargetTypes DEF Covered, OperationsInv, TypeOK, Target
    <3> QED BY <2>1, <3>1 DEF Covered, Owns
  <2> QED BY <2>1, <2>2, <2>3 DEF Covered, Saved
<1>16. CASE WriteRescue
  <2>1. UNCHANGED <<coverage, request, job>> /\ step # "free" /\ step' = "finish"
    BY <1>16 DEF WriteRescue, coverage
  <2> QED BY <2>1 DEF coverage, Covered, OwnedDests, Owns, Saved
<1>17. CASE MarkDone \/ DeclareFails \/ Stop
  <2>1. /\ UNCHANGED <<live, ledger, gens, current, touched, request>>
        /\ step # "free" /\ step' = "free" /\ journal' \in {journal, NoJournal}
    BY <1>17 DEF MarkDone, DeclareFails, Stop, Releases, Unlocked, records
  <2> QED BY <2>1 DEF Covered, OwnedDests, Owns, Saved
<1>18. ASSUME NEW d \in Dest, NEW to, Tamper(d, to) PROVE Covered'
  <2>1. /\ UNCHANGED <<ledger, gens, current, journal, request, step, job>>
        /\ journal = NoJournal /\ step = "free" /\ touched' = touched \union {d}
        /\ \A e \in Dest \ {d} : live'[e] = live[e]
        /\ live'[d] = Nothing \/ live'[d].ino # ledger[d].ino
    BY <1>18, FreshType DEF Tamper, Unlocked, records, OperationsInv, TypeOK
  <2>2. touched \subseteq Dest /\ Nothing.to \notin Profile
    BY TargetTypes DEF OperationsInv, TypeOK, Target
  <2>3. \A e \in touched' : ~Owns(e)'
    BY <2>1, <2>2 DEF Covered, Owns
  <2> QED BY <2>1, <2>3 DEF Covered, OwnedDests
<1> QED
  BY <1>1, <1>2, <1>3, <1>4, <1>5, <1>6, <1>7, <1>8, <1>9, <1>10, <1>11, <1>12, <1>13,
     <1>14, <1>15, <1>16, <1>17, <1>18
     DEF Next, Works, AskSwitch, AskRollback, vars, records, coverage

\* "A generation is the complete link topology of every managed destination"
\* (D35), when one command runs at a time.
THEOREM GenerationIsComplete ==
    ASSUME SideBySide = FALSE
    PROVE  Spec => []CurrentIsComplete
<1>1. Init => Covered /\ Truth
  BY DEF Init, Covered, Truth, OwnedDests, Owns, Asked
<1>2. OperationsInv /\ OperationsInv' /\ Truth /\ Covered /\ [Next]_vars => Truth' /\ Covered'
  BY TruthStep, CoveredStep
<1>3. ASSUME OperationsInv, Truth, Covered, AtRest, NEW d \in Dest, Owns(d)
      PROVE  /\ current # NoGen
             /\ d \in DOMAIN Links(current)
             /\ Links(current)[d] = live[d].to
  <2>1. d \in OwnedDests /\ live[d].to \in Target /\ live[d].to # Nowhere
    BY <1>3, TargetTypes DEF OwnedDests, Owns, NoRow, Target
  <2>2. current # NoGen /\ d \in DOMAIN gens[current].entries /\ d \notin touched
    BY <1>3, <2>1 DEF Covered, Entries
  <2>3. gens[current].entries[d] = Topology({d})[d]
    BY <1>3, <2>2 DEF Truth, AtRest, TrueOf
  <2>4. gens[current].entries[d] = live[d].to
    BY <2>1, <2>3 DEF Topology
  <2> QED BY <2>1, <2>2, <2>4 DEF Links
<1>4. OperationsInv /\ Truth /\ Covered => CurrentIsComplete
  BY <1>3 DEF CurrentIsComplete
<1> QED BY <1>1, <1>2, <1>4, InvariantHolds, PTL DEF Spec
=============================================================================
