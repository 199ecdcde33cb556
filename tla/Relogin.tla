------------------------------- MODULE Relogin -------------------------------
(***************************************************************************)
(* `--relogin`: after a switch that ran to its end, ricepilot looks at six *)
(* things, asks whether to log out, looks at all six again after a yes and *)
(* runs `uwsm stop`, holding the process lock all the while.  The lock is  *)
(* a flock on the inode that was at a path, so it is modelled with the     *)
(* file, the path and the inode apart.                                     *)
(*                                                                         *)
(* Source: src/src/cli/relogin.rs, src/src/ops/lock.rs,                    *)
(* src/src/cli/confirm.rs.                                                 *)
(*                                                                         *)
(* The switch before it is Operations'; of it this module keeps the order  *)
(* in which it changes what relogin looks at.                              *)
(***************************************************************************)
EXTENDS Integers, FiniteSets, Sequences, SequencesExt

CONSTANTS
    Proc,           \* ricepilots started with --relogin
    Dest,           \* destinations
    Source,         \* where a link into a profile leads
    Want,           \* per process and destination: the source, or "nothing"
    Environment,    \* environments a ricepilot may be started in
    MaxFiles,       \* bound: inodes of lock files
    MaxChanges      \* bound: changes made by anybody but ricepilot, and reads
                    \* that fail

ASSUME DestAssumption == IsFiniteSet(Dest)
ASSUME WantAssumption == Want \in [Proc -> [Dest -> Source \union {"nothing"}]]
ASSUME BoundsAssumption ==
    MaxFiles \in Nat \ {0} /\ MaxChanges \in Nat
\* The words for what is no link into a profile, and for what is no
\* destination, are nothing else's.
ASSUME WordsAssumption ==
    /\ Source \intersect {"elsewhere", "nothing", "other", "unreadable"} = {}
    /\ Dest \intersect {"current", "journal", "retired", "rescue", "rows",
                        "lock", "socket", "units"} = {}

\* What is at the lock's path: an inode of a regular file of the user's, or
Absent == 0
Symlink == -1       \* a link to another file of the user's, which is Another
Fifo == -2          \* anything that is not a file
Another == -3

Nobody == "nobody"

\* What is at a destination: a link with its inode (0 when ricepilot did not
\* make it), nothing, or another object.  A ledger row has the same shape.
Generations == Nat
Thing == [to : Source \union {"elsewhere", "nothing", "other", "unreadable"}, id : Generations]
Is(to) == [to |-> to, id |-> 0]

\* rescue.sh: the generation it is the script of, or
Missing == -1
Edited == -2
Unreadable == -3

\* What preflight reads, in gather's order.
Order == <<"current", "journal", "retired", "rescue", "rows">>
            \o SetToSeq(Dest) \o <<"lock", "socket", "units">>
Fact == {Order[i] : i \in DOMAIN Order}

VARIABLES
    at,         \* what is at the lock's path
    files,      \* inodes of lock files made so far
    fd,         \* per process, what it has open as the lock
    pc,         \* what each process does next
    env,        \* the environment of each
    inflight,   \* whose journal is at journal/current.toml
    retired,    \* generations whose journal is a done-<id>.toml
    current,    \* generations/current
    script,     \* rescue.sh
    link,       \* what is at each destination
    row,        \* the ledger's row of each
    socket,     \* what is at WAYLAND_DISPLAY's name
    units,      \* how many compositor units of uwsm run
    gen,        \* the generation each process recorded
    next,       \* how far each is in Order
    seen,       \* what each read
    answered,   \* processes that were told yes
    since,      \* history: facts true at some moment after the answer
    moved,      \* history: somebody else changed what is at the lock's path
    changes

lockfile == <<at, files, moved>>
records == <<inflight, retired, current, script, link, row>>
session == <<socket, units>>
memory == <<fd, gen, next, seen, answered>>
vars == <<lockfile, pc, env, records, session, memory, since, changes>>

Unread == [current |-> Unreadable, journal |-> "unreadable", done |-> "unreadable",
           script |-> Unreadable, rows |-> [d \in Dest |-> Is("unreadable")],
           found |-> [d \in Dest |-> Is("unreadable")], lock |-> "unreadable",
           socket |-> "unreadable", units |-> Unreadable]

Answers == {"yes", "no", "unreadable"}

Scripts == {Missing, Edited} \union Generations
Sockets == {"socket", "absent", "other"}

\* What a process can have read.
Sight == [current : Generations \union {Unreadable}, journal : Answers, done : Answers,
          script : Scripts \union {Unreadable}, rows : [Dest -> Thing], found : [Dest -> Thing],
          lock : Answers, socket : Sockets \union {"unreadable"}, units : 0..2 \union {Unreadable}]

TypeOK ==
    /\ at \in {Absent, Symlink, Fifo} \union 1..MaxFiles
    /\ files \in 0..MaxFiles
    /\ fd \in [Proc -> {Absent, Another, Fifo} \union 1..MaxFiles]
    /\ pc \in [Proc -> {"start", "opening", "locking", "deciding", "crossing", "pointing",
                        "settling", "retiring", "reading", "judging", "asking", "stopping",
                        "gone"}]
    /\ env \in [Proc -> Environment]
    /\ inflight \in Proc \union {Nobody}
    /\ retired \subseteq Generations
    /\ current \in Generations
    /\ script \in Scripts
    /\ link \in [Dest -> Thing]
    /\ row \in [Dest -> Thing]
    /\ socket \in Sockets
    /\ units \in 0..2
    /\ gen \in [Proc -> Generations]
    /\ next \in [Proc -> 0..Len(Order)]
    /\ seen \in [Proc -> Sight]
    /\ answered \subseteq Proc
    /\ since \in [Proc -> SUBSET Fact]
    /\ moved \in BOOLEAN
    /\ changes \in 0..MaxChanges

\* Generation 1 is current and settled, nothing runs, no lock file yet or the
\* one the last ricepilot left.
Init ==
    /\ files \in {0, 1} /\ at = files
    /\ fd = [p \in Proc |-> Absent]
    /\ pc = [p \in Proc |-> "start"]
    /\ env \in [Proc -> Environment]
    /\ inflight = Nobody
    /\ retired = {1}
    /\ current = 1
    /\ script = 0
    /\ \E s \in [Dest -> Source] :
        /\ link = [d \in Dest |-> [to |-> s[d], id |-> 1]]
        /\ row = link
    /\ socket = "socket"
    /\ units = 1
    /\ gen = [p \in Proc |-> 0]
    /\ next = [p \in Proc |-> 0]
    /\ seen = [p \in Proc |-> Unread]
    /\ answered = {}
    /\ since = [p \in Proc |-> {}]
    /\ moved = FALSE
    /\ changes = 0

-----------------------------------------------------------------------------
(***************************************************************************)
(* The lock                                                                *)
(***************************************************************************)

Holding(p) == pc[p] \notin {"start", "opening", "locking", "gone"}

To(p, step) == pc' = [pc EXCEPT ![p] = step]
Continues(p, step) == To(p, step) /\ UNCHANGED memory

\* A process that goes closes its descriptor, which lets the lock go.
Goes(p) ==
    /\ To(p, "gone")
    /\ fd' = [fd EXCEPT ![p] = Absent]
    /\ gen' = [gen EXCEPT ![p] = 0]
    /\ next' = [next EXCEPT ![p] = 0]
    /\ seen' = [seen EXCEPT ![p] = Unread]
    /\ answered' = answered \ {p}

\* The first look of acquire: what is there and is not a file of the user's
\* is refused.
Look(p) ==
    /\ pc[p] = "start"
    /\ IF at \in {Symlink, Fifo}
       THEN Goes(p)
       ELSE Continues(p, "opening")
    /\ UNCHANGED <<lockfile, env, records, session, changes>>

Opens(p, file) ==
    /\ fd' = [fd EXCEPT ![p] = file]
    /\ To(p, "locking")
    /\ UNCHANGED <<gen, next, seen, answered>>

Creates ==
    /\ at = Absent /\ files < MaxFiles
    /\ files' = files + 1 /\ at' = files + 1

\* openat(O_CREAT | O_NOFOLLOW | O_NONBLOCK): a symlink put there since the
\* look is not followed.
Open(p) ==
    /\ pc[p] = "opening"
    /\ \/ Creates /\ Opens(p, files + 1)
       \/ at = Symlink /\ Goes(p) /\ UNCHANGED <<at, files>>
       \/ at \notin {Absent, Symlink} /\ Opens(p, at) /\ UNCHANGED <<at, files>>
    /\ UNCHANGED <<moved, env, records, session, changes>>

Taken(p) == \E q \in Proc \ {p} : Holding(q) /\ fd[q] = fd[p]

\* Mutant: flock that waits.
LockWaiting(p) ==
    /\ pc[p] = "locking"
    /\ \/ fd[p] = Fifo /\ Goes(p)
       \/ fd[p] # Fifo /\ ~Taken(p) /\ Continues(p, "deciding")
    /\ UNCHANGED <<lockfile, env, records, session, changes>>

\* Mutant: a shared flock.
LockShared(p) ==
    /\ pc[p] = "locking"
    /\ IF fd[p] = Fifo THEN Goes(p) ELSE Continues(p, "deciding")
    /\ UNCHANGED <<lockfile, env, records, session, changes>>

\* The fstat of the descriptor, then flock(LOCK_EX | LOCK_NB).
Lock(p) ==
    /\ pc[p] = "locking"
    /\ IF fd[p] = Fifo \/ Taken(p) THEN Goes(p) ELSE Continues(p, "deciding")
    /\ UNCHANGED <<lockfile, env, records, session, changes>>

\* Mutant: is_at_its_path only looks whether a file is there.
SomeFileThere(p) == at \in 1..MaxFiles

\* Lock::is_at_its_path: the path names the inode the lock is held on.
IsAtItsPath(p) == at = fd[p]

-----------------------------------------------------------------------------
(***************************************************************************)
(* The switch                                                              *)
(***************************************************************************)

\* A journal in flight refuses the switch; a decline, a dry run and nothing
\* to do end it without an offer.
Begin(p) ==
    /\ pc[p] = "deciding"
    /\ \/ /\ inflight = Nobody
          /\ inflight' = p /\ Continues(p, "crossing")
       \/ Goes(p) /\ UNCHANGED inflight
    /\ UNCHANGED <<lockfile, env, retired, current, script, link, row, session, changes>>

Cross(p) ==
    /\ pc[p] = "crossing"
    /\ gen' = [gen EXCEPT ![p] = current + 1]
    /\ link' = [d \in Dest |->
                    IF Want[p][d] = "nothing" THEN Is("nothing")
                    ELSE [to |-> Want[p][d], id |-> current + 1]]
    /\ To(p, "pointing")
    /\ UNCHANGED <<lockfile, env, inflight, retired, current, script, row, session,
                   fd, next, seen, answered, changes>>

Point(p) ==
    /\ pc[p] = "pointing"
    /\ current' = gen[p]
    /\ Continues(p, "settling")
    /\ UNCHANGED <<lockfile, env, inflight, retired, script, link, row, session, changes>>

\* Ledger::record, which fails on what is no link, forget, rescue::regenerate.
Settle(p) ==
    /\ pc[p] = "settling"
    /\ IF \A d \in Dest : Want[p][d] # "nothing" => link[d].to \in Source \union {"elsewhere"}
       THEN /\ row' = [d \in Dest |-> IF Want[p][d] = "nothing" THEN Is("nothing") ELSE link[d]]
            /\ script' = gen[p] - 1
            /\ Continues(p, "retiring")
       ELSE Goes(p) /\ UNCHANGED <<row, script>>
    /\ UNCHANGED <<lockfile, env, inflight, retired, current, link, session, changes>>

\* mark_done, and Ended::Completed, which owns the lock.
Retire(p) ==
    /\ pc[p] = "retiring"
    /\ inflight' = Nobody
    /\ retired' = retired \union {gen[p]}
    /\ next' = [next EXCEPT ![p] = 1]
    /\ To(p, "reading")
    /\ UNCHANGED <<lockfile, env, current, script, link, row, session, fd, gen, seen,
                   answered, changes>>

-----------------------------------------------------------------------------
(***************************************************************************)
(* The pre-flight                                                          *)
(***************************************************************************)

YesNo(b) == IF b THEN "yes" ELSE "no"

\* What a read of fact f by p adds to what it has seen.
ReadOf(p, f) ==
    CASE f = "current" -> [seen[p] EXCEPT !.current = current]
      [] f = "journal" -> [seen[p] EXCEPT !.journal = YesNo(inflight # Nobody)]
      [] f = "retired" -> [seen[p] EXCEPT !.done = YesNo(gen[p] \in retired)]
      [] f = "rescue" -> [seen[p] EXCEPT !.script = script]
      [] f = "rows" -> [seen[p] EXCEPT !.rows = row]
      [] f \in Dest -> [seen[p] EXCEPT !.found[f] = link[f]]
      [] f = "lock" -> [seen[p] EXCEPT !.lock = YesNo(IsAtItsPath(p))]
      [] f = "socket" -> [seen[p] EXCEPT !.socket = socket]
      [] f = "units" -> [seen[p] EXCEPT !.units = units]

\* gather reads one fact after the other; a read that fails is the fact that
\* it failed, and the next one is read all the same.
Read(p) ==
    /\ pc[p] = "reading"
    /\ \/ seen' = [seen EXCEPT ![p] = ReadOf(p, Order[next[p]])] /\ UNCHANGED changes
       \/ changes < MaxChanges /\ changes' = changes + 1 /\ UNCHANGED seen
    /\ IF next[p] < Len(Order)
       THEN next' = [next EXCEPT ![p] = @ + 1] /\ UNCHANGED pc
       ELSE next' = [next EXCEPT ![p] = 0] /\ To(p, "judging")
    /\ UNCHANGED <<lockfile, env, records, session, fd, gen, answered>>

DecideSwitch(p) == seen[p].current = gen[p]
DecideJournal(p) == seen[p].journal = "no" /\ seen[p].done = "yes"
DecideRescue(p) == seen[p].script = gen[p] - 1

\* The planned link, and the one the ledger has; or nothing, and no row.
DecideDests(p) ==
    \A d \in Dest : seen[p].found[d].to = Want[p][d] /\ seen[p].rows[d] = seen[p].found[d]

DecideLock(p) == seen[p].lock = "yes"

\* terminal_of_stat, from the tty_nr of /proc/<pid>/stat.
Terminal(nr) ==
    IF nr = 0 THEN "none"
    ELSE IF (nr \div 256) % 4096 \in 136..143 THEN "pty" ELSE "other"

DecideSession(p) ==
    /\ env[p].runtime = "usable"
    /\ env[p].wayland = "plain name"
    /\ env[p].bus
    /\ ~env[p].remote
    /\ ~env[p].multiplexer
    /\ Terminal(env[p].tty) \in {"none", "pty"}
    /\ seen[p].socket = "socket"
    /\ seen[p].units = 1

Decide(p) ==
    /\ DecideSwitch(p)
    /\ DecideJournal(p)
    /\ DecideRescue(p)
    /\ DecideDests(p)
    /\ DecideLock(p)
    /\ DecideSession(p)

\* preflight: every check passes, or nothing is asked and nothing is run.
Judge(p) ==
    /\ pc[p] = "judging"
    /\ IF Decide(p)
       THEN /\ To(p, IF p \in answered THEN "stopping" ELSE "asking")
            /\ seen' = [seen EXCEPT ![p] = Unread]
            /\ UNCHANGED <<fd, gen, next, answered>>
       ELSE Goes(p)
    /\ UNCHANGED <<lockfile, env, records, session, changes>>

\* Mutant: a yes goes straight to `uwsm stop`.
YesIsEnough(p) ==
    /\ answered' = answered \union {p}
    /\ To(p, "stopping")
    /\ UNCHANGED <<fd, gen, next, seen>>

\* A yes has everything read again.
Yes(p) ==
    /\ answered' = answered \union {p}
    /\ next' = [next EXCEPT ![p] = 1]
    /\ To(p, "reading")
    /\ UNCHANGED <<fd, gen, seen>>

\* confirm::affirmed; no answer, and anything that is not a yes, is a no.
Answer(p) ==
    /\ pc[p] = "asking"
    /\ Yes(p) \/ Goes(p)
    /\ UNCHANGED <<lockfile, env, records, session, changes>>

\* `uwsm stop` ends the session, or fails or times out; the lock is dropped
\* after it.
UwsmStop(p) ==
    /\ pc[p] = "stopping"
    /\ \/ socket' = "absent" /\ units' = 0
       \/ UNCHANGED session
    /\ Goes(p)
    /\ UNCHANGED <<lockfile, env, records, changes>>

-----------------------------------------------------------------------------
(***************************************************************************)
(* Everybody else                                                          *)
(***************************************************************************)

\* The file at the lock's path is taken away, replaced by something else or
\* by a new file.  One that was taken away is not put back.
MoveLockFile ==
    /\ moved' = TRUE
    /\ \/ at' \in {Absent, Symlink, Fifo} \ {at} /\ UNCHANGED files
       \/ files < MaxFiles /\ files' = files + 1 /\ at' = files + 1

\* An installer, an editor or the user, at any moment.
Change ==
    /\ changes < MaxChanges /\ changes' = changes + 1
    /\ \/ MoveLockFile /\ UNCHANGED <<records, session>>
       \/ /\ \E d \in Dest, to \in Source \union {"nothing", "other"} :
                link' = [link EXCEPT ![d] = Is(to)]
          /\ UNCHANGED <<lockfile, inflight, retired, current, script, row, session>>
       \/ /\ script' \in {Missing, Edited}
          /\ UNCHANGED <<lockfile, inflight, retired, current, link, row, session>>
       \/ /\ socket' \in {"absent", "other"} /\ UNCHANGED <<lockfile, records, units>>
       \/ /\ units' \in {0, 2} /\ UNCHANGED <<lockfile, records, socket>>
    /\ UNCHANGED <<pc, env, memory>>

\* A ricepilot is killed; its journal stays, its lock goes.
Die(p) ==
    /\ pc[p] # "gone"
    /\ Goes(p)
    /\ UNCHANGED <<lockfile, env, records, session, changes>>

-----------------------------------------------------------------------------

\* What is so now, fact by fact, for the switch p recorded.  A link is set
\* against its row; while another ricepilot may write rows, the lock's path
\* having been moved, against the row as p read it.
True(p, f) ==
    CASE f = "current" -> current = gen[p]
      [] f = "journal" -> inflight = Nobody
      [] f = "retired" -> gen[p] \in retired
      [] f = "rescue" -> script = gen[p] - 1
      [] f = "rows" -> \A d \in Dest : row[d].to = Want[p][d]
      [] f \in Dest -> /\ link[f].to = Want[p][f]
                       /\ link[f] = IF moved THEN seen[p].rows[f] ELSE row[f]
      [] f = "lock" -> at = fd[p]
      [] f = "socket" -> socket = "socket"
      [] f = "units" -> units = 1

\* History: what was so at some moment after the answer.
Watch == since' = [p \in Proc |->
                    IF p \in answered' /\ pc'[p] # "gone"
                    THEN since[p] \union {f \in Fact : True(p, f)'} ELSE {}]

Step(p) ==
    \/ Look(p) \/ Open(p) \/ Lock(p)
    \/ Begin(p) \/ Cross(p) \/ Point(p) \/ Settle(p) \/ Retire(p)
    \/ Read(p) \/ Judge(p) \/ UwsmStop(p)

Next ==
    /\ \/ \E p \in Proc : Step(p) \/ Answer(p) \/ Die(p)
       \/ Change
    /\ Watch

\* Every process goes on by itself, except at the question.
Spec == Init /\ [][Next]_vars /\ \A p \in Proc : WF_vars(Step(p) /\ Watch)

-----------------------------------------------------------------------------
\* `uwsm stop` runs on nothing that was only so before the answer: each of
\* the facts was true at some moment between the yes and the logout.
StopsOnWhatWasTrue ==
    \A p \in Proc : pc[p] = "stopping" => since[p] = Fact

\* While nobody touches the lock's path, the session ends only on the settled
\* state of this switch: no journal is in flight, no other switch has moved
\* the current generation or the rows.
SettledWhenStopping ==
    \A p \in Proc : pc[p] = "stopping" /\ ~moved =>
        /\ inflight = Nobody
        /\ current = gen[p]
        /\ \A d \in Dest : row[d].to = Want[p][d]

\* A process that finds its lock at its path knows of every other holder that
\* its lock file is an older one: nobody locked a file that replaced its own.
OthersHoldOlderFiles ==
    [][\A p \in Proc : seen'[p].lock = "yes" /\ seen[p].lock # "yes" =>
        \A q \in Proc \ {p} : Holding(q) => fd[q] < fd[p]]_vars

\* A ricepilot waits for the answer to its question and for nothing else: not
\* for another ricepilot's lock, however long that one's question stays open.
OnlyTheQuestionWaits ==
    \A p \in Proc : []<>(pc[p] \in {"asking", "gone"})
=============================================================================
