--------------------------------- MODULE Exec ---------------------------------
(***************************************************************************)
(* ops::exec::run: one allowlisted child, started in a process group of    *)
(* its own with an environment of its own, its stdin fed and its output    *)
(* drained by threads, watched until it exits or its time is up.  The      *)
(* child does what it likes: it reads or not, writes, hangs, starts a      *)
(* helper that may leave the group and keep the pipes open.                *)
(*                                                                         *)
(* Source: src/src/ops/exec.rs.                                            *)
(*                                                                         *)
(* Bytes are counted in units: a pipe holds PipeSize of them, OUTPUT_CAP   *)
(* is Cap of them.  Time is counted in ticks.                              *)
(***************************************************************************)
EXTENDS Integers, FiniteSets

CONSTANTS
    Calls,          \* the calls asked for, of Allowed
    Input,          \* units of stdin of a call that has any
    PipeSize, Cap,  \* units a pipe holds, and units of a stream that are kept
    Limit, Grace,   \* ticks until a child is killed, and until a pipe is given up
    MaxWritten      \* bound: units a child and its helper write to a stream

Allowed == {"sh -n", "pacman -Q", "hyprctl", "Hyprland --verify-config", "uwsm stop", "git status"}

ASSUME CallsAssumption == Calls \subseteq Allowed
ASSUME SizeAssumption ==
    /\ Input \in Nat /\ PipeSize \in Nat \ {0} /\ Cap \in Nat
    /\ Limit \in Nat /\ Grace \in Nat \ {0} /\ MaxWritten \in Nat

VARIABLES
    call,           \* what is asked for
    sandbox, live,  \* RICEPILOT_SANDBOX is set, RICEPILOT_LIVE_TESTS is 1
    phase,          \* what run does next
    clock,          \* ticks since the child was started, or since it is drained
    child,          \* "none", "running", "zombie", "reaped"
    status,         \* how it ended
    helper,         \* what it started: "none", "group", "away", "gone"
    pid,            \* whose the child's process number is
    struck,         \* history: a stranger was killed
    tofeed,         \* units of stdin still to be written by the feeder
    pipe,           \* units in each pipe
    written,        \* units written to each stream
    drained,        \* per stream, what its reader thread has
    got,            \* per stream, what run has taken of it
    result

process == <<child, status, helper, pid, struck>>
asked == <<call, sandbox, live>>
streams == <<pipe, written>>
vars == <<asked, phase, clock, process, tofeed, streams, drained, got, result>>

Out == {"out", "err"}
Pending == [is |-> "pending"]
Failure(what) == [is |-> what]
Answer(code, kept, truncated) ==
    [is |-> "answer", code |-> code, kept |-> kept, truncated |-> truncated]

TypeOK ==
    /\ call \in Calls /\ sandbox \in BOOLEAN /\ live \in BOOLEAN
    /\ phase \in {"asked", "watching", "killing", "reaping", "collecting", "done"}
    /\ clock \in 0..(IF Limit > Grace THEN Limit ELSE Grace)
    /\ child \in {"none", "running", "zombie", "reaped"}
    /\ status \in {"none", "0", "1", "signal"}
    /\ helper \in {"none", "group", "away", "gone"}
    /\ pid \in {"child", "stranger"} /\ struck \in BOOLEAN
    /\ tofeed \in 0..Input
    /\ pipe \in [Out \union {"in"} -> 0..PipeSize]
    /\ written \in [Out -> 0..MaxWritten]
    /\ drained \in [Out -> [kept : 0..Cap, truncated : BOOLEAN, ended : BOOLEAN]]
    /\ got \in [Out -> [kept : 0..Cap, truncated : BOOLEAN] \union {Pending}]
    /\ result.is \in {"pending", "refused", "not started", "timed out", "answer"}

Init ==
    /\ call \in Calls /\ sandbox \in BOOLEAN /\ live \in BOOLEAN
    /\ phase = "asked"
    /\ clock = 0
    /\ child = "none" /\ status = "none" /\ helper = "none"
    /\ pid = "child" /\ struck = FALSE
    /\ tofeed = 0
    /\ pipe = [s \in Out \union {"in"} |-> 0]
    /\ written = [s \in Out |-> 0]
    /\ drained = [s \in Out |-> [kept |-> 0, truncated |-> FALSE, ended |-> FALSE]]
    /\ got = [s \in Out |-> Pending]
    /\ result = Pending

-----------------------------------------------------------------------------
(***************************************************************************)
(* What a call is                                                          *)
(***************************************************************************)

\* Allowed::reaches_the_session.
Reaches(c) == c \in {"hyprctl", "Hyprland --verify-config", "uwsm stop"}

HasStdin(c) == c = "sh -n"

\* sandbox_refuses.
SandboxRefuses(c) == sandbox /\ Reaches(c) /\ (c = "uwsm stop" \/ ~live)

-----------------------------------------------------------------------------
(***************************************************************************)
(* run and supervise                                                       *)
(***************************************************************************)

Ends(with) ==
    /\ phase' = "done"
    /\ result' = with

\* Refused by the sandbox check or by the argument check, not installed, or
\* not started: nothing runs.
GivesUp ==
    /\ phase = "asked"
    /\ Ends(Failure(IF SandboxRefuses(call) THEN "refused" ELSE "not started"))
    /\ UNCHANGED <<asked, clock, process, tofeed, streams, drained, got>>

Start ==
    /\ phase = "asked"
    /\ ~SandboxRefuses(call)
    /\ child' = "running"
    /\ tofeed' = IF HasStdin(call) THEN Input ELSE 0
    /\ phase' = "watching"
    /\ UNCHANGED <<asked, clock, status, helper, pid, struck, streams, drained, got, result>>

\* The thread that writes stdin.  A pipe nobody reads any more ends it.
Feed ==
    /\ tofeed > 0
    /\ IF child = "running"
       THEN pipe["in"] < PipeSize /\ tofeed' = tofeed - 1 /\ pipe' = [pipe EXCEPT !["in"] = @ + 1]
       ELSE tofeed' = 0 /\ UNCHANGED pipe
    /\ UNCHANGED <<asked, phase, clock, process, written, drained, got, result>>

\* Whoever has the write end of a stream open.
Open == child = "running" \/ helper \in {"group", "away"}

\* drain: a thread per stream reads to the end, keeps up to the cap, and
\* discards the rest.
Drain(s) ==
    /\ ~drained[s].ended /\ phase # "asked"
    /\ \/ /\ pipe[s] > 0
          /\ pipe' = [pipe EXCEPT ![s] = @ - 1]
          /\ drained' = [drained EXCEPT
                ![s].kept = IF @ < Cap THEN @ + 1 ELSE @,
                ![s].truncated = @ \/ drained[s].kept = Cap]
       \/ /\ pipe[s] = 0 /\ ~Open
          /\ drained' = [drained EXCEPT ![s].ended = TRUE]
          /\ UNCHANGED pipe
    /\ UNCHANGED <<asked, phase, clock, process, tofeed, written, got, result>>

\* Mutant: stdin is written before the child is watched.
WatchingWhenFed == phase = "watching" /\ tofeed = 0

Watching == phase = "watching"

\* try_wait finds it has exited, before or after its time.
Exited ==
    /\ Watching
    /\ child = "zombie"
    /\ child' = "reaped"
    /\ phase' = "collecting"
    /\ clock' = 0
    /\ UNCHANGED <<asked, status, helper, pid, struck, tofeed, streams, drained, got, result>>

\* try_wait finds it running after its time.
Overrun ==
    /\ Watching
    /\ child = "running" /\ clock >= Limit
    /\ phase' = "killing"
    /\ UNCHANGED <<asked, clock, process, tofeed, streams, drained, got, result>>

\* Mutant: only the child is killed.
KillLeader ==
    /\ phase = "killing"
    /\ child' = IF child = "running" THEN "zombie" ELSE child
    /\ status' = IF child = "running" THEN "signal" ELSE status
    /\ phase' = "reaping"
    /\ UNCHANGED <<asked, clock, helper, pid, struck, tofeed, streams, drained, got, result>>

\* kill_process_group by the child's number, then kill.  The child may have
\* exited since it was looked at.
Kill ==
    /\ phase = "killing"
    /\ struck' = (struck \/ pid = "stranger")
    /\ child' = IF child = "running" THEN "zombie" ELSE child
    /\ status' = IF child = "running" THEN "signal" ELSE status
    /\ helper' = IF helper = "group" THEN "gone" ELSE helper
    /\ phase' = "reaping"
    /\ UNCHANGED <<asked, clock, pid, tofeed, streams, drained, got, result>>

\* wait, and the error that says the child was killed.
Reap ==
    /\ phase = "reaping"
    /\ child' = "reaped"
    /\ Ends(Failure("timed out"))
    /\ UNCHANGED <<asked, clock, status, helper, pid, struck, tofeed, streams, drained, got>>

\* recv_timeout ran out.
GivenUp == clock >= Grace

Takes(s) == [kept |-> drained[s].kept, truncated |-> drained[s].truncated]

\* Mutant: what was read until then is taken for the answer.
CollectedSoFar(s) ==
    IF drained[s].ended \/ GivenUp THEN {Takes(s)} ELSE {}

\* What the thread sent, or nothing and truncated when somebody still holds
\* the stream.
Collected(s) ==
    IF drained[s].ended THEN {Takes(s)}
    ELSE IF GivenUp THEN {[kept |-> 0, truncated |-> TRUE]}
    ELSE {}

\* collect, for stdout and then for stderr.
Collect(s) ==
    /\ phase = "collecting"
    /\ got[s] = Pending /\ (s = "err" => got["out"] # Pending)
    /\ \E what \in Collected(s) : got' = [got EXCEPT ![s] = what]
    /\ clock' = 0
    /\ UNCHANGED <<asked, phase, process, tofeed, streams, drained, result>>

\* Ran.
Report ==
    /\ phase = "collecting"
    /\ \A s \in Out : got[s] # Pending
    /\ Ends(Answer(status, [s \in Out |-> got[s].kept], \E s \in Out : got[s].truncated))
    /\ UNCHANGED <<asked, clock, process, tofeed, streams, drained, got>>

-----------------------------------------------------------------------------
(***************************************************************************)
(* The child, its helper, and time                                         *)
(***************************************************************************)

ChildReads ==
    /\ child = "running" /\ pipe["in"] > 0
    /\ pipe' = [pipe EXCEPT !["in"] = @ - 1]
    /\ UNCHANGED <<asked, phase, clock, process, tofeed, written, drained, got, result>>

\* The child or its helper writes; a full pipe makes it wait.
Writes(s) ==
    /\ Open
    /\ pipe[s] < PipeSize /\ written[s] < MaxWritten
    /\ pipe' = [pipe EXCEPT ![s] = @ + 1]
    /\ written' = [written EXCEPT ![s] = @ + 1]
    /\ UNCHANGED <<asked, phase, clock, process, tofeed, drained, got, result>>

\* It starts something behind `&`; that may leave the group; it ends.
Helps ==
    /\ \/ child = "running" /\ helper = "none" /\ helper' = "group"
       \/ helper = "group" /\ helper' = "away"
       \/ helper \in {"group", "away"} /\ helper' = "gone"
    /\ UNCHANGED <<asked, phase, clock, child, status, pid, struck, tofeed, streams,
                   drained, got, result>>

Exits ==
    /\ child = "running"
    /\ child' = "zombie"
    /\ status' \in {"0", "1", "signal"}
    /\ UNCHANGED <<asked, phase, clock, helper, pid, struck, tofeed, streams, drained, got, result>>

\* The number of a child that was waited for, and whose group is empty, is
\* given to a process that has nothing to do with it.
Reuse ==
    /\ child = "reaped" /\ helper # "group"
    /\ pid' = "stranger"
    /\ UNCHANGED <<asked, phase, clock, child, status, helper, struck, tofeed, streams,
                   drained, got, result>>

\* Nothing is left in a pipe, and its reader knows whether it has ended.
Idle(s) == drained[s].ended \/ (pipe[s] = 0 /\ Open)

\* Time passes.  DRAIN_GRACE, half a second, is taken to be long enough for a
\* reader thread to read what is in its pipe.
Tick ==
    /\ \/ phase = "watching" /\ clock < Limit
       \/ phase = "collecting" /\ clock < Grace /\ \A s \in Out : Idle(s)
    /\ clock' = clock + 1
    /\ UNCHANGED <<asked, phase, process, tofeed, streams, drained, got, result>>

Supervises ==
    \/ GivesUp \/ Start
    \/ Exited \/ Overrun \/ Kill \/ Reap
    \/ \E s \in Out : Collect(s)
    \/ Report

Next ==
    \/ Supervises
    \/ Feed
    \/ \E s \in Out : Drain(s) \/ Writes(s)
    \/ ChildReads \/ Helps \/ Exits \/ Reuse
    \/ Tick

\* ricepilot's threads run and time passes; the child need do nothing.
Spec ==
    /\ Init /\ [][Next]_vars
    /\ WF_vars(Supervises) /\ WF_vars(Tick)
    /\ \A s \in Out : WF_vars(Drain(s))

-----------------------------------------------------------------------------
\* An answer that is not marked truncated is all the child wrote, on both
\* streams, whatever a helper that outlives it still does; and it is marked
\* truncated only when more than the cap was written or a helper kept a
\* stream open: output of exactly the cap is an answer.
AnswerIsHonest ==
    result.is = "answer" =>
        IF result.truncated
        THEN helper # "none" \/ \E s \in Out : written[s] > Cap
        ELSE \A s \in Out : result.kept[s] = written[s]

\* What the error of a timeout says, as far as a process group reaches: the
\* child is gone and so is what it started in its group; and no signal has
\* gone to a process that was given the child's number after it was reaped.
TimeoutKillsItsOwn ==
    /\ result.is = "timed out" => child = "reaped" /\ helper # "group"
    /\ ~struck

\* run comes back, whatever the child does: hangs, does not read its stdin,
\* leaves a helper with the pipes.
RunReturns == (phase = "asked") ~> (phase = "done")

=============================================================================
