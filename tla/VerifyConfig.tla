----------------------------- MODULE VerifyConfig -----------------------------
(***************************************************************************)
(* The verify-config pre-flight: the config a switch would put at          *)
(* ~/.config/hypr, and every file it sources, is copied as it will be      *)
(* after the switch, with what would run a process blanked, and Hyprland   *)
(* is asked whether the copy parses.  The user edits files meanwhile, and  *)
(* another ricepilot may take the scratch directory's name.                *)
(*                                                                         *)
(* Source: src/src/hyprverify.rs, src/src/ops/exec/sandbox.rs, and         *)
(* src/src/hyprconf.rs by way of HyprConf.                                 *)
(***************************************************************************)
EXTENDS Hyprland

CONSTANTS
    Entry,              \* the destination of the hypr target
    Conf, Lua,          \* the names hyprland.conf and hyprland.lua
    Disks,              \* what may be at every real path at first
    Edits,              \* real path -> what an editor may leave there
    MaxEdits,           \* bound: edits in a run
    MaxFiles, MaxDepth  \* MAX_FILES and MAX_DEPTH

ASSUME EntryAssumption == Entry \in Config /\ Conf \in Names /\ Lua \in Names
ASSUME BoundsAssumption == MaxEdits \in Nat /\ MaxFiles \in Nat \ {0} /\ MaxDepth \in Nat \ {0}
ASSUME DisksAssumption ==
    /\ \A d \in Disks : DOMAIN d = Paths /\ \A p \in Paths : d[p] \in Contents
    /\ DOMAIN Edits \subseteq Paths /\ \A p \in DOMAIN Edits : Edits[p] \subseteq Contents

VARIABLES
    disk,       \* what is at each real path
    edits,      \* how often something was edited
    installed,  \* there is a Hyprland
    pc,
    stack,      \* the files being read, innermost last
    files,      \* Walk.files: what each copy will say
    visits,     \* Walk.visits
    known,      \* Vars
    owner,      \* who made the scratch directory: "none", "me", "other"
    scratch,    \* the copies written
    outcome

walk == <<stack, files, visits, known>>
vars == <<disk, edits, installed, pc, walk, owner, scratch, outcome>>

Outcomes == {"none", "nothing to check", "lua", "no Hyprland", "unsandboxable",
             "name taken", "unclean", "parsed", "not parsed"}

\* A file being read: its lines so far, and what its current source still names.
Frame(v, text, todo) == [v |-> v, text |-> text, out |-> <<>>, todo |-> todo]

Top == stack[Len(stack)]

\* The file being read, become so.
WithTop(frame) == [stack EXCEPT ![Len(stack)] = frame]

TypeOK ==
    /\ DOMAIN disk = Paths /\ \A p \in Paths : disk[p] \in Contents
    /\ edits \in 0..MaxEdits
    /\ installed \in BOOLEAN
    /\ pc \in {"check", "walk", "make", "write", "verify", "done"}
    /\ stack \in Seq([v : Paths, text : Seq(UserLines), out : Seq(Lines), todo : SUBSET Paths])
    /\ pc = "walk" => stack # <<>>
    /\ \A i \in 1..Len(stack) : Len(stack[i].out) <= Len(stack[i].text)
    /\ DOMAIN files \subseteq Paths /\ \A v \in DOMAIN files : files[v] \in Seq(Lines)
    /\ DOMAIN scratch \subseteq DOMAIN files
    /\ visits \in 0..MaxFiles
    /\ DOMAIN known \subseteq VarNames
    /\ \A x \in DOMAIN known : known[x] \in Values({"live"})
    /\ owner \in {"none", "me", "other"}
    /\ outcome \in Outcomes

Init ==
    /\ disk \in Disks
    /\ edits = 0
    /\ installed \in BOOLEAN
    /\ pc = "check"
    /\ stack = <<>> /\ files = <<>> /\ visits = 0 /\ known = <<>>
    /\ owner = "none" /\ scratch = <<>>
    /\ outcome = "none"

-----------------------------------------------------------------------------
\* What is at a path that the switch will have put there, where it is now.
Now(v) ==
    IF Real(v.dir) = {} THEN Nothing
    ELSE disk[[v EXCEPT !.dir = CHOOSE d \in Real(v.dir) : TRUE]]

Ends(with) ==
    /\ pc' = "done"
    /\ outcome' = with

Unsandboxable ==
    /\ Ends("unsandboxable")
    /\ UNCHANGED <<disk, edits, installed, walk, owner, scratch>>

-----------------------------------------------------------------------------
(***************************************************************************)
(* check, as far as the copy                                               *)
(***************************************************************************)

CheckEnds(with) ==
    /\ pc = "check"
    /\ Ends(with)
    /\ UNCHANGED <<disk, edits, installed, walk, owner, scratch>>

Ships(name) == Entry \in DOMAIN Links /\ disk[[dir |-> Links[Entry], name |-> name]] # Nothing

NothingToCheck == CheckEnds("nothing to check") /\ ~Ships(Lua) /\ ~Ships(Conf)

IsLua == CheckEnds("lua") /\ Ships(Lua)

NoHyprland == CheckEnds("no Hyprland") /\ ~Ships(Lua) /\ Ships(Conf) /\ ~installed

EntryFile == [dir |-> Entry, name |-> Conf]

\* build, which visits the entry before anything else.
Build ==
    /\ pc = "check"
    /\ ~Ships(Lua) /\ Ships(Conf) /\ installed
    /\ pc' = "walk"
    /\ stack' = <<Frame(EntryFile, <<>>, {EntryFile})>>
    /\ UNCHANGED <<disk, edits, installed, files, visits, known, owner, scratch, outcome>>

-----------------------------------------------------------------------------
(***************************************************************************)
(* The walk: visit, sanitize and expand                                    *)
(***************************************************************************)

\* The files being read; the frame below them is build's own.
Open == {stack[i].v : i \in 2..Len(stack)}

Visiting == pc = "walk" /\ Top.todo # {}
Visited == First(Top.todo)

\* Mutant: MAX_FILES is one too many.
TooMuchAtTheCap == Visited \in Open \/ Len(stack) - 1 >= MaxDepth \/ visits >= MaxFiles - 1

TooMuch == Visited \in Open \/ Len(stack) - 1 >= MaxDepth \/ visits + 1 > MaxFiles

Continues == [is |-> "joined"]

VisitRefuses ==
    /\ Visiting
    /\ \/ TooMuch
       \/ Now(Visited) = Unfit
       \/ Now(Visited).is = "file" /\ Continues \in Range(Now(Visited).text)
    /\ Unsandboxable

CalledFor == [Top EXCEPT !.todo = @ \ {Visited}]

\* Nothing will be there: Hyprland is left to say so.
VisitNothing ==
    /\ Visiting /\ ~TooMuch
    /\ Now(Visited) = Nothing
    /\ visits' = visits + 1
    /\ stack' = WithTop(CalledFor)
    /\ UNCHANGED <<disk, edits, installed, pc, files, known, owner, scratch, outcome>>

VisitFile ==
    /\ Visiting /\ ~TooMuch
    /\ Now(Visited).is = "file" /\ Continues \notin Range(Now(Visited).text)
    /\ visits' = visits + 1
    /\ stack' = Append(WithTop(CalledFor), Frame(Visited, Now(Visited).text, {}))
    /\ UNCHANGED <<disk, edits, installed, pc, files, known, owner, scratch, outcome>>

Reading == pc = "walk" /\ Top.todo = {} /\ Len(Top.out) < Len(Top.text)
Line == Top.text[Len(Top.out) + 1]

\* The directories a pattern names, of those that are there before the switch.
DirsOf(to) ==
    IF to.dir = "*/" THEN Config \ (DOMAIN Links \ DOMAIN Leaving) ELSE {to.dir}

\* expand: the paths a pattern matches.
Matched(to) ==
    IF to.rest = "*"
    THEN {p \in [dir : DirsOf(to), name : Names] : StarMatches(p.name) /\ Now(p) # Nothing}
    ELSE [dir : DirsOf(to), name : {to.rest} \intersect Names]

Sourced == UNION {Matched(to) : to \in Resolve(Line.value, Top.v.dir, known)}

\* A pattern matches more than MAX_FILES paths.
TooMany ==
    \E to \in Resolve(Line.value, Top.v.dir, known) :
        \/ to.dir = "*/" /\ Cardinality(DirsOf(to)) > MaxFiles
        \/ to.rest = "*" /\ Cardinality(Matched(to)) > MaxFiles

LineRefuses ==
    /\ Reading
    /\ Refuses(Line, Top.v.dir, known) \/ (Line.is = "source" /\ TooMany)
    /\ Unsandboxable

ReadLine ==
    /\ Reading
    /\ ~Refuses(Line, Top.v.dir, known) /\ ~(Line.is = "source" /\ TooMany)
    /\ stack' = WithTop([Top EXCEPT !.out = Append(@, Sanitized(Line, Top.v.dir, known)),
                                    !.todo = IF Line.is = "source" THEN Sourced ELSE {}])
    /\ known' = IF Line.is = "define" THEN Define(Line, known) ELSE known
    /\ UNCHANGED <<disk, edits, installed, pc, files, visits, owner, scratch, outcome>>

AllRead == pc = "walk" /\ Top.todo = {} /\ Len(Top.out) = Len(Top.text)

\* Sourced twice, and read differently each time.
LeaveRefuses ==
    /\ AllRead /\ Len(stack) > 1
    /\ Top.v \in DOMAIN files /\ files[Top.v] # Top.out
    /\ Unsandboxable

LeaveFile ==
    /\ AllRead /\ Len(stack) > 1
    /\ Top.v \in DOMAIN files => files[Top.v] = Top.out
    /\ files' = Insert(files, Top.v, Top.out)
    /\ stack' = Front(stack)
    /\ UNCHANGED <<disk, edits, installed, pc, visits, known, owner, scratch, outcome>>

LeaveWalk ==
    /\ AllRead /\ Len(stack) = 1
    /\ pc' = "make"
    /\ stack' = <<>> /\ visits' = 0 /\ known' = <<>>
    /\ UNCHANGED <<disk, edits, installed, files, owner, scratch, outcome>>

-----------------------------------------------------------------------------
(***************************************************************************)
(* The copy                                                                *)
(***************************************************************************)

\* make_dir_new.
Make ==
    /\ pc = "make"
    /\ IF owner = "none"
       THEN /\ owner' = "me" /\ pc' = "write"
            /\ UNCHANGED <<disk, edits, installed, walk, scratch, outcome>>
       ELSE /\ Ends("name taken")
            /\ UNCHANGED <<disk, edits, installed, walk, owner, scratch>>

WriteCopy ==
    /\ pc = "write" /\ DOMAIN scratch # DOMAIN files
    /\ LET v == First(DOMAIN files \ DOMAIN scratch)
       IN  scratch' = Insert(scratch, v, files[v])
    /\ UNCHANGED <<disk, edits, installed, pc, walk, owner, outcome>>

\* source_value of a line that stayed outside the copy.
Outside(line) == line.is = "source" /\ line.value.at # "copy"

\* post_check, of every line of every copy.
Clean ==
    \A v \in DOMAIN scratch : \A i \in 1..Len(scratch[v]) :
        LET line == scratch[v][i]
        IN  line # Continues /\ ~Strips(line) /\ ~Outside(line)

PostCheck ==
    /\ pc = "write" /\ DOMAIN scratch = DOMAIN files
    /\ IF Clean
       THEN pc' = "verify" /\ UNCHANGED outcome
       ELSE Ends("unclean")
    /\ UNCHANGED <<disk, edits, installed, walk, owner, scratch>>

-----------------------------------------------------------------------------
(***************************************************************************)
(* Hyprland, on the config as it will be after the switch, and on the copy *)
(***************************************************************************)

\* What the switch leaves at a path of disk d: a link's files are its source's.
After(d, v) ==
    IF v.dir \in Absent THEN Nothing
    ELSE d[IF v.dir \in DOMAIN Links THEN [v EXCEPT !.dir = Links[@]] ELSE v]

LiveOf(d) ==
    [at \in Ats |-> [v \in Paths |-> IF at = "live" THEN After(d, v) ELSE Nothing]]

LiveTree == LiveOf(disk)

CopyTree ==
    [LiveTree EXCEPT !.copy =
        [v \in Paths |-> IF v \in DOMAIN scratch THEN File(scratch[v]) ELSE Nothing]]

EntryAt(at) == [at |-> at, dir |-> Entry, name |-> Conf, globbed |-> FALSE]

LiveReading == ReadingOf(LiveTree, EntryAt("live"))
CopyReading == ReadingOf(CopyTree, EntryAt("copy"))

\* The exit code: a line that does not parse or a file that is not there.
Parses == \A e \in CopyReading.seen : e.what \notin {"bad", "none", "cycle", "meaningless"}

Verify ==
    /\ pc = "verify"
    /\ Ends(IF Parses THEN "parsed" ELSE "not parsed")
    /\ UNCHANGED <<disk, edits, installed, walk, owner, scratch>>

-----------------------------------------------------------------------------
(***************************************************************************)
(* Others                                                                  *)
(***************************************************************************)

Edit(p) ==
    /\ pc # "done" /\ edits < MaxEdits
    /\ edits' = edits + 1
    /\ disk' \in {[disk EXCEPT ![p] = c] : c \in Edits[p] \ {disk[p]}}
    /\ UNCHANGED <<installed, pc, walk, owner, scratch, outcome>>

\* Another ricepilot makes the directory whose name was free.
TakeName ==
    /\ pc \in {"walk", "make"} /\ owner = "none"
    /\ owner' = "other"
    /\ UNCHANGED <<disk, edits, installed, pc, walk, scratch, outcome>>

Next ==
    \/ NothingToCheck \/ IsLua \/ NoHyprland \/ Build
    \/ VisitRefuses \/ VisitNothing \/ VisitFile
    \/ LineRefuses \/ ReadLine \/ LeaveRefuses \/ LeaveFile \/ LeaveWalk
    \/ Make \/ WriteCopy \/ PostCheck \/ Verify
    \/ \E p \in DOMAIN Edits : Edit(p)
    \/ TakeName

Spec == Init /\ [][Next]_vars

-----------------------------------------------------------------------------
(***************************************************************************)
(* Properties                                                              *)
(***************************************************************************)

\* Whatever is edited while the copy is made, what Hyprland reads when it is
\* run holds nothing that runs a process or could be joined or expanded into
\* it, every file is the copy's, and no variable leads into the profile or the
\* home directory (hyprconf.rs, sandbox.rs: "nothing Hyprland is given is the
\* user's own file").
NothingLeavesTheCopy ==
    pc = "verify" =>
        \A e \in CopyReading.seen :
            e.inside /\ e.what \notin {"exec", "plugin", "joined", "built"}

\* If nothing was edited meanwhile, the copy that is judged reads as the
\* config will after the switch: the same files, in the same order, line for
\* line, but for the lines that were blanked and what a glob missed; and it is
\* hyprland.conf that Hyprland will load (hyprverify.rs, sandbox.rs: "it reads
\* what each path will be after the switch").
FaithfulCopy ==
    pc = "verify" /\ edits = 0 /\ Finished(LiveReading) =>
        /\ Finished(CopyReading) /\ CopyReading.told = LiveReading.told
        /\ After(disk, [dir |-> Entry, name |-> Lua]) = Nothing

\* The same line of the same file, read twice, leads to two places: one copy
\* cannot stand for both.
TwoReadings(seen) ==
    \E e, f \in seen :
        /\ e.what = "source" /\ f.what = "source"
        /\ e.file = f.file /\ e.line = f.line /\ e.to # f.to

\* What there is to object to in a reading of the config the switch would put
\* there.
Objectionable(r) ==
    \/ \E e \in r.seen :
        \/ e.what \in {"cycle", "unfit", "joined", "built", "meaningless"}
        \/ e.deep >= MaxDepth
        \/ Cardinality(e.among) > MaxFiles \/ Cardinality(e.matched) > MaxFiles
    \/ r.visits > MaxFiles
    \/ TwoReadings(r.seen)

\* If nothing was edited meanwhile, a config is refused a copy exactly when,
\* read as Hyprland reads it, there is something to object to: a cycle, a file
\* that is not one, a line or a path whose meaning is not to be told, two
\* readings of one file, or one more than the limits allow.
RefusedForAReason ==
    edits = 0 /\ outcome \in {"unsandboxable", "parsed", "not parsed"} /\ Finished(LiveReading) =>
        (outcome = "unsandboxable" <=> Objectionable(LiveReading))

=============================================================================
