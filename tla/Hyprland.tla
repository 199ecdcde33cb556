------------------------------- MODULE Hyprland -------------------------------
(***************************************************************************)
(* How Hyprland reads a config: line by line, a sourced file where it is   *)
(* named, with the variables defined so far.  A tree is what is at every   *)
(* path, in the live filesystem and in the scratch copy; a reading of one  *)
(* is followed a step at a time.                                           *)
(*                                                                         *)
(* External: taken from what src/src/hyprconf.rs and                       *)
(* src/src/ops/exec/sandbox.rs say of Hyprland.                            *)
(***************************************************************************)
EXTENDS HyprConf

CONSTANT
    MaxReads    \* bound: steps a reading is followed

ASSUME ReadsAssumption == MaxReads \in Nat

Ats == {"live", "copy"}

\* A path as a reading comes to it: whether a glob led there.
Reached == [at : Ats, dir : Dirs, name : Names, globbed : BOOLEAN]

Place(p) == [dir |-> p.dir, name |-> p.name]
There(tree, p) == tree[p.at][Place(p)]

\* By the name it has after the switch.
Called(p) == [dir |-> Virtualize(p.dir), name |-> p.name]

-----------------------------------------------------------------------------
(***************************************************************************)
(* Sources                                                                 *)
(***************************************************************************)

\* The directories of ~/.config, after the switch or in the copy; a retired one
\* stays among them with nothing in it, as the code counts it.
ConfigDirs(tree, at) ==
    IF at = "live" THEN Config
    ELSE {d \in Config : \E n \in Names : tree[at][[dir |-> d, name |-> n]] # Nothing}

Meaningless(value, variables) ==
    Expand(value, variables).base \notin Dirs \union {"~", "here", "*/"}

\* The directories a value written in the file p names.
DirsNamed(tree, value, p, variables) ==
    LET to == Expand(value, variables)
    IN  CASE to.base = "~" -> {Home}
          [] to.base = "here" -> {p.dir}
          [] to.base = "*/" -> ConfigDirs(tree, to.at)
          [] OTHER -> {to.base} \intersect Dirs

\* The paths a value leads to: those a "*" finds, or the one that is named.
Leads(tree, value, p, variables) ==
    LET to == Expand(value, variables)
        named == [at : {IF to.base \in {"~", "here"} THEN p.at ELSE to.at},
                  dir : DirsNamed(tree, value, p, variables),
                  name : IF to.rest = "*" THEN Names \ Hidden ELSE {to.rest} \intersect Names,
                  globbed : {to.base = "*/" \/ to.rest = "*"}]
    IN  IF to.rest = "*" THEN {q \in named : There(tree, q) # Nothing} ELSE named

-----------------------------------------------------------------------------
(***************************************************************************)
(* A reading                                                               *)
(*   open     the files being read, innermost last, above the command line *)
(*   vars     the variables                                                *)
(*   seen     what was read, as events                                     *)
(*   told     what of it has a meaning, in order                           *)
(*   visits   how many paths it came to                                    *)
(***************************************************************************)

Opened(p, text, todo) == [path |-> p, text |-> text, line |-> 0, todo |-> todo]

Begin(p) ==
    [open |-> <<Opened(p, <<>>, {p})>>, vars |-> <<>>, seen |-> {},
     told |-> <<>>, visits |-> 0]

Finished(r) == r.open = <<>>

Innermost(r) == r.open[Len(r.open)]

\* The open files, the innermost become so.
WithInnermost(r, file) == [r.open EXCEPT ![Len(r.open)] = file]

\* What is read at line i of a file, line 0 being the coming to it; the files
\* a glob of it found, and the directories it looked in.
Event(p, i, what) ==
    [file |-> Called(p), line |-> i, what |-> what, inside |-> p.at = "copy", deep |-> 0,
     to |-> {}, among |-> {}, matched |-> {}]

LeavesNoTrace == {"exec", "plugin", "blank", "unmatched"}

Tell(told, event) ==
    IF event.what \in LeavesNoTrace THEN told
    ELSE Append(told, <<event.file, event.line, event.what>>)

\* A path or a variable's value that leads to no file of the user's tree.
Inside(value) == value.at = "copy" \/ value.base \notin DOMAIN Links \union Range(Links) \union {"~"}

\* The reader comes to the next path of a source.
VisitEvent(tree, r) ==
    LET p == First(Innermost(r).todo)
        above == {Called(r.open[i].path) : i \in 2..Len(r.open)}
        what == IF Called(p) \in above THEN "cycle"
                ELSE IF There(tree, p) = Nothing /\ p.globbed THEN "unmatched"
                ELSE There(tree, p).is
    IN  [Event(p, 0, what) EXCEPT !.deep = Len(r.open) - 1]

Visit(tree, r) ==
    LET p == First(Innermost(r).todo)
        event == VisitEvent(tree, r)
        rest == WithInnermost(r, [Innermost(r) EXCEPT !.todo = @ \ {p}])
    IN  [r EXCEPT !.open = IF event.what = "file"
                           THEN Append(rest, Opened(p, There(tree, p).text, {})) ELSE rest,
                  !.seen = @ \union {event},
                  !.told = Tell(@, event),
                  !.visits = @ + 1]

\* The reader reads the next line of a file.
LineEvent(tree, r) ==
    LET f == Innermost(r)
        line == f.text[f.line + 1]
        event == Event(f.path, f.line + 1, line.is)
    IN  IF line.is = "define"
        THEN [event EXCEPT !.inside = @ /\ Inside(Expand(line.value, r.vars))]
        ELSE IF line.is # "source" THEN event
        ELSE IF Meaningless(line.value, r.vars) THEN [event EXCEPT !.what = "meaningless"]
        ELSE LET to == Expand(line.value, r.vars)
             IN  [event EXCEPT
                    !.to = Resolve(line.value, f.path.dir, r.vars),
                    !.among = IF to.base = "*/" THEN ConfigDirs(tree, to.at) ELSE {},
                    !.matched = IF to.rest = "*"
                                THEN {Called(q) : q \in Leads(tree, line.value, f.path, r.vars)}
                                ELSE {}]

\* The file when a line of it is read that leads to todo.
Further(f, todo) == [f EXCEPT !.line = @ + 1, !.todo = todo]

ReadNext(tree, r) ==
    LET f == Innermost(r)
        line == f.text[f.line + 1]
        event == LineEvent(tree, r)
        leads == IF event.what = "source" THEN Leads(tree, line.value, f.path, r.vars) ELSE {}
    IN  [r EXCEPT !.open = WithInnermost(r, Further(f, leads)),
                  !.vars = IF line.is = "define" THEN Define(line, @) ELSE @,
                  !.seen = @ \union {event},
                  !.told = Tell(@, event)]

Close(r) == [r EXCEPT !.open = Front(@)]

Step(tree, r) ==
    IF Finished(r) THEN r
    ELSE IF Innermost(r).todo # {} THEN Visit(tree, r)
    ELSE IF Innermost(r).line < Len(Innermost(r).text) THEN ReadNext(tree, r)
    ELSE Close(r)

\* A reading that begins at p, after each of its steps.
Run(tree, p) ==
    LET run[n \in 0..MaxReads] == IF n = 0 THEN Begin(p) ELSE Step(tree, run[n - 1])
    IN  run

ReadingOf(tree, p) == Run(tree, p)[MaxReads]

=============================================================================
