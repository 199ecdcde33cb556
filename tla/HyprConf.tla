------------------------------- MODULE HyprConf -------------------------------
(***************************************************************************)
(* Hyprland's conf dialect, as far as the verify-config pre-flight reads   *)
(* it: what a line is, where a path written in a config leads after the    *)
(* switch, what is blanked and what is rewritten.                          *)
(*                                                                         *)
(* Source: src/src/hyprconf.rs.                                            *)
(*                                                                         *)
(* A path is a directory and a name in it, in the live filesystem or in    *)
(* the scratch copy.  A line keeps only what tells lines apart:            *)
(*   exec, plugin   runs a process, loads a shared object                  *)
(*   joined         ends in a backslash                                    *)
(*   built          a keyword, or a keyless line, that uses a variable     *)
(*   define         $name = value                                          *)
(*   source         source = value                                         *)
(*   bad, plain     does not parse, anything else                          *)
(*   blank          an empty line                                          *)
(* A value is a base and what follows it: a directory, "~", "here" (a      *)
(* relative path), "*/" (every directory of ~/.config), a variable, or     *)
(* "odd" (.., ~user, a glob class, an empty path); a variable that is      *)
(* followed by a name holds a directory.  A source names a file: one that  *)
(* names a directory is left out.                                          *)
(***************************************************************************)
EXTENDS Integers, Sequences, SequencesExt, FiniteSets, TLC

CONSTANTS
    DirOrder, NameOrder,    \* directories, and the names in them, as sort orders them
    Hidden,                 \* names that begin with a dot
    Home,                   \* the home directory
    Config,                 \* the directories of ~/.config
    Links,                  \* destination -> source, for the links the switch leaves
    Absent,                 \* destinations the switch retires
    Leaving,                \* destination -> what its link names before the switch
    VarNames

Dirs == Range(DirOrder)
Names == Range(NameOrder)
Paths == [dir : Dirs, name : Names]

ASSUME DirsAssumption ==
    /\ {Home} \union Config \union Absent \subseteq Dirs
    /\ DOMAIN Links \subseteq Config /\ Range(Links) \subseteq Dirs \ Config
    /\ DOMAIN Leaving \subseteq DOMAIN Links /\ Range(Leaving) \subseteq Dirs \ Config
    /\ Absent \subseteq Config \ DOMAIN Links
    /\ Hidden \subseteq Names

\* The words for bases and rests are not the names of anything.
ASSUME WordsAssumption ==
    /\ DirOrder \in Seq(Dirs) /\ NameOrder \in Seq(Names)
    /\ (Dirs \union VarNames) \intersect {"~", "here", "*/", "odd"} = {}
    /\ Dirs \intersect VarNames = {}
    /\ Names \intersect {"*", ""} = {}

Bases == Dirs \union VarNames \union {"~", "here", "*/", "odd"}

\* What a value may be, and a line, that names files in the trees of ats.
Values(ats) == [at : ats, base : Bases, rest : Names \union {"*", ""}]

LinesOf(ats) ==
    [is : {"exec", "plugin", "joined", "built", "bad", "plain", "blank"}]
    \union [is : {"define"}, name : VarNames, value : Values(ats)]
    \union [is : {"source"}, value : [at : ats, base : Bases, rest : Names \union {"*"}]]

\* The user's own, and those of the copy as well.
UserLines == LinesOf({"live"})
Lines == LinesOf({"live", "copy"})

Nothing == [is |-> "none"]
File(text) == [is |-> "file", text |-> text]
\* Not a regular file, too big, or not to be read.
Unfit == [is |-> "unfit"]
Contents == {Nothing, Unfit} \union [is : {"file"}, text : Seq(UserLines)]
Blank == [is |-> "blank"]

-----------------------------------------------------------------------------
(***************************************************************************)
(* Context                                                                 *)
(***************************************************************************)

\* Mutant: a destination is read through the link that is there now.
RealNow(d) ==
    IF d \in DOMAIN Leaving THEN {Leaving[d]}
    ELSE IF d \in DOMAIN Links THEN {Links[d]} ELSE {d} \ Absent

\* Context::real: where the files are that d will have after the switch.
Real(d) == IF d \in DOMAIN Links THEN {Links[d]} ELSE {d} \ Absent

\* Context::virtualize: the directory by the name it will have.
Virtualize(d) ==
    IF d \in Range(Links) THEN CHOOSE dest \in DOMAIN Links : Links[dest] = d ELSE d

-----------------------------------------------------------------------------
(***************************************************************************)
(* Lines and values                                                        *)
(***************************************************************************)

\* Mutant: nothing but the exec family is stripped.
StripsExec(line) == line.is = "exec"

\* stripped_keyword, with what it also strips.
Strips(line) == line.is \in {"exec", "plugin"}

\* expand_vars, and the variables of resolve_source.
Expand(value, vars) ==
    IF value.base \in DOMAIN vars
    THEN [vars[value.base] EXCEPT !.rest = IF value.rest = "" THEN @ ELSE value.rest]
    ELSE value

\* A map with what is at a key replaced, or added.
Insert(f, key, value) ==
    [x \in DOMAIN f \union {key} |-> IF x = key THEN value ELSE f[x]]

\* Vars::set, for a definition that is expanded where it stands.
Define(line, vars) == Insert(vars, line.name, Expand(line.value, vars))

\* resolve_source, of a line of a file in directory dir: where it leads after
\* the switch, if that is to be told.
Resolve(value, dir, vars) ==
    LET expanded == Expand(value, vars)
        base == CASE expanded.base = "~" -> Home
                  [] expanded.base = "here" -> dir
                  [] OTHER -> expanded.base
    IN  IF base \in Dirs \union {"*/"}
        THEN {[dir |-> Virtualize(base), rest |-> expanded.rest]}
        ELSE {}

\* rewrite_paths: what a definition says in the copy.
Rewritten(value) ==
    CASE value.base \in DOMAIN Links \union Range(Links) ->
            [value EXCEPT !.at = "copy", !.base = Virtualize(@)]
      [] value.base = "~" -> [value EXCEPT !.at = "copy", !.base = Home]
      [] OTHER -> value

\* The line sanitize puts in the place of one that it does not refuse.
Sanitized(line, dir, vars) ==
    CASE Strips(line) -> Blank
      [] line.is = "define" -> [line EXCEPT !.value = Rewritten(@)]
      [] line.is = "source" ->
            LET to == CHOOSE r \in Resolve(line.value, dir, vars) : TRUE
            IN  [line EXCEPT !.value = [at |-> "copy", base |-> to.dir, rest |-> to.rest]]
      [] OTHER -> line

\* What sanitize refuses a line for.
Refuses(line, dir, vars) ==
    \/ line.is = "built"
    \/ line.is = "source" /\ Resolve(line.value, dir, vars) = {}

-----------------------------------------------------------------------------
(***************************************************************************)
(* Globs                                                                   *)
(***************************************************************************)

\* glob_component_matches, of a star.
StarMatches(name) == name \notin Hidden

\* The first path of a set in the order sort gives them.
First(paths) ==
    LET d == Min({i \in DOMAIN DirOrder : \E p \in paths : p.dir = DirOrder[i]})
        there == {p \in paths : p.dir = DirOrder[d]}
        n == Min({j \in DOMAIN NameOrder : \E p \in there : p.name = NameOrder[j]})
    IN  CHOOSE p \in there : p.name = NameOrder[n]

=============================================================================
