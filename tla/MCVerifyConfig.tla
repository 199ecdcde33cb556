---------------------------- MODULE MCVerifyConfig ----------------------------
(***************************************************************************)
(* A switch that leads ~/.config/hypr from "old" to "new" and retires      *)
(* ~/.config/gone; ~/.config/free is the user's own.                       *)
(***************************************************************************)
EXTENDS VerifyConfig

MCDirs == <<"free", "gone", "home", "hypr", "new", "old">>
MCNames == <<"hid", "conf", "lua", "part">>
MCLinks == "hypr" :> "new"
MCLeaving == "hypr" :> "old"

At(dir, name) == [dir |-> dir, name |-> name]
Live(base, rest) == [at |-> "live", base |-> base, rest |-> rest]
L(is) == [is |-> is]
Def(base) == [is |-> "define", name |-> "$d", value |-> Live(base, "")]
Src(base, rest) == [is |-> "source", value |-> Live(base, rest)]

Heads == {<<>>, <<Def("free")>>, <<Def("new")>>, <<L("exec")>>}
Sources == {<<Src(b, "part")>> : b \in {"here", "new", "hypr", "gone", "*/", "$d", "~"}}
    \union {<<Src("here", "*")>>, <<Src("free", "*")>>, <<Src("free", "hid")>>}
Tails == {<<>>, <<Src("$d", "part")>>, <<Def("gone"), Src("new", "part")>>}

EntryTexts == {Nothing} \union {File(h \o s \o t) : h \in Heads, s \in Sources, t \in Tails}

PartTexts == {Nothing, Unfit} \union {File(t) : t \in {
    <<L("plain")>>, <<L("plugin")>>, <<L("exec"), L("bad")>>, <<L("joined")>>, <<L("built")>>,
    <<Def("free")>>, <<Src("$d", "part")>>, <<Src("odd", "hid")>>, <<Src("here", "conf")>>,
    <<Src("free", "part")>>, <<Def("~"), Src("$d", "hid")>>}}

FreeTexts == {Nothing} \union {File(t) : t \in {<<L("exec")>>, <<Src("here", "hid")>>}}

One(text) == {File(text)}

Texts ==
    At("new", "conf") :> EntryTexts
    @@ At("new", "part") :> PartTexts
    @@ At("free", "part") :> FreeTexts
    @@ At("new", "lua") :> {Nothing}
    @@ At("free", "hid") :> One(<<L("plain")>>)
    @@ At("old", "conf") :> One(<<L("plain")>>)
    @@ At("old", "part") :> One(<<L("bad")>>)
    @@ At("gone", "part") :> One(<<L("exec")>>)

\* A choice of one of the texts at each path, and nothing elsewhere.
MCDisks ==
    FoldSet(LAMBDA p, ds : {(p :> c) @@ d : d \in ds, c \in Texts[p]},
            {[p \in Paths |-> Nothing]}, DOMAIN Texts)

MCEdits ==
    At("new", "part") :> One(<<L("plugin"), Src("free", "part")>>)
    @@ At("new", "lua") :> One(<<>>)

\* MaxReads is enough for every reading.
ASSUME ReadingsEnd == \A d \in Disks : Finished(ReadingOf(LiveOf(d), EntryAt("live")))

=============================================================================
