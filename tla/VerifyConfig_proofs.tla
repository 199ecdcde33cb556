-------------------------- MODULE VerifyConfig_proofs --------------------------
(***************************************************************************)
(* Proofs about the verify-config pre-flight, for any configs, edits and   *)
(* limits.                                                                 *)
(*                                                                         *)
(* Source: src/src/hyprverify.rs, src/src/ops/exec/sandbox.rs,             *)
(* src/src/hyprconf.rs.                                                    *)
(***************************************************************************)
EXTENDS VerifyConfig, TLAPS, FiniteSetTheorems, WellFoundedInduction, SequenceTheorems

-----------------------------------------------------------------------------
(***************************************************************************)
(* Induction over a set, and what it says of least numbers and of a run    *)
(***************************************************************************)

\* A nonempty set of naturals has a least element.
LEMMA LeastNumber ==
    ASSUME NEW T, T \subseteq Nat, T # {}
    PROVE  \E x \in T : \A y \in T : x <= y
<1> DEFINE R == OpToRel(<, Nat)
<1>1. PICK x \in T : \A y \in T : ~(<<y, x>> \in R)
  <2> HIDE DEF R
  <2>1. IsWellFoundedOn(R, Nat)
    BY NatLessThanWellFounded DEF R
  <2> QED BY <2>1, WFMin
<1>2. \A y \in T : ~(y < x)
  BY <1>1 DEF OpToRel
<1> QED BY <1>2

\* Min of a nonempty set of naturals is its least element.
LEMMA MinIs ==
    ASSUME NEW T, T \subseteq Nat, T # {}
    PROVE  Min(T) \in T /\ \A y \in T : Min(T) <= y
BY LeastNumber DEF Min

\* Induction over a set of naturals, where an operator is beyond the provers.
LEMMA SetInduction ==
    ASSUME NEW S, 0 \in S, \A n \in Nat : n \in S => n + 1 \in S
    PROVE  Nat \subseteq S
<1> DEFINE T == Nat \ S
<1> SUFFICES ASSUME T # {} PROVE FALSE
  OBVIOUS
<1>1. PICK x \in T : \A y \in T : x <= y
  <2> HIDE DEF T
  <2>1. T \subseteq Nat
    BY DEF T
  <2> QED BY <2>1, LeastNumber
<1>2. x # 0 /\ x \in Nat
  OBVIOUS
<1>3. x - 1 \in Nat /\ x - 1 \notin T
  BY <1>1, <1>2
<1>4. x - 1 \in S
  BY <1>3
<1>5. (x - 1) + 1 \in S
  BY <1>3, <1>4
<1> QED BY <1>2, <1>5

\* The recursive function a run is defined by exists: each step is a step of
\* the one before.
LEMMA RunIsRun ==
    ASSUME NEW tree, NEW p
    PROVE  /\ Run(tree, p)[0] = Begin(p)
           /\ \A n \in 0..MaxReads :
                n < MaxReads => Run(tree, p)[n + 1] = Step(tree, Run(tree, p)[n])
<1> DEFINE Is(k, g) == g = [n \in 0..k |-> IF n = 0 THEN Begin(p) ELSE Step(tree, g[n - 1])]
           S == {k \in Nat : \E g : Is(k, g)}
<1>1. 0 \in S
  <2> DEFINE g == [n \in 0..0 |-> Begin(p)]
  <2>1. Is(0, g)
    OBVIOUS
  <2> QED BY <2>1
<1>2. ASSUME NEW k \in Nat, k \in S PROVE k + 1 \in S
  <2>1. PICK g : Is(k, g)
    BY <1>2
  <2> DEFINE h == [n \in 0..(k + 1) |-> IF n \in 0..k THEN g[n] ELSE Step(tree, g[k])]
  <2>2. \A n \in 0..(k + 1) : h[n] = IF n = 0 THEN Begin(p) ELSE Step(tree, h[n - 1])
    BY <2>1
  <2>3. Is(k + 1, h)
    BY <2>2
  <2>4. \E f : Is(k + 1, f)
    <3> HIDE DEF Is, h
    <3> QED BY <2>3
  <2> QED BY <2>4
<1>3. \E g : Is(MaxReads, g)
  <2>1. Nat \subseteq S
    <3> HIDE DEF S
    <3> QED BY <1>1, <1>2, SetInduction
  <2> QED BY <2>1, ReadsAssumption
<1>4. Run(tree, p) = CHOOSE g : Is(MaxReads, g)
  BY DEF Run
<1>5. Is(MaxReads, CHOOSE g : Is(MaxReads, g))
  <2> HIDE DEF Is
  <2> QED BY <1>3
<1>6. Is(MaxReads, Run(tree, p))
  <2> HIDE DEF Is
  <2> QED BY <1>4, <1>5
<1> DEFINE g == Run(tree, p)
<1>7. g = [n \in 0..MaxReads |-> IF n = 0 THEN Begin(p) ELSE Step(tree, g[n - 1])]
  BY <1>6
<1> HIDE DEF g
<1>8. g[0] = Begin(p)
  BY <1>7, ReadsAssumption
<1>9. ASSUME NEW n \in 0..MaxReads, n < MaxReads PROVE g[n + 1] = Step(tree, g[n])
  <2>1. n + 1 \in 0..MaxReads /\ n + 1 # 0 /\ (n + 1) - 1 = n
    BY <1>9, ReadsAssumption
  <2> QED BY <2>1, <1>7
<1> QED BY <1>8, <1>9 DEF g

-----------------------------------------------------------------------------
\* A line that nothing of the user's is reached through: what can be expanded
\* is refused, and a path in it is one of the copy.
Sheltered(line) ==
    /\ line.is # "built"
    /\ line.is = "define" => Inside(line.value)
    /\ line.is = "source" => line.value.base \in Dirs \union {"*/"}

\* Where a source may lead.
Targets == [dir : Dirs \union {"*/"}, rest : Names \union {"*"}]

-----------------------------------------------------------------------------
(***************************************************************************)
(* The operators                                                           *)
(***************************************************************************)

\* All but the last.
LEMMA FrontIs ==
    ASSUME NEW T, NEW s \in Seq(T), Len(s) > 0
    PROVE  /\ Front(s) \in Seq(T) /\ Len(Front(s)) = Len(s) - 1
           /\ \A i \in 1..(Len(s) - 1) : Front(s)[i] = s[i]
<1>0. Len(s) \in Nat
  OBVIOUS
<1>1. ASSUME NEW i \in 1..(Len(s) - 1) PROVE s[i] \in T
  <2>1. i \in 1..Len(s)
    BY <1>0
  <2> QED BY <2>1
<1>2. Len(s) - 1 \in Nat
  BY <1>0
<1>3. PICK m \in Nat : m = Len(s) - 1
  BY <1>2
<1> DEFINE t == SubSeq(s, 1, m)
<1>4. /\ t \in Seq(T)
      /\ Len(t) = IF 1 <= m THEN m - 1 + 1 ELSE 0
      /\ \A i \in 1..(m - 1 + 1) : t[i] = s[1 + i - 1]
  BY <1>1, <1>3, SubSeqProperties
<1>5. Front(s) = t
  BY <1>3 DEF Front
<1> HIDE DEF t
<1>6. Len(t) = m
  <2>1. (IF 1 <= m THEN m - 1 + 1 ELSE 0) = m
    BY <1>3
  <2> QED BY <1>4, <2>1
<1>7. ASSUME NEW i \in 1..m PROVE t[i] = s[i]
  BY <1>3, <1>4
<1> QED BY <1>3, <1>4, <1>5, <1>6, <1>7

\* First picks one of the paths.
LEMMA FirstIn ==
    ASSUME NEW S, S # {}, \A p \in S : p.dir \in Dirs /\ p.name \in Names
    PROVE  First(S) \in S
<1> DEFINE D == {i \in DOMAIN DirOrder : \E p \in S : p.dir = DirOrder[i]}
           there == {p \in S : p.dir = DirOrder[Min(D)]}
           N == {j \in DOMAIN NameOrder : \E p \in there : p.name = NameOrder[j]}
<1>1. DOMAIN DirOrder \subseteq Nat /\ DOMAIN NameOrder \subseteq Nat
  <2>1. DirOrder \in Seq(Dirs) /\ NameOrder \in Seq(Names)
    BY WordsAssumption
  <2> QED BY <2>1
<1>2. D # {}
  BY DEF Dirs, Range
<1>3. Min(D) \in D
  <2>1. D \subseteq Nat
    BY <1>1
  <2> HIDE DEF D
  <2> QED BY <1>2, <2>1, MinIs
<1>4. there # {}
  BY <1>3
<1>5. N # {}
  <2> HIDE DEF D
  <2> QED BY <1>4 DEF Names, Range
<1>6. Min(N) \in N
  <2>1. N \subseteq Nat
    BY <1>1
  <2> HIDE DEF N
  <2> QED BY <1>5, <2>1, MinIs
<1>7. \E p \in there : p.name = NameOrder[Min(N)]
  <2> HIDE DEF there
  <2> QED BY <1>6
<1>8. First(S) = CHOOSE p \in there : p.name = NameOrder[Min(N)]
  BY DEF First
<1>9. First(S) \in there
  <2> HIDE DEF there, N
  <2> QED BY <1>7, <1>8
<1> QED BY <1>9

\* A directory has a name after the switch, and keeps it.
LEMMA Virtualized ==
    ASSUME NEW d \in Dirs \union {"*/"}
    PROVE  /\ Virtualize(d) \in Dirs \union {"*/"}
           /\ d \in Dirs => Virtualize(d) \in Dirs
           /\ d = "*/" => Virtualize(d) = "*/"
           /\ Virtualize(d) \notin Range(Links)
<1>1. d = "*/" => d \notin Range(Links)
  BY DirsAssumption, WordsAssumption
<1>2. ASSUME d \in Range(Links)
      PROVE  Virtualize(d) \in DOMAIN Links
  <2>1. \E dest \in DOMAIN Links : Links[dest] = d
    BY <1>2 DEF Range
  <2> QED BY <2>1, <1>2 DEF Virtualize
<1>3. DOMAIN Links \subseteq Dirs /\ DOMAIN Links \intersect Range(Links) = {}
  BY DirsAssumption
<1> QED BY <1>1, <1>2, <1>3 DEF Virtualize

\* What a value becomes when its variable is put in.
LEMMA Expanded ==
    ASSUME NEW ats, NEW value \in Values(ats), NEW variables, DOMAIN variables \subseteq VarNames,
           \A x \in DOMAIN variables : variables[x] \in Values(ats)
    PROVE  /\ Expand(value, variables) \in Values(ats)
           /\ value.rest # "" => Expand(value, variables).rest = value.rest
           /\ value.base \notin VarNames => Expand(value, variables) = value
BY DEF Expand, Values

\* A definition adds a variable.
LEMMA Defined ==
    ASSUME NEW ats, NEW line, line.name \in VarNames, line.value \in Values(ats),
           NEW variables, DOMAIN variables \subseteq VarNames,
           \A x \in DOMAIN variables : variables[x] \in Values(ats)
    PROVE  /\ DOMAIN Define(line, variables) \subseteq VarNames
           /\ \A x \in DOMAIN Define(line, variables) :
                /\ Define(line, variables)[x] \in Values(ats)
                /\ Define(line, variables)[x] \in
                     {Expand(line.value, variables)} \union {variables[y] : y \in DOMAIN variables}
<1>1. Expand(line.value, variables) \in Values(ats)
  BY Expanded
<1> QED BY <1>1 DEF Define, Insert

\* Where a source leads after the switch: a directory by the name it will have,
\* and what was written after it.
LEMMA Resolved ==
    ASSUME NEW ats, NEW value \in Values(ats), value.rest \in Names \union {"*"}, NEW dir \in Dirs,
           NEW variables, DOMAIN variables \subseteq VarNames,
           \A x \in DOMAIN variables : variables[x] \in Values(ats),
           NEW to \in Resolve(value, dir, variables)
    PROVE  /\ to \in Targets /\ to.rest = value.rest
           /\ to.dir \notin Range(Links)
           /\ \A x \in Resolve(value, dir, variables) : x = to
<1> DEFINE expanded == Expand(value, variables)
           base == CASE expanded.base = "~" -> Home
                     [] expanded.base = "here" -> dir
                     [] OTHER -> expanded.base
<1>0. value.rest # ""
  BY WordsAssumption
<1>1. expanded.rest = value.rest
  BY <1>0, Expanded
<1>2. Resolve(value, dir, variables) =
        IF base \in Dirs \union {"*/"} THEN {[dir |-> Virtualize(base), rest |-> expanded.rest]}
        ELSE {}
  BY DEF Resolve
<1> HIDE DEF base, expanded
<1>3. base \in Dirs \union {"*/"} /\ to = [dir |-> Virtualize(base), rest |-> value.rest]
  BY <1>1, <1>2
<1>7. \A x \in Resolve(value, dir, variables) : x = to
  BY <1>1, <1>2, <1>3
<1>4. Virtualize(base) \in (Dirs \union {"*/"}) \ Range(Links)
  BY <1>3, Virtualized
<1>5. to.dir = Virtualize(base) /\ to.rest = value.rest
  BY <1>3
<1>6. to \in Targets
  BY <1>3, <1>4 DEF Targets
<1> QED BY <1>4, <1>5, <1>6, <1>7

\* A source line is one.
LEMMA SourceLine ==
    ASSUME NEW ats, NEW value \in Values(ats), value.rest \in Names \union {"*"}
    PROVE  [is |-> "source", value |-> value] \in LinesOf(ats)
BY DEF Values, LinesOf

\* A path of the copy.
LEMMA CopyValue ==
    ASSUME NEW base \in Dirs \union {"*/"}, NEW rest \in Names \union {"*", ""}
    PROVE  LET to == [at |-> "copy", base |-> base, rest |-> rest]
           IN  to \in Values({"live", "copy"}) /\ Inside(to)
BY DEF Values, Inside, Bases

\* What a definition says in the copy leads nowhere else.
LEMMA RewrittenValue ==
    ASSUME NEW value \in Values({"live"})
    PROVE  Rewritten(value) \in Values({"live", "copy"}) /\ Inside(Rewritten(value))
<1>1. value.base \in Bases /\ value.rest \in Names \union {"*", ""}
  BY DEF Values
<1>2. CASE value.base \in DOMAIN Links \union Range(Links)
  <2>1. value.base \in Dirs
    BY <1>2, DirsAssumption
  <2>2. value.base # "~" /\ Virtualize(value.base) \in Dirs
    BY <2>1, Virtualized, WordsAssumption
  <2>3. Rewritten(value) = [at |-> "copy", base |-> Virtualize(value.base), rest |-> value.rest]
    BY <1>2, <2>2 DEF Rewritten, Values
  <2> QED BY <1>1, <2>2, <2>3, CopyValue
<1>3. CASE value.base \notin DOMAIN Links \union Range(Links) /\ value.base = "~"
  <2>1. Rewritten(value) = [at |-> "copy", base |-> Home, rest |-> value.rest]
    BY <1>3 DEF Rewritten, Values
  <2>2. Home \in Dirs
    BY DirsAssumption
  <2> QED BY <1>1, <2>1, <2>2, CopyValue
<1>4. CASE value.base \notin DOMAIN Links \union Range(Links) /\ value.base # "~"
  <2>1. Rewritten(value) = value
    BY <1>4 DEF Rewritten
  <2> QED BY <1>4, <2>1 DEF Values, Inside
<1> QED BY <1>2, <1>3, <1>4

\* What sanitize makes of a line it does not refuse is a line.
LEMMA SanitizedLine ==
    ASSUME NEW line \in UserLines, NEW dir \in Dirs,
           NEW variables, DOMAIN variables \subseteq VarNames,
           \A x \in DOMAIN variables : variables[x] \in Values({"live"}),
           ~Refuses(line, dir, variables)
    PROVE  /\ Sanitized(line, dir, variables) \in Lines
           /\ Sheltered(Sanitized(line, dir, variables))
<1> DEFINE made == Sanitized(line, dir, variables)
<1>1. CASE Strips(line)
  BY <1>1 DEF Sanitized, Strips, Blank, Lines, LinesOf, Sheltered
<1>2. CASE line.is = "define"
  <2>1. line.name \in VarNames /\ line.value \in Values({"live"})
    BY <1>2 DEF UserLines, LinesOf
  <2>2. line = [is |-> "define", name |-> line.name, value |-> line.value]
    BY <1>2 DEF UserLines, LinesOf
  <2>3. made = [line EXCEPT !.value = Rewritten(@)]
    BY <1>2 DEF Sanitized, Strips
  <2>4. made = [is |-> "define", name |-> line.name, value |-> Rewritten(line.value)]
    BY <2>2, <2>3
  <2>5. Rewritten(line.value) \in Values({"live", "copy"}) /\ Inside(Rewritten(line.value))
    BY <2>1, RewrittenValue
  <2>6. made \in [is : {"define"}, name : VarNames, value : Values({"live", "copy"})]
    BY <2>1, <2>4, <2>5
  <2>7. made \in Lines
    BY <2>6 DEF Lines, LinesOf
  <2> QED BY <2>4, <2>5, <2>7 DEF Sheltered
<1>3. CASE line.is = "source"
  <2>1. line.value \in Values({"live"}) /\ line.value.rest \in Names \union {"*"}
    BY <1>3 DEF UserLines, LinesOf, Values
  <2>2. line = [is |-> "source", value |-> line.value]
    BY <1>3 DEF UserLines, LinesOf
  <2>3. Resolve(line.value, dir, variables) # {}
    BY <1>3 DEF Refuses
  <2> DEFINE to == CHOOSE r \in Resolve(line.value, dir, variables) : TRUE
             there == [at |-> "copy", base |-> to.dir, rest |-> to.rest]
  <2>4. to \in Targets /\ to.rest = line.value.rest
    <3>1. to \in Resolve(line.value, dir, variables)
      BY <2>3
    <3> HIDE DEF to
    <3> QED BY <2>1, <3>1, Resolved
  <2>5. made = [line EXCEPT !.value = there]
    BY <1>3 DEF Sanitized, Strips
  <2>6. made = [is |-> "source", value |-> there]
    BY <2>2, <2>5
  <2> HIDE DEF to
  <2>7. there \in Values({"live", "copy"}) /\ there.rest \in Names \union {"*"}
        /\ there.base \in Dirs \union {"*/"}
    BY <2>1, <2>4, CopyValue DEF Targets
  <2> HIDE DEF there
  <2>8. made \in Lines
    BY <2>6, <2>7, SourceLine DEF Lines
  <2>9. made.is = "source" /\ made.value = there
    BY <2>6
  <2> HIDE DEF made
  <2>10. Sheltered(made)
    BY <2>7, <2>9 DEF Sheltered
  <2> QED BY <2>8, <2>10 DEF made
<1>4. CASE ~Strips(line) /\ line.is \notin {"define", "source"}
  <2>1. made = line /\ line.is # "built"
    BY <1>4 DEF Sanitized, Refuses
  <2>2. line \in [is : {"exec", "plugin", "joined", "built", "bad", "plain", "blank"}]
    BY <1>4 DEF UserLines, LinesOf
  <2> QED BY <1>4, <2>1, <2>2 DEF Lines, LinesOf, Sheltered
<1> QED BY <1>1, <1>2, <1>3, <1>4

\* What a source matches are paths.
LEMMA MatchedPaths ==
    ASSUME NEW to, to.dir \in Dirs \union {"*/"}
    PROVE  Matched(to) \subseteq Paths
<1>1. Config \subseteq Dirs
  BY DirsAssumption
<1>2. DirsOf(to) \subseteq Dirs
  BY <1>1 DEF DirsOf
<1> QED BY <1>2 DEF Matched, Paths

\* What will be at a path is something that may be there.
LEMMA NowContents ==
    ASSUME TypeOK, NEW v \in Paths
    PROVE  Now(v) \in Contents
<1>1. CASE Real(v.dir) = {}
  BY <1>1 DEF Now, Contents
<1>2. CASE Real(v.dir) # {}
  <2> DEFINE d == CHOOSE x \in Real(v.dir) : TRUE
  <2>1. d \in Real(v.dir)
    BY <1>2
  <2>2. v.dir \in Dirs
    BY DEF Paths
  <2>3. Real(v.dir) \subseteq Dirs
    BY <2>2, DirsAssumption DEF Real, Range
  <2>4. [v EXCEPT !.dir = d] \in Paths
    BY <2>1, <2>3 DEF Paths
  <2>5. Now(v) = disk[[v EXCEPT !.dir = d]]
    BY <1>2 DEF Now
  <2> HIDE DEF d
  <2> QED BY <2>4, <2>5 DEF TypeOK
<1> QED BY <1>1, <1>2

\* The text of a file is lines of the user's.
LEMMA NowText ==
    ASSUME TypeOK, NEW v \in Paths, Now(v).is = "file"
    PROVE  Now(v) = File(Now(v).text) /\ Now(v).text \in Seq(UserLines)
BY NowContents DEF Contents, Nothing, Unfit, File

-----------------------------------------------------------------------------
(***************************************************************************)
(* The walk keeps its types, and every line it writes stays in the copy    *)
(***************************************************************************)

Frames == [v : Paths, text : Seq(UserLines), out : Seq(Lines), todo : SUBSET Paths]

\* The file being read is one.
LEMMA TopIs ==
    ASSUME TypeOK, pc = "walk"
    PROVE  /\ Len(stack) \in 1..Len(stack) /\ Top = stack[Len(stack)] /\ Top \in Frames
           /\ Len(Top.out) <= Len(Top.text) /\ stack \in Seq(Frames)
<1>1. stack \in Seq(Frames) /\ stack # <<>>
  BY DEF TypeOK, Frames
<1>2. Len(stack) \in 1..Len(stack)
  BY <1>1
<1> QED BY <1>1, <1>2 DEF TypeOK, Top

\* The line that is read next is one.
LEMMA LineIs ==
    ASSUME TypeOK, Reading
    PROVE  /\ Line \in UserLines /\ Top.v.dir \in Dirs
           /\ DOMAIN known \subseteq VarNames
           /\ \A x \in DOMAIN known : known[x] \in Values({"live"})
<1>1. Top \in Frames /\ Len(Top.out) < Len(Top.text)
  BY TopIs DEF Reading
<1>2. Len(Top.out) + 1 \in 1..Len(Top.text) /\ Top.v \in Paths
  BY <1>1 DEF Frames
<1>3. Top.text \in Seq(UserLines)
  BY <1>1 DEF Frames
<1> QED BY <1>2, <1>3 DEF Line, Paths, TypeOK

\* The next path of a source is one.
LEMMA VisitedIs ==
    ASSUME TypeOK, Visiting
    PROVE  Visited \in Top.todo /\ Visited \in Paths
<1>1. Top.todo \subseteq Paths
  BY TopIs DEF Visiting, Frames
<1>2. Visited \in Top.todo
  BY <1>1, FirstIn DEF Visiting, Visited, Paths
<1> QED BY <1>1, <1>2

\* What is written, of the walk and of the copy.
Written ==
    /\ \A i \in 1..Len(stack) : \A j \in 1..Len(stack[i].out) : Sheltered(stack[i].out[j])
    /\ \A v \in DOMAIN files : \A j \in 1..Len(files[v]) : Sheltered(files[v][j])
    /\ \A v \in DOMAIN scratch : v \in DOMAIN files /\ scratch[v] = files[v]
    /\ pc \in {"check", "walk"} => scratch = <<>>
    /\ pc = "verify" => Clean

Kept == TypeOK /\ Written

\* The file being read may become a frame that is one.
LEMMA WithTopKept ==
    ASSUME Kept, pc = "walk", NEW frame \in Frames, Len(frame.out) <= Len(frame.text),
           \A j \in 1..Len(frame.out) : Sheltered(frame.out[j]), stack' = WithTop(frame)
    PROVE  /\ stack' \in Seq(Frames) /\ stack' # <<>> /\ Len(stack') = Len(stack)
           /\ \A i \in 1..Len(stack') : /\ Len(stack'[i].out) <= Len(stack'[i].text)
                                        /\ \A j \in 1..Len(stack'[i].out) : Sheltered(stack'[i].out[j])
<1>1. stack \in Seq(Frames) /\ Len(stack) \in 1..Len(stack)
  BY TopIs DEF Kept
<1>2. stack' \in Seq(Frames) /\ Len(stack') = Len(stack)
      /\ \A i \in 1..Len(stack) : stack'[i] = IF i = Len(stack) THEN frame ELSE stack[i]
  BY <1>1 DEF WithTop
<1>3. stack' # <<>>
  BY <1>1, <1>2
<1>4. \A i \in 1..Len(stack) : /\ Len(stack[i].out) <= Len(stack[i].text)
                               /\ \A j \in 1..Len(stack[i].out) : Sheltered(stack[i].out[j])
  BY DEF Kept, TypeOK, Written
<1> QED BY <1>2, <1>3, <1>4

\* A step of the walk that changes nothing but the frames and the visits.
LEMMA WalkKept ==
    ASSUME Kept, pc = "walk", pc' = pc, stack' \in Seq(Frames), stack' # <<>>,
           \A i \in 1..Len(stack') : /\ Len(stack'[i].out) <= Len(stack'[i].text)
                                     /\ \A j \in 1..Len(stack'[i].out) : Sheltered(stack'[i].out[j]),
           visits' \in 0..MaxFiles, DOMAIN known' \subseteq VarNames,
           \A x \in DOMAIN known' : known'[x] \in Values({"live"}),
           UNCHANGED <<disk, edits, installed, files, owner, scratch, outcome>>
    PROVE  Kept'
<1>1. TypeOK'
  BY DEF Kept, TypeOK, Frames
<1>2. Written'
  BY DEF Kept, Written
<1> QED BY <1>1, <1>2 DEF Kept

\* Coming to a path keeps them.
LEMMA VisitedKept ==
    ASSUME Kept, VisitNothing \/ VisitFile
    PROVE  Kept'
<1>1. pc = "walk" /\ Visiting /\ ~TooMuch
  BY DEF VisitNothing, VisitFile, Visiting
<1>2. Top \in Frames /\ Visited \in Paths /\ Len(Top.out) <= Len(Top.text)
  BY <1>1, TopIs, VisitedIs DEF Kept
<1>3. CalledFor = [v |-> Top.v, text |-> Top.text, out |-> Top.out, todo |-> Top.todo \ {Visited}]
  <2>1. Top = [v |-> Top.v, text |-> Top.text, out |-> Top.out, todo |-> Top.todo]
    BY <1>2 DEF Frames
  <2> QED BY <2>1 DEF CalledFor
<1>4. CalledFor \in Frames /\ CalledFor.out = Top.out /\ CalledFor.text = Top.text
  BY <1>2, <1>3 DEF Frames
<1>5. \A j \in 1..Len(Top.out) : Sheltered(Top.out[j])
  BY <1>1, TopIs DEF Kept, Written
<1>6. visits' \in 0..MaxFiles
  BY <1>1, BoundsAssumption DEF VisitNothing, VisitFile, TooMuch, Kept, TypeOK
<1>7. CASE VisitNothing
  <2>1. stack' = WithTop(CalledFor) /\ UNCHANGED <<disk, edits, installed, pc, files, known, owner, scratch, outcome>>
    BY <1>7 DEF VisitNothing
  <2>2. /\ stack' \in Seq(Frames) /\ stack' # <<>>
        /\ \A i \in 1..Len(stack') : /\ Len(stack'[i].out) <= Len(stack'[i].text)
                                     /\ \A j \in 1..Len(stack'[i].out) : Sheltered(stack'[i].out[j])
    BY <1>1, <1>2, <1>4, <1>5, <2>1, WithTopKept
  <2>3. DOMAIN known' \subseteq VarNames /\ \A x \in DOMAIN known' : known'[x] \in Values({"live"})
    BY <2>1 DEF Kept, TypeOK
  <2> QED BY <1>1, <1>6, <2>1, <2>2, <2>3, WalkKept
<1>8. CASE VisitFile
  <2> DEFINE below == WithTop(CalledFor)
             frame == Frame(Visited, Now(Visited).text, {})
  <2>1. stack' = Append(below, frame) /\ UNCHANGED <<disk, edits, installed, pc, files, known, owner, scratch, outcome>>
    BY <1>8 DEF VisitFile
  <2>2. stack \in Seq(Frames) /\ Len(stack) \in 1..Len(stack)
    BY <1>1, TopIs DEF Kept
  <2>3. below \in Seq(Frames) /\ Len(below) = Len(stack)
        /\ \A i \in 1..Len(stack) : below[i] = IF i = Len(stack) THEN CalledFor ELSE stack[i]
    BY <1>4, <2>2 DEF WithTop
  <2>4. Now(Visited).text \in Seq(UserLines)
    BY <1>2, <1>8, NowText DEF VisitFile, Kept
  <2>5. frame \in Frames /\ frame.out = <<>>
    BY <1>2, <2>4 DEF Frame, Frames
  <2>6. \A i \in 1..Len(stack) : /\ Len(stack[i].out) <= Len(stack[i].text)
                                 /\ \A j \in 1..Len(stack[i].out) : Sheltered(stack[i].out[j])
    BY DEF Kept, TypeOK, Written
  <2>7. \A i \in 1..Len(below) : /\ Len(below[i].out) <= Len(below[i].text)
                                 /\ \A j \in 1..Len(below[i].out) : Sheltered(below[i].out[j])
    BY <1>2, <1>4, <1>5, <2>3, <2>6
  <2>8. Len(frame.out) <= Len(frame.text) /\ \A j \in 1..Len(frame.out) : Sheltered(frame.out[j])
    BY <2>5 DEF Frames
  <2> HIDE DEF below, frame
  <2>9. /\ stack' \in Seq(Frames) /\ stack' # <<>>
        /\ \A i \in 1..Len(stack') : /\ Len(stack'[i].out) <= Len(stack'[i].text)
                                     /\ \A j \in 1..Len(stack'[i].out) : Sheltered(stack'[i].out[j])
    BY <2>1, <2>3, <2>5, <2>7, <2>8
  <2>10. DOMAIN known' \subseteq VarNames /\ \A x \in DOMAIN known' : known'[x] \in Values({"live"})
    BY <2>1 DEF Kept, TypeOK
  <2> QED BY <1>1, <1>6, <2>1, <2>9, <2>10, WalkKept
<1> QED BY <1>7, <1>8

\* Taking a line, as it is sanitized.
LEMMA ReadKept ==
    ASSUME Kept, ReadLine
    PROVE  Kept'
<1>1. pc = "walk" /\ Reading /\ ~Refuses(Line, Top.v.dir, known)
  BY DEF ReadLine, Reading
<1>2. Top \in Frames /\ Len(Top.out) < Len(Top.text) /\ Line \in UserLines /\ Top.v.dir \in Dirs
  BY <1>1, TopIs, LineIs DEF Kept, Reading
<1>3. DOMAIN known \subseteq VarNames /\ \A x \in DOMAIN known : known[x] \in Values({"live"})
  BY DEF Kept, TypeOK
<1> DEFINE line == Sanitized(Line, Top.v.dir, known)
           todo == IF Line.is = "source" THEN Sourced ELSE {}
           frame == [Top EXCEPT !.out = Append(@, line), !.todo = todo]
<1>4. line \in Lines /\ Sheltered(line)
  BY <1>1, <1>2, <1>3, SanitizedLine
<1>5. todo \subseteq Paths
  <2>1. CASE Line.is = "source"
    <3>1. Line.value \in Values({"live"}) /\ Line.value.rest \in Names \union {"*"}
      BY <1>2, <2>1 DEF UserLines, LinesOf, Values
    <3>2. \A to \in Resolve(Line.value, Top.v.dir, known) : to \in Targets
      BY <1>2, <1>3, <3>1, Resolved
    <3>3. \A to \in Resolve(Line.value, Top.v.dir, known) : Matched(to) \subseteq Paths
      BY <3>2, MatchedPaths DEF Targets
    <3> QED BY <3>3 DEF Sourced
  <2> QED BY <2>1
<1>6. /\ stack' = WithTop(frame)
      /\ known' = IF Line.is = "define" THEN Define(Line, known) ELSE known
      /\ UNCHANGED <<disk, edits, installed, pc, files, visits, owner, scratch, outcome>>
  BY DEF ReadLine
<1>7. \A j \in 1..Len(Top.out) : Sheltered(Top.out[j])
  BY <1>1, TopIs DEF Kept, Written
<1> HIDE DEF line, todo
<1>8. Append(Top.out, line) \in Seq(Lines)
  BY <1>2, <1>4 DEF Frames
<1>9. frame \in Frames /\ frame.out = Append(Top.out, line) /\ frame.text = Top.text
  BY <1>2, <1>5, <1>8 DEF Frames
<1>10. Len(frame.out) <= Len(frame.text) /\ \A j \in 1..Len(frame.out) : Sheltered(frame.out[j])
  BY <1>2, <1>4, <1>7, <1>9 DEF Frames
<1> HIDE DEF frame
<1>11. /\ stack' \in Seq(Frames) /\ stack' # <<>>
       /\ \A i \in 1..Len(stack') : /\ Len(stack'[i].out) <= Len(stack'[i].text)
                                    /\ \A j \in 1..Len(stack'[i].out) : Sheltered(stack'[i].out[j])
  BY <1>1, <1>6, <1>9, <1>10, WithTopKept
<1>12. DOMAIN known' \subseteq VarNames /\ \A x \in DOMAIN known' : known'[x] \in Values({"live"})
  <2>1. CASE Line.is = "define"
    <3>1. Line.name \in VarNames /\ Line.value \in Values({"live"})
      BY <1>2, <2>1 DEF UserLines, LinesOf
    <3> QED BY <1>3, <1>6, <2>1, <3>1, Defined
  <2> QED BY <1>3, <1>6, <2>1
<1>13. visits' \in 0..MaxFiles
  BY <1>6 DEF Kept, TypeOK
<1> QED BY <1>1, <1>6, <1>11, <1>12, <1>13, WalkKept

\* Putting away the copy of a file that is all read.
LEMMA LeaveKept ==
    ASSUME Kept, LeaveFile
    PROVE  Kept'
<1>1. Top \in Frames /\ stack \in Seq(Frames) /\ Len(stack) > 1 /\ pc = "walk"
  BY TopIs DEF LeaveFile, AllRead, Kept
<1>2. stack' = Front(stack) /\ files' = Insert(files, Top.v, Top.out)
      /\ UNCHANGED <<disk, edits, installed, pc, visits, known, owner, scratch, outcome>>
  BY DEF LeaveFile
<1>3. /\ stack' \in Seq(Frames) /\ Len(stack') = Len(stack) - 1 /\ stack' # <<>>
      /\ \A i \in 1..Len(stack') : i \in 1..Len(stack) /\ stack'[i] = stack[i]
  <2>1. stack' \in Seq(Frames) /\ Len(stack') = Len(stack) - 1
        /\ \A i \in 1..Len(stack') : stack'[i] = stack[i]
    BY <1>1, <1>2, FrontIs
  <2>2. Len(stack) \in Nat
    BY <1>1
  <2> QED BY <1>1, <2>1, <2>2
<1>4. /\ DOMAIN files' = DOMAIN files \union {Top.v}
      /\ \A v \in DOMAIN files' : files'[v] = IF v = Top.v THEN Top.out ELSE files[v]
  BY <1>2 DEF Insert
<1>5. Top.v \in Paths /\ Top.out \in Seq(Lines)
  BY <1>1 DEF Frames
<1>6. \A j \in 1..Len(Top.out) : Sheltered(Top.out[j])
  BY <1>1, TopIs DEF Kept, Written
<1>7. TypeOK'
  <2>1. \A i \in 1..Len(stack') : Len(stack'[i].out) <= Len(stack'[i].text)
    BY <1>3 DEF Kept, TypeOK
  <2>2. DOMAIN files' \subseteq Paths /\ \A v \in DOMAIN files' : files'[v] \in Seq(Lines)
    BY <1>4, <1>5 DEF Kept, TypeOK
  <2>3. DOMAIN scratch' \subseteq DOMAIN files'
    BY <1>2, <1>4 DEF Kept, TypeOK
  <2> QED BY <1>2, <1>3, <2>1, <2>2, <2>3 DEF Kept, TypeOK, Frames
<1>8. Written'
  <2>1. \A i \in 1..Len(stack') : \A j \in 1..Len(stack'[i].out) : Sheltered(stack'[i].out[j])
    BY <1>3 DEF Kept, Written
  <2>2. \A v \in DOMAIN files' : \A j \in 1..Len(files'[v]) : Sheltered(files'[v][j])
    BY <1>4, <1>6 DEF Kept, Written
  <2>3. scratch' = <<>> /\ DOMAIN scratch' = {}
    BY <1>1, <1>2 DEF Kept, Written
  <2> QED BY <1>1, <1>2, <2>1, <2>2, <2>3 DEF Written
<1> QED BY <1>7, <1>8 DEF Kept

\* Writing one copy.
LEMMA WriteKept ==
    ASSUME Kept, WriteCopy
    PROVE  Kept'
<1> DEFINE v == First(DOMAIN files \ DOMAIN scratch)
<1>1. /\ scratch' = Insert(scratch, v, files[v]) /\ pc = "write"
      /\ UNCHANGED <<disk, edits, installed, pc, stack, files, visits, known, owner, outcome>>
  BY DEF WriteCopy, walk
<1>2. v \in DOMAIN files
  <2>1. DOMAIN files \ DOMAIN scratch # {} /\ DOMAIN files \subseteq Paths
    BY DEF WriteCopy, Kept, TypeOK
  <2>2. \A p \in DOMAIN files \ DOMAIN scratch : p.dir \in Dirs /\ p.name \in Names
    BY <2>1 DEF Paths
  <2> QED BY <2>1, <2>2, FirstIn
<1> HIDE DEF v
<1>3. /\ DOMAIN scratch' = DOMAIN scratch \union {v}
      /\ \A u \in DOMAIN scratch' : scratch'[u] = IF u = v THEN files[v] ELSE scratch[u]
  BY <1>1 DEF Insert
<1>4. TypeOK'
  BY <1>1, <1>2, <1>3 DEF Kept, TypeOK
<1>5. Written'
  BY <1>1, <1>2, <1>3 DEF Kept, Written
<1> QED BY <1>4, <1>5 DEF Kept

\* An edit of a real path.
LEMMA EditKept ==
    ASSUME Kept, NEW p \in DOMAIN Edits, Edit(p)
    PROVE  Kept'
<1>1. PICK c \in Edits[p] : disk' = [disk EXCEPT ![p] = c]
  BY DEF Edit
<1>2. c \in Contents /\ p \in Paths
  BY DisksAssumption
<1>3. DOMAIN disk' = Paths /\ \A q \in Paths : disk'[q] \in Contents
  BY <1>1, <1>2 DEF Kept, TypeOK
<1>4. edits' \in 0..MaxEdits /\ UNCHANGED <<installed, pc, stack, files, visits, known, owner, scratch, outcome>>
  BY BoundsAssumption DEF Edit, walk, Kept, TypeOK
<1>5. TypeOK'
  BY <1>3, <1>4 DEF Kept, TypeOK
<1>6. Written'
  BY <1>4 DEF Kept, Written, Clean, Outside
<1> QED BY <1>5, <1>6 DEF Kept

\* The steps that touch neither what is read nor what is written.
LEMMA RestKept ==
    ASSUME Kept,
           \/ NothingToCheck \/ IsLua \/ NoHyprland \/ VisitRefuses \/ LineRefuses \/ LeaveRefuses
           \/ Make \/ PostCheck \/ Verify \/ TakeName
    PROVE  Kept'
<1>1. UNCHANGED <<disk, edits, installed, stack, files, visits, known, scratch>>
  BY DEF NothingToCheck, IsLua, NoHyprland, CheckEnds, VisitRefuses, LineRefuses, LeaveRefuses,
         Unsandboxable, Make, PostCheck, Verify, TakeName, walk
<1>2. /\ pc' \in {"write", "verify", "done"} \/ pc' = pc
      /\ owner' \in {"none", "me", "other"} /\ outcome' \in Outcomes
      /\ pc' = "verify" => Clean /\ pc = "write"
      /\ pc = "verify" => pc' = "done" \/ pc' = "verify"
  BY DEF NothingToCheck, IsLua, NoHyprland, CheckEnds, VisitRefuses, LineRefuses, LeaveRefuses,
         Unsandboxable, Ends, Make, PostCheck, Verify, TakeName, Outcomes, Kept, TypeOK
<1>3. TypeOK'
  BY <1>1, <1>2 DEF Kept, TypeOK
<1>4. Written'
  BY <1>1, <1>2 DEF Kept, Written, Clean, Outside
<1> QED BY <1>3, <1>4 DEF Kept

\* The walk begins, and ends.
LEMMA BuildKept ==
    ASSUME Kept, Build \/ LeaveWalk
    PROVE  Kept'
<1>1. CASE Build
  <2> DEFINE frame == [v |-> EntryFile, text |-> <<>>, out |-> <<>>, todo |-> {EntryFile}]
  <2>1. EntryFile \in Paths
    BY EntryAssumption, DirsAssumption DEF EntryFile, Paths
  <2>2. stack' = <<frame>>
    BY <1>1 DEF Build, Frame
  <2>3. frame \in Frames /\ frame.out = <<>> /\ frame.text = <<>>
    BY <2>1 DEF Frames
  <2> HIDE DEF frame
  <2>4. stack' \in Seq(Frames) /\ Len(stack') = 1 /\ stack' # <<>> /\ stack'[1] = frame
    BY <2>2, <2>3
  <2>5. UNCHANGED <<disk, edits, installed, files, visits, known, owner, scratch, outcome>>
        /\ pc' = "walk" /\ pc = "check"
    BY <1>1 DEF Build
  <2>6. TypeOK'
    BY <2>3, <2>4, <2>5 DEF Kept, TypeOK, Frames
  <2>7. Written'
    BY <2>3, <2>4, <2>5 DEF Kept, Written
  <2> QED BY <2>6, <2>7 DEF Kept
<1>2. CASE LeaveWalk
  <2>1. /\ stack' = <<>> /\ visits' = 0 /\ known' = <<>> /\ pc' = "make" /\ pc = "walk"
        /\ UNCHANGED <<disk, edits, installed, files, owner, scratch, outcome>>
    BY <1>2 DEF LeaveWalk, AllRead
  <2>2. TypeOK'
    BY <2>1, BoundsAssumption DEF Kept, TypeOK
  <2>3. Written'
    BY <2>1 DEF Kept, Written
  <2> QED BY <2>2, <2>3 DEF Kept
<1> QED BY <1>1, <1>2

\* The invariant of every step: the types, and that whatever was written so far
\* was sheltered first (sandbox.rs: sanitize, post_check).
THEOREM KeptAlways == Spec => []Kept
<1>1. Init => Kept
  <2> SUFFICES ASSUME Init PROVE Kept
    OBVIOUS
  <2>1. TypeOK
    BY DisksAssumption, BoundsAssumption DEF Init, TypeOK, Outcomes
  <2>2. Written
    BY DEF Init, Written
  <2> QED BY <2>1, <2>2 DEF Kept
<1>2. Kept /\ [Next]_vars => Kept'
  <2> SUFFICES ASSUME Kept, [Next]_vars PROVE Kept'
    OBVIOUS
  <2>1. CASE UNCHANGED vars
    <3>1. UNCHANGED <<disk, edits, installed, pc, stack, files, visits, known, owner, scratch, outcome>>
      BY <2>1 DEF vars, walk
    <3> QED BY <3>1 DEF Kept, TypeOK, Written, Clean, Outside
  <2>2. CASE Next
    BY <2>2, VisitedKept, ReadKept, LeaveKept, WriteKept, EditKept, RestKept, BuildKept DEF Next
  <2> QED BY <2>1, <2>2
<1> QED BY <1>1, <1>2, PTL DEF Spec

-----------------------------------------------------------------------------
(***************************************************************************)
(* What Hyprland is given                                                  *)
(***************************************************************************)

\* A line of a copy that the last look let through.
CopyLines ==
    {line \in Lines : /\ line # Continues /\ ~Strips(line) /\ ~Outside(line)
                      /\ Sheltered(line)}

InCopy == {p \in Reached : p.at = "copy"}
CopyFiles == [path : InCopy, text : Seq(CopyLines), line : Nat, todo : SUBSET InCopy]

\* Where a source of the copy may lead.
CopyPaths == [at : {"copy"}, base : Dirs \union {"*/"}, rest : Names \union {"*"}]

IsReader(r) ==
    r = [open |-> r.open, vars |-> r.vars, seen |-> r.seen, told |-> r.told, visits |-> r.visits]

\* A reading that has seen nothing but the copy.
CopyReader(r) ==
    /\ IsReader(r)
    /\ r.open \in Seq(CopyFiles)
    /\ DOMAIN r.vars \subseteq VarNames
    /\ \A x \in DOMAIN r.vars : r.vars[x] \in Values(Ats) /\ Inside(r.vars[x])
    /\ \A e \in r.seen : e.inside /\ e.what \notin {"exec", "plugin", "joined", "built"}

CopyTexts(tree) ==
    \A v \in Paths : tree["copy"][v] \in {Nothing} \union [is : {"file"}, text : Seq(CopyLines)]

\* The copy is made of such lines.
LEMMA CopyIsClean ==
    ASSUME Kept, pc = "verify"
    PROVE  CopyTexts(CopyTree)
<1> SUFFICES ASSUME NEW v \in Paths
             PROVE  CopyTree["copy"][v] \in {Nothing} \union [is : {"file"}, text : Seq(CopyLines)]
  BY DEF CopyTexts
<1>1. CopyTree["copy"][v] = IF v \in DOMAIN scratch THEN File(scratch[v]) ELSE Nothing
  BY DEF CopyTree, LiveTree, LiveOf, Ats
<1>2. ASSUME v \in DOMAIN scratch PROVE scratch[v] \in Seq(CopyLines)
  <2>1. scratch[v] = files[v] /\ v \in DOMAIN files /\ scratch[v] \in Seq(Lines)
    BY <1>2 DEF Kept, Written, TypeOK
  <2>2. ASSUME NEW j \in 1..Len(scratch[v]) PROVE scratch[v][j] \in CopyLines
    <3>1. scratch[v][j] \in Lines /\ Sheltered(scratch[v][j])
      BY <2>1, <2>2 DEF Kept, Written
    <3>2. Clean
      BY DEF Kept, Written
    <3>3. scratch[v][j] # Continues /\ ~Strips(scratch[v][j]) /\ ~Outside(scratch[v][j])
      BY <1>2, <2>2, <3>2 DEF Clean
    <3> QED BY <3>1, <3>3 DEF CopyLines
  <2> QED BY <2>1, <2>2
<1> QED BY <1>1, <1>2 DEF File

\* What a source of the copy leads to is in the copy.
LEMMA CopyLeads ==
    ASSUME NEW tree, NEW value \in CopyPaths,
           NEW p \in InCopy, NEW variables, DOMAIN variables \subseteq VarNames,
           \A x \in DOMAIN variables : variables[x] \in Values(Ats)
    PROVE  Leads(tree, value, p, variables) \subseteq InCopy
<1>1. /\ value.base \notin VarNames /\ value.base \notin {"~", "here"}
      /\ value \in Values(Ats) /\ value.at = "copy"
  BY WordsAssumption DEF CopyPaths, Values, Ats, Bases
<1>2. Expand(value, variables) = value
  BY <1>1, Expanded
<1>3. DirsNamed(tree, value, p, variables) \subseteq Dirs
  BY <1>1, <1>2, DirsAssumption DEF DirsNamed, ConfigDirs
<1> DEFINE named == [at : {IF value.base \in {"~", "here"} THEN p.at ELSE value.at},
                     dir : DirsNamed(tree, value, p, variables),
                     name : IF value.rest = "*" THEN Names \ Hidden ELSE {value.rest} \intersect Names,
                     globbed : {value.base = "*/" \/ value.rest = "*"}]
<1>4. Leads(tree, value, p, variables) \subseteq named
  BY <1>2 DEF Leads
<1>5. named \subseteq InCopy
  BY <1>1, <1>3 DEF InCopy, Reached, Ats
<1> QED BY <1>4, <1>5

\* A reader of the copy stays in it when it comes to a path.
LEMMA CopyVisit ==
    ASSUME NEW tree, CopyTexts(tree), NEW r, CopyReader(r), ~Finished(r), Innermost(r).todo # {}
    PROVE  CopyReader(Visit(tree, r))
<1> DEFINE f == Innermost(r)
           p == First(f.todo)
           event == VisitEvent(tree, r)
           next == [f EXCEPT !.todo = @ \ {p}]
           rest == WithInnermost(r, next)
<1>1. Len(r.open) \in 1..Len(r.open) /\ f \in CopyFiles
  BY DEF CopyReader, Finished, Innermost
<1>2. p \in InCopy
  <2>1. f.todo \subseteq InCopy
    BY <1>1 DEF CopyFiles
  <2> QED BY <2>1, FirstIn DEF InCopy, Reached
<1>3. rest \in Seq(CopyFiles)
  <2>1. next \in CopyFiles
    BY <1>1 DEF CopyFiles
  <2> HIDE DEF next
  <2> QED BY <1>1, <2>1 DEF WithInnermost, CopyReader
<1>4. There(tree, p) \in {Nothing} \union [is : {"file"}, text : Seq(CopyLines)]
  <2>1. Place(p) \in Paths
    BY <1>2 DEF InCopy, Reached, Place, Paths
  <2> QED BY <1>2, <2>1 DEF CopyTexts, There, InCopy
<1>5. event.inside /\ event.what \notin {"exec", "plugin", "joined", "built"}
  <2>1. There(tree, p).is \in {"none", "file"}
    BY <1>4 DEF Nothing
  <2> DEFINE what == IF Called(p) \in {Called(r.open[i].path) : i \in 2..Len(r.open)} THEN "cycle"
                     ELSE IF There(tree, p) = Nothing /\ p.globbed THEN "unmatched"
                     ELSE There(tree, p).is
  <2>2. event = [Event(p, 0, what) EXCEPT !.deep = Len(r.open) - 1]
    BY DEF VisitEvent
  <2>3. what \in {"cycle", "unmatched", "none", "file"}
    BY <2>1
  <2> HIDE DEF what, event
  <2>4. event.what = what /\ event.inside = (p.at = "copy")
    BY <2>2 DEF Event
  <2> QED BY <1>2, <2>3, <2>4 DEF InCopy
<1>6. event.what = "file" => There(tree, p).text \in Seq(CopyLines)
  BY <1>4 DEF VisitEvent, Event, Nothing
<1> DEFINE open == IF event.what = "file" THEN Append(rest, Opened(p, There(tree, p).text, {})) ELSE rest
<1>7. open \in Seq(CopyFiles)
  <2>1. event.what = "file" => Opened(p, There(tree, p).text, {}) \in CopyFiles
    BY <1>2, <1>6 DEF Opened, CopyFiles
  <2> QED BY <1>3, <2>1
<1>8. Visit(tree, r) = [r EXCEPT !.open = open, !.seen = @ \union {event},
                                 !.told = Tell(@, event), !.visits = @ + 1]
  BY DEF Visit
<1> HIDE DEF open, event
<1>9. IsReader(r)
  BY DEF CopyReader
<1>10. Visit(tree, r) = [open |-> open, vars |-> r.vars, seen |-> r.seen \union {event},
                         told |-> Tell(r.told, event), visits |-> r.visits + 1]
  BY <1>8, <1>9 DEF IsReader
<1> QED BY <1>5, <1>7, <1>10 DEF CopyReader, IsReader

\* And when it reads a line.
LEMMA CopyRead ==
    ASSUME NEW tree, CopyTexts(tree), NEW r, CopyReader(r), ~Finished(r),
           Innermost(r).line < Len(Innermost(r).text)
    PROVE  CopyReader(ReadNext(tree, r))
<1> DEFINE f == Innermost(r)
           line == f.text[f.line + 1]
           event == LineEvent(tree, r)
           leads == IF event.what = "source" THEN Leads(tree, line.value, f.path, r.vars) ELSE {}
           next == Further(f, leads)
           open == WithInnermost(r, next)
           variables == IF line.is = "define" THEN Define(line, r.vars) ELSE r.vars
<1>1. Len(r.open) \in 1..Len(r.open) /\ f \in CopyFiles
  BY DEF CopyReader, Finished, Innermost
<1>2. line \in CopyLines
  <2>1. f.text \in Seq(CopyLines) /\ f.line + 1 \in 1..Len(f.text)
    BY <1>1 DEF CopyFiles
  <2> QED BY <2>1
<1>3. f.path \in InCopy
  BY <1>1 DEF CopyFiles
<1>4. /\ line \in Lines /\ line.is \notin {"exec", "plugin", "joined", "built"}
      /\ line.is = "define" => Inside(line.value)
      /\ line.is = "source" => line.value.at = "copy" /\ line.value.base \in Dirs \union {"*/"}
  <2>1. line \in Lines /\ line # Continues /\ ~Strips(line) /\ ~Outside(line) /\ Sheltered(line)
    BY <1>2 DEF CopyLines
  <2> HIDE DEF line
  <2>2. line.is # "joined"
    BY <2>1 DEF Lines, LinesOf, Continues
  <2> QED BY <2>1, <2>2 DEF Strips, Outside, Sheltered
<1>5. /\ line.is = "define" => line.name \in VarNames /\ line.value \in Values(Ats)
      /\ line.is = "source" => line.value \in Values(Ats) /\ line.value.rest \in Names \union {"*"}
  <2> HIDE DEF line
  <2> QED BY <1>4 DEF Lines, LinesOf, Ats, Values
<1>6. /\ DOMAIN r.vars \subseteq VarNames
      /\ \A x \in DOMAIN r.vars : r.vars[x] \in Values(Ats) /\ Inside(r.vars[x])
  BY DEF CopyReader
<1>7. line.is = "define" => Inside(Expand(line.value, r.vars))
  <2> HIDE DEF line
  <2> SUFFICES ASSUME line.is = "define" PROVE Inside(Expand(line.value, r.vars))
    OBVIOUS
  <2>1. CASE line.value.base \in DOMAIN r.vars
    <3> DEFINE kept == r.vars[line.value.base]
    <3>1. kept \in Values(Ats) /\ Inside(kept)
      BY <1>6, <2>1
    <3>2. Expand(line.value, r.vars) = [kept EXCEPT !.rest = IF line.value.rest = "" THEN @ ELSE line.value.rest]
      BY <2>1 DEF Expand
    <3>3. Expand(line.value, r.vars).at = kept.at /\ Expand(line.value, r.vars).base = kept.base
      BY <3>1, <3>2 DEF Values
    <3> QED BY <3>1, <3>3 DEF Inside
  <2>2. CASE line.value.base \notin DOMAIN r.vars
    BY <1>4, <2>2 DEF Expand
  <2> QED BY <2>1, <2>2
<1>8. /\ event.inside /\ event.what \notin {"exec", "plugin", "joined", "built"}
      /\ event.what = "source" => line.is = "source"
  <2> DEFINE plain == Event(f.path, f.line + 1, line.is)
  <2>1. plain.inside /\ plain.what = line.is
    BY <1>3 DEF Event, InCopy
  <2>2. CASE line.is = "define"
    <3>1. event = [plain EXCEPT !.inside = @ /\ Inside(Expand(line.value, r.vars))]
      BY <2>2 DEF LineEvent
    <3>2. event.inside /\ event.what = line.is
      BY <1>7, <2>1, <2>2, <3>1 DEF Event
    <3> QED BY <1>4, <3>2
  <2>3. CASE line.is # "define" /\ line.is # "source"
    <3>1. event = plain
      BY <2>3 DEF LineEvent
    <3> QED BY <1>4, <2>1, <3>1
  <2>4. CASE line.is = "source"
    <3>1. event.inside /\ event.what \in {"source", "meaningless"}
      BY <2>1, <2>4 DEF LineEvent, Event
    <3> QED BY <2>4, <3>1
  <2> QED BY <2>2, <2>3, <2>4
<1>9. leads \subseteq InCopy
  <2>1. ASSUME event.what = "source" PROVE Leads(tree, line.value, f.path, r.vars) \subseteq InCopy
    <3>1. line.value \in CopyPaths
      BY <1>4, <1>5, <1>8, <2>1 DEF CopyPaths, Values
    <3>2. \A x \in DOMAIN r.vars : r.vars[x] \in Values(Ats)
      BY <1>6
    <3> HIDE DEF line, f
    <3> QED BY <1>3, <1>6, <3>1, <3>2, CopyLeads
  <2> QED BY <2>1
<1>10. open \in Seq(CopyFiles)
  <2> HIDE DEF leads
  <2>1. f.line + 1 \in Nat
    BY <1>1 DEF CopyFiles
  <2>2. next \in CopyFiles
    BY <1>1, <1>9, <2>1 DEF CopyFiles, Further
  <2> HIDE DEF next
  <2> QED BY <1>1, <2>2 DEF WithInnermost, CopyReader
<1>11. DOMAIN variables \subseteq VarNames
       /\ \A x \in DOMAIN variables : variables[x] \in Values(Ats) /\ Inside(variables[x])
  <2> HIDE DEF line
  <2>1. CASE line.is = "define"
    <3>1. variables = Define(line, r.vars)
      BY <2>1
    <3> HIDE DEF variables
    <3> QED BY <1>5, <1>6, <1>7, <2>1, <3>1, Defined
  <2>2. CASE line.is # "define"
    BY <1>6, <2>2
  <2> QED BY <2>1, <2>2
<1>12. ReadNext(tree, r) = [r EXCEPT !.open = open, !.vars = variables, !.seen = @ \union {event},
                                     !.told = Tell(@, event)]
  BY DEF ReadNext
<1> HIDE DEF open, variables, event
<1>13. IsReader(r)
  BY DEF CopyReader
<1>14. ReadNext(tree, r) = [open |-> open, vars |-> variables, seen |-> r.seen \union {event},
                            told |-> Tell(r.told, event), visits |-> r.visits]
  BY <1>12, <1>13 DEF IsReader
<1>15. \A e \in r.seen \union {event} :
         e.inside /\ e.what \notin {"exec", "plugin", "joined", "built"}
  BY <1>8 DEF CopyReader
<1>16. IsReader(ReadNext(tree, r))
  BY <1>14 DEF IsReader
<1> QED BY <1>10, <1>11, <1>14, <1>15, <1>16 DEF CopyReader

\* And so at every step.
LEMMA CopyStep ==
    ASSUME NEW tree, CopyTexts(tree), NEW r, CopyReader(r)
    PROVE  CopyReader(Step(tree, r))
<1>1. ASSUME ~Finished(r) PROVE CopyReader(Close(r))
  <2>1. r.open \in Seq(CopyFiles) /\ Len(r.open) > 0
    BY <1>1 DEF CopyReader, Finished
  <2>2. Front(r.open) \in Seq(CopyFiles)
    BY <2>1, FrontIs
  <2>3. IsReader(r)
    BY DEF CopyReader
  <2>4. Close(r) = [open |-> Front(r.open), vars |-> r.vars, seen |-> r.seen, told |-> r.told,
                    visits |-> r.visits]
    BY <2>3 DEF Close, IsReader
  <2> QED BY <2>2, <2>4 DEF CopyReader, IsReader
<1> QED BY <1>1, CopyVisit, CopyRead DEF Step

\* Nothing leaves the copy: whatever the configs say, whatever is edited while
\* the copy is made and however far Hyprland is followed, it reads only files
\* of the copy, in which nothing runs a process or could be joined or expanded
\* into what does, and no variable leads out of it.
THEOREM NothingLeaves == Spec => []NothingLeavesTheCopy
<1>1. Kept => NothingLeavesTheCopy
  <2> SUFFICES ASSUME Kept, pc = "verify"
               PROVE  \A e \in CopyReading.seen :
                        e.inside /\ e.what \notin {"exec", "plugin", "joined", "built"}
    BY DEF NothingLeavesTheCopy
  <2> DEFINE p == EntryAt("copy")
             tree == CopyTree
             S == {n \in Nat : n <= MaxReads => CopyReader(Run(tree, p)[n])}
  <2>1. CopyTexts(tree)
    BY CopyIsClean
  <2>2. CopyReader(Begin(p))
    <3>1. p \in InCopy
      BY EntryAssumption, DirsAssumption DEF EntryAt, InCopy, Reached, Ats
    <3>2. Opened(p, <<>>, {p}) \in CopyFiles
      BY <3>1 DEF Opened, CopyFiles
    <3> HIDE DEF p
    <3> QED BY <3>2 DEF Begin, CopyReader, IsReader
  <2> HIDE DEF p, tree
  <2>3. 0 \in S
    BY <2>2, RunIsRun
  <2>4. ASSUME NEW n \in Nat, n \in S PROVE n + 1 \in S
    BY <2>1, <2>4, RunIsRun, CopyStep, ReadsAssumption
  <2>5. Nat \subseteq S
    <3> HIDE DEF S
    <3> QED BY <2>3, <2>4, SetInduction
  <2>6. CopyReader(CopyReading)
    BY <2>5, ReadsAssumption DEF CopyReading, ReadingOf, p, tree
  <2> QED BY <2>6 DEF CopyReader
<1> QED BY <1>1, KeptAlways, PTL

-----------------------------------------------------------------------------
(***************************************************************************)
(* The walk, and the reading of the config it stands for                   *)
(***************************************************************************)

LiveReached == {p \in Reached : p.at = "live"}
LiveFiles == [path : LiveReached, text : Seq(UserLines), line : Nat, todo : SUBSET LiveReached]

\* Paths of one source: First takes them in the order of the names they will have.
Uniform(S) ==
    /\ \A p, q \in S : p.at = q.at /\ p.globbed = q.globbed
    /\ \/ \A p, q \in S : p.dir = q.dir
       \/ \A p \in S : p.dir \notin Range(Links)

CalledAll(S) == {Called(p) : p \in S}

\* What a source matches on disk d, when every destination is a directory already.
DirsTo(to) == IF to.dir = "*/" THEN Config ELSE {to.dir}
Matches(d, to) ==
    IF to.rest = "*"
    THEN {p \in [dir : DirsTo(to), name : Names] : p.name \notin Hidden /\ After(d, p) # Nothing}
    ELSE [dir : DirsTo(to), name : {to.rest} \intersect Names]

\* A file of the reading, and the same in the walk.
SameFile(f, s) ==
    /\ Called(f.path) = s.v /\ f.text = s.text /\ f.line = Len(s.out)
    /\ CalledAll(f.todo) = s.todo /\ Uniform(f.todo)

\* The reading r is where the walk is.
Followed(d, r, st, kn, vi) ==
    /\ IsReader(r) /\ r.open \in Seq(LiveFiles) /\ Len(r.open) = Len(st)
    /\ r.vars = kn /\ r.visits = vi
    /\ \A i \in 1..Len(st) : SameFile(r.open[i], st[i])
    /\ st # <<>> => st[1].text = <<>>
    /\ \A i \in 2..Len(st) : /\ After(d, st[i].v) = File(st[i].text)
                             /\ \A j \in 1..Len(st[i].text) : st[i].text[j] # Continues

\* The line sanitize makes of a source that leads to to.
Sourcing(to) == [is |-> "source", value |-> [at |-> "copy", base |-> to.dir, rest |-> to.rest]]

\* The copies there are, of files read and of files being read.
CopyOf(v, out) == [v |-> v, out |-> out]
Copies(st, fs) ==
    {CopyOf(v, fs[v]) : v \in DOMAIN fs} \union {CopyOf(st[i].v, st[i].out) : i \in 2..Len(st)}

\* Every source that was read stands in a copy.
Recorded(seen, copies) ==
    \A e \in seen : e.what = "source" =>
        \E c \in copies, to \in Targets :
            /\ e.to = {to} /\ c.v = e.file /\ e.line \in 1..Len(c.out)
            /\ c.out[e.line] = Sourcing(to)

\* A copy shows its file line by line, and a source in it was read.
ShownLine(seen, c, j, line) ==
    IF line.is = "source"
    THEN \E to \in Targets :
            /\ to.dir \notin Range(Links) /\ c.out[j] = Sourcing(to)
            /\ \E e \in seen : e.what = "source" /\ e.file = c.v /\ e.line = j /\ e.to = {to}
    ELSE c.out[j] = Sanitized(line, c.v.dir, <<>>)

ShownCopy(d, seen, c) ==
    /\ c.v \in Paths /\ c.out \in Seq(Lines)
    /\ After(d, c.v) \in [is : {"file"}, text : Seq(UserLines)]
    /\ Len(c.out) <= Len(After(d, c.v).text)
    /\ \A j \in 1..Len(c.out) : ShownLine(seen, c, j, After(d, c.v).text[j])

Shown(d, seen, copies) == \A c \in copies : ShownCopy(d, seen, c)

\* A path that is read, is being read, will be, or is nothing.
Handled(d, st, fs, q) ==
    \/ q \in DOMAIN fs \/ After(d, q) = Nothing
    \/ \E i \in 2..Len(st) : st[i].v = q
    \/ \E i \in 1..Len(st) : q \in st[i].todo

\* So is every path that a copy names.
ClosedLine(d, st, fs, line) ==
    \A to \in Targets : line = Sourcing(to) => \A q \in Matches(d, to) : Handled(d, st, fs, q)

Closed(d, st, fs) ==
    /\ Handled(d, st, fs, EntryFile)
    /\ \A c \in Copies(st, fs) : \A j \in 1..Len(c.out) : ClosedLine(d, st, fs, c.out[j])

\* Nothing seen so far is to be objected to.
UnobjectedEvent(e) ==
    /\ e.what \notin {"cycle", "unfit", "joined", "built", "meaningless"}
    /\ ~(e.deep >= MaxDepth)
    /\ ~(Cardinality(e.among) > MaxFiles) /\ ~(Cardinality(e.matched) > MaxFiles)

Unobjected(r) ==
    /\ \A e \in r.seen : UnobjectedEvent(e)
    /\ ~(r.visits > MaxFiles)

Copied(d, r, st, fs) ==
    /\ Unobjected(r)
    /\ Recorded(r.seen, Copies(st, fs))
    /\ Shown(d, r.seen, Copies(st, fs))
    /\ Closed(d, st, fs)
    /\ \A v \in DOMAIN fs : Len(fs[v]) = Len(After(d, v).text)

LiveRun(d) == Run(LiveOf(d), EntryAt("live"))

\* Nothing was edited, and the reading comes to its end.
Settled == edits = 0 /\ Finished(LiveReading)

\* The walk is at step n of the reading, and a copy is made of all of it so far.
Walking(n) ==
    /\ n \in 0..MaxReads
    /\ Followed(disk, LiveRun(disk)[n], stack, known, visits)
    /\ Copied(disk, LiveRun(disk)[n], stack, files)

Walked ==
    Settled =>
        /\ pc = "check" => known = <<>> /\ visits = 0 /\ files = <<>>
        /\ pc = "walk" => \E n : Walking(n)
        /\ pc \in {"make", "write", "verify"} => Copied(disk, LiveReading, <<>>, files)
        /\ outcome \in {"parsed", "not parsed"} => ~Objectionable(LiveReading)
        /\ outcome = "unsandboxable" => Objectionable(LiveReading)
        /\ outcome # "none" => pc = "done"
        /\ pc \in {"walk", "make", "write", "verify"} =>
             Entry \in DOMAIN Links /\ disk[[dir |-> Links[Entry], name |-> Lua]] = Nothing
        /\ pc = "verify" => DOMAIN scratch = DOMAIN files

-----------------------------------------------------------------------------
(***************************************************************************)
(* The order of the paths of a source                                      *)
(***************************************************************************)

DirIndexes(S) == {i \in DOMAIN DirOrder : \E p \in S : p.dir = DirOrder[i]}
NameIndexes(S) == {j \in DOMAIN NameOrder : \E p \in S : p.name = NameOrder[j]}
FirstDir(S) == {p \in S : p.dir = DirOrder[Min(DirIndexes(S))]}

\* The first path is in the first directory, and has the first name of it.
LEMMA FirstIs ==
    ASSUME NEW S, S # {}, \A p \in S : p.dir \in Dirs /\ p.name \in Names
    PROVE  /\ First(S) \in S
           /\ DirIndexes(S) # {} /\ DirIndexes(S) \subseteq Nat
           /\ First(S).dir = DirOrder[Min(DirIndexes(S))]
           /\ NameIndexes(FirstDir(S)) # {} /\ NameIndexes(FirstDir(S)) \subseteq Nat
           /\ First(S).name = NameOrder[Min(NameIndexes(FirstDir(S)))]
<1>1. DOMAIN DirOrder \subseteq Nat /\ DOMAIN NameOrder \subseteq Nat
  <2>1. DirOrder \in Seq(Dirs) /\ NameOrder \in Seq(Names)
    BY WordsAssumption
  <2> QED BY <2>1
<1>2. DirIndexes(S) # {} /\ DirIndexes(S) \subseteq Nat
  BY <1>1 DEF DirIndexes, Dirs, Range
<1>3. Min(DirIndexes(S)) \in DirIndexes(S)
  BY <1>2, MinIs
<1>4. FirstDir(S) # {} /\ FirstDir(S) \subseteq S
  BY <1>3 DEF FirstDir, DirIndexes
<1>5. NameIndexes(FirstDir(S)) # {} /\ NameIndexes(FirstDir(S)) \subseteq Nat
  BY <1>1, <1>4 DEF NameIndexes, Names, Range
<1>6. Min(NameIndexes(FirstDir(S))) \in NameIndexes(FirstDir(S))
  BY <1>5, MinIs
<1>7. \E p \in FirstDir(S) : p.name = NameOrder[Min(NameIndexes(FirstDir(S)))]
  BY <1>6 DEF NameIndexes
<1>8. First(S) = CHOOSE p \in FirstDir(S) : p.name = NameOrder[Min(NameIndexes(FirstDir(S)))]
  BY DEF First, FirstDir, NameIndexes, DirIndexes
<1>9. First(S) \in FirstDir(S) /\ First(S).name = NameOrder[Min(NameIndexes(FirstDir(S)))]
  BY <1>7, <1>8
<1> QED BY <1>2, <1>4, <1>5, <1>9 DEF FirstDir

\* What is first of the whole is first of any part it is in.
LEMMA FirstOfPart ==
    ASSUME NEW S \in SUBSET Paths, NEW T \in SUBSET S, First(S) \in T
    PROVE  First(T) = First(S)
<1> DEFINE x == First(S)
           y == First(T)
<1>1. /\ S # {} /\ T # {}
      /\ \A p \in S : p.dir \in Dirs /\ p.name \in Names
      /\ \A p \in T : p.dir \in Dirs /\ p.name \in Names
  BY DEF Paths
<1>2. /\ x.dir = DirOrder[Min(DirIndexes(S))] /\ DirIndexes(S) # {} /\ DirIndexes(S) \subseteq Nat
      /\ x.name = NameOrder[Min(NameIndexes(FirstDir(S)))]
      /\ NameIndexes(FirstDir(S)) # {} /\ NameIndexes(FirstDir(S)) \subseteq Nat
  BY <1>1, FirstIs
<1>3. /\ y.dir = DirOrder[Min(DirIndexes(T))] /\ DirIndexes(T) # {} /\ DirIndexes(T) \subseteq Nat
      /\ y.name = NameOrder[Min(NameIndexes(FirstDir(T)))] /\ y \in T
      /\ NameIndexes(FirstDir(T)) # {} /\ NameIndexes(FirstDir(T)) \subseteq Nat
  BY <1>1, FirstIs
<1> HIDE DEF x, y
<1>4. x \in T
  BY DEF x
<1>5. Min(DirIndexes(T)) = Min(DirIndexes(S))
  <2>1. Min(DirIndexes(S)) \in DirIndexes(S) /\ \A i \in DirIndexes(S) : Min(DirIndexes(S)) <= i
    BY <1>2, MinIs
  <2>2. Min(DirIndexes(T)) \in DirIndexes(T) /\ \A i \in DirIndexes(T) : Min(DirIndexes(T)) <= i
    BY <1>3, MinIs
  <2>3. DirIndexes(T) \subseteq DirIndexes(S)
    BY DEF DirIndexes
  <2>4. Min(DirIndexes(S)) \in DirIndexes(T)
    BY <1>2, <1>4, <2>1 DEF DirIndexes
  <2>5. Min(DirIndexes(S)) <= Min(DirIndexes(T)) /\ Min(DirIndexes(T)) <= Min(DirIndexes(S))
    BY <2>1, <2>2, <2>3, <2>4
  <2>6. Min(DirIndexes(S)) \in Nat /\ Min(DirIndexes(T)) \in Nat
    BY <1>2, <1>3, <2>1, <2>2
  <2> QED BY <2>5, <2>6
<1>6. Min(NameIndexes(FirstDir(T))) = Min(NameIndexes(FirstDir(S)))
  <2>1. /\ Min(NameIndexes(FirstDir(S))) \in NameIndexes(FirstDir(S))
        /\ \A j \in NameIndexes(FirstDir(S)) : Min(NameIndexes(FirstDir(S))) <= j
    BY <1>2, MinIs
  <2>2. /\ Min(NameIndexes(FirstDir(T))) \in NameIndexes(FirstDir(T))
        /\ \A j \in NameIndexes(FirstDir(T)) : Min(NameIndexes(FirstDir(T))) <= j
    BY <1>3, MinIs
  <2>3. FirstDir(T) \subseteq FirstDir(S) /\ x \in FirstDir(T)
    BY <1>2, <1>4, <1>5 DEF FirstDir
  <2>4. NameIndexes(FirstDir(T)) \subseteq NameIndexes(FirstDir(S))
    BY <2>3 DEF NameIndexes
  <2>5. Min(NameIndexes(FirstDir(S))) \in NameIndexes(FirstDir(T))
    BY <1>2, <2>1, <2>3 DEF NameIndexes
  <2>6. /\ Min(NameIndexes(FirstDir(S))) <= Min(NameIndexes(FirstDir(T)))
        /\ Min(NameIndexes(FirstDir(T))) <= Min(NameIndexes(FirstDir(S)))
    BY <2>1, <2>2, <2>4, <2>5
  <2>7. Min(NameIndexes(FirstDir(S))) \in Nat /\ Min(NameIndexes(FirstDir(T))) \in Nat
    BY <1>2, <1>3, <2>1, <2>2
  <2> QED BY <2>6, <2>7
<1>7. y.dir = x.dir /\ y.name = x.name
  BY <1>2, <1>3, <1>5, <1>6
<1>8. x \in Paths /\ y \in Paths
  BY <1>3, <1>4
<1> QED BY <1>7, <1>8 DEF Paths, x, y

\* A reading and the walk take the paths of a source in the same order.
LEMMA FirstCalled ==
    ASSUME NEW S \in SUBSET Reached, S # {}, Uniform(S)
    PROVE  Called(First(S)) = First(CalledAll(S))
<1> DEFINE C == CalledAll(S)
           x == First(S)
           y == First(C)
<1>1. /\ \A p \in S : p.dir \in Dirs /\ p.name \in Names
      /\ \A p \in S : Called(p).dir = Virtualize(p.dir) /\ Called(p).name = p.name
      /\ \A p \in S : Called(p).dir \in Dirs
  BY Virtualized DEF Reached, Called
<1>2. C # {} /\ \A p \in C : p.dir \in Dirs /\ p.name \in Names
  BY <1>1 DEF CalledAll
<1>3. /\ x.dir = DirOrder[Min(DirIndexes(S))] /\ x \in S
      /\ x.name = NameOrder[Min(NameIndexes(FirstDir(S)))]
  BY <1>1, FirstIs
<1>4. /\ y.dir = DirOrder[Min(DirIndexes(C))] /\ y \in C
      /\ y.name = NameOrder[Min(NameIndexes(FirstDir(C)))]
  BY <1>2, FirstIs
<1> HIDE DEF x, y, C
<1>5. PICK q \in S : y = Called(q)
  BY <1>4 DEF C, CalledAll
<1>6. \A p \in S : Called(p) \in C
  BY DEF C, CalledAll
<1>7. \A c \in C : \E p \in S : c = Called(p)
  BY DEF C, CalledAll
<1>8. CASE \A p, o \in S : p.dir = o.dir
  <2>1. FirstDir(S) = S
    BY <1>3, <1>8 DEF FirstDir
  <2>2. \A c \in C : c.dir = y.dir
    BY <1>1, <1>5, <1>7, <1>8
  <2>3. FirstDir(C) = C
    BY <1>4, <2>2 DEF FirstDir
  <2>4. NameIndexes(C) = NameIndexes(S)
    BY <1>1, <1>6, <1>7 DEF NameIndexes
  <2>5. y.name = x.name
    BY <1>3, <1>4, <2>1, <2>3, <2>4
  <2>6. y.dir = Virtualize(x.dir)
    BY <1>1, <1>3, <1>5, <1>8
  <2>7. y = [dir |-> y.dir, name |-> y.name]
    BY <1>5 DEF Called
  <2> QED BY <2>5, <2>6, <2>7 DEF Called, x, y, C
<1>9. CASE \A p \in S : p.dir \notin Range(Links)
  <2>1. \A p \in S : Called(p).dir = p.dir
    BY <1>1, <1>9 DEF Virtualize
  <2>2. DirIndexes(C) = DirIndexes(S)
    BY <1>6, <1>7, <2>1 DEF DirIndexes
  <2>3. \A p \in S : p \in FirstDir(S) <=> Called(p) \in FirstDir(C)
    BY <1>6, <2>1, <2>2 DEF FirstDir
  <2>4. NameIndexes(FirstDir(C)) = NameIndexes(FirstDir(S))
    <3>1. FirstDir(S) \subseteq S /\ FirstDir(C) \subseteq C
      BY DEF FirstDir
    <3>2. \A c \in FirstDir(C) : \E p \in FirstDir(S) : c = Called(p)
      BY <1>7, <2>3, <3>1
    <3>3. \A p \in FirstDir(S) : Called(p) \in FirstDir(C) /\ Called(p).name = p.name
      BY <1>1, <2>3, <3>1
    <3> QED BY <1>1, <3>1, <3>2, <3>3 DEF NameIndexes
  <2>5. y.name = x.name /\ y.dir = x.dir
    BY <1>3, <1>4, <2>2, <2>4
  <2>6. Virtualize(x.dir) = x.dir
    BY <1>3, <1>9 DEF Virtualize
  <2>7. y = [dir |-> y.dir, name |-> y.name]
    BY <1>5 DEF Called
  <2> QED BY <2>5, <2>6, <2>7 DEF Called, x, y, C
<1> QED BY <1>8, <1>9 DEF Uniform

\* No two paths of a source have the same name.
LEMMA CalledOnce ==
    ASSUME NEW S \in SUBSET Reached, Uniform(S), NEW p \in S, NEW q \in S, Called(p) = Called(q)
    PROVE  p = q
<1>1. p.name = q.name /\ Virtualize(p.dir) = Virtualize(q.dir)
  BY DEF Called
<1>2. p.at = q.at /\ p.globbed = q.globbed
  BY DEF Uniform
<1>3. p.dir = q.dir
  BY <1>1 DEF Uniform, Virtualize
<1> QED BY <1>1, <1>2, <1>3 DEF Reached

\* What is left of a source when a path has been come to.
LEMMA CalledLess ==
    ASSUME NEW S \in SUBSET Reached, Uniform(S), NEW p \in S
    PROVE  /\ CalledAll(S \ {p}) = CalledAll(S) \ {Called(p)}
           /\ Uniform(S \ {p})
<1>1. \A q \in S : Called(q) = Called(p) => q = p
  BY CalledOnce
<1>2. CalledAll(S \ {p}) = CalledAll(S) \ {Called(p)}
  BY <1>1 DEF CalledAll
<1> QED BY <1>2 DEF Uniform

-----------------------------------------------------------------------------
(***************************************************************************)
(* What the switch leaves, by any name of it                               *)
(***************************************************************************)

\* A path is the same by the name it has and by the name it will have.
LEMMA AfterCalled ==
    ASSUME NEW d, NEW q \in Reached
    PROVE  After(d, Called(q)) = After(d, Place(q))
<1>1. q.dir \in Dirs
  BY DEF Reached
<1>2. CASE q.dir \in Range(Links)
  <2> DEFINE dest == Virtualize(q.dir)
  <2>1. dest \in DOMAIN Links /\ Links[dest] = q.dir
    <3>1. \E x \in DOMAIN Links : Links[x] = q.dir
      BY <1>2 DEF Range
    <3> QED BY <1>2, <3>1 DEF Virtualize
  <2>2. dest \notin Absent /\ q.dir \notin Absent /\ q.dir \notin DOMAIN Links
    BY <1>2, <2>1, DirsAssumption
  <2> HIDE DEF dest
  <2>3. Called(q) = [dir |-> dest, name |-> q.name]
    BY DEF Called, dest
  <2>4. After(d, Called(q)) = d[[dir |-> q.dir, name |-> q.name]]
    BY <2>1, <2>2, <2>3 DEF After
  <2>5. After(d, Place(q)) = d[[dir |-> q.dir, name |-> q.name]]
    BY <2>2 DEF After, Place
  <2> QED BY <2>4, <2>5
<1>3. CASE q.dir \notin Range(Links)
  BY <1>3 DEF Called, Place, Virtualize
<1> QED BY <1>2, <1>3

\* What a reading of the config finds at a path.
LEMMA LiveThere ==
    ASSUME NEW d, NEW q \in LiveReached
    PROVE  There(LiveOf(d), q) = After(d, Called(q)) /\ Called(q) \in Paths
<1>1. Place(q) \in Paths /\ q \in Reached /\ q.at = "live"
  BY DEF LiveReached, Reached, Place, Paths
<1>2. There(LiveOf(d), q) = After(d, Place(q))
  BY <1>1 DEF There, LiveOf, Ats
<1>3. Called(q) \in Paths
  BY <1>1, Virtualized DEF Called, Reached, Paths
<1> QED BY <1>1, <1>2, <1>3, AfterCalled

\* What is there is one of the disk's, or nothing.
LEMMA AfterContents ==
    ASSUME NEW d, DOMAIN d = Paths, \A p \in Paths : d[p] \in Contents, NEW v \in Paths
    PROVE  After(d, v) \in Contents
<1>1. CASE v.dir \in Absent
  BY <1>1 DEF After, Contents
<1>2. CASE v.dir \notin Absent /\ v.dir \in DOMAIN Links
  <2>1. [v EXCEPT !.dir = Links[v.dir]] \in Paths
    BY <1>2, DirsAssumption DEF Paths, Range
  <2>2. After(d, v) = d[[v EXCEPT !.dir = Links[v.dir]]]
    BY <1>2 DEF After
  <2> QED BY <2>1, <2>2
<1>3. CASE v.dir \notin Absent /\ v.dir \notin DOMAIN Links
  BY <1>3 DEF After
<1> QED BY <1>1, <1>2, <1>3

\* The walk finds the same.
LEMMA NowIsAfter ==
    ASSUME NEW v \in Paths
    PROVE  Now(v) = After(disk, v)
<1>1. v = [dir |-> v.dir, name |-> v.name]
  BY DEF Paths
<1>2. CASE v.dir \in DOMAIN Links
  <2>1. Real(v.dir) = {Links[v.dir]} /\ v.dir \notin Absent
    BY <1>2, DirsAssumption DEF Real
  <2>2. (CHOOSE x \in Real(v.dir) : TRUE) = Links[v.dir] /\ Real(v.dir) # {}
    BY <2>1
  <2> QED BY <1>2, <2>1, <2>2 DEF Now, After
<1>3. CASE v.dir \notin DOMAIN Links /\ v.dir \in Absent
  BY <1>3 DEF Real, Now, After
<1>4. CASE v.dir \notin DOMAIN Links /\ v.dir \notin Absent
  <2>1. Real(v.dir) = {v.dir}
    BY <1>4 DEF Real
  <2>2. (CHOOSE x \in Real(v.dir) : TRUE) = v.dir /\ Real(v.dir) # {}
    BY <2>1
  <2>3. [v EXCEPT !.dir = v.dir] = v
    BY <1>1
  <2> QED BY <1>4, <2>2, <2>3 DEF Now, After
<1> QED BY <1>2, <1>3, <1>4

\* And it matches the same, if every destination is a directory already.
LEMMA MatchedIsMatches ==
    ASSUME DOMAIN Links \subseteq DOMAIN Leaving, NEW to \in Targets
    PROVE  Matched(to) = Matches(disk, to) /\ DirsOf(to) = DirsTo(to)
<1>1. DirsOf(to) = DirsTo(to) /\ DirsTo(to) \subseteq Dirs
  BY DirsAssumption DEF DirsOf, DirsTo, Targets
<1>2. \A p \in [dir : DirsTo(to), name : Names] : Now(p) = After(disk, p)
  BY <1>1, NowIsAfter DEF Paths
<1> QED BY <1>1, <1>2 DEF Matched, Matches, StarMatches

-----------------------------------------------------------------------------
(***************************************************************************)
(* Where a source of the config leads                                      *)
(***************************************************************************)

Based(expanded, dir) ==
    CASE expanded.base = "~" -> Home
      [] expanded.base = "here" -> dir
      [] OTHER -> expanded.base

\* Resolve, by its base.
LEMMA ResolveIs ==
    ASSUME NEW value, NEW dir, NEW variables
    PROVE  Resolve(value, dir, variables) =
             LET expanded == Expand(value, variables)
                 base == Based(expanded, dir)
             IN  IF base \in Dirs \union {"*/"}
                 THEN {[dir |-> Virtualize(base), rest |-> expanded.rest]} ELSE {}
BY DEF Resolve, Based

\* A directory by either name is the same base.
LEMMA ResolveCalled ==
    ASSUME NEW value, NEW dir \in Dirs, NEW variables
    PROVE  Resolve(value, Virtualize(dir), variables) = Resolve(value, dir, variables)
<1> DEFINE expanded == Expand(value, variables)
<1>1. Virtualize(dir) \in Dirs /\ Virtualize(dir) \notin Range(Links)
  BY Virtualized
<1>2. Virtualize(Virtualize(dir)) = Virtualize(dir)
  BY <1>1 DEF Virtualize
<1> HIDE DEF expanded
<1>3. CASE expanded.base = "here"
  <2>1. Based(expanded, dir) = dir /\ Based(expanded, Virtualize(dir)) = Virtualize(dir)
    BY <1>3 DEF Based
  <2> QED BY <1>1, <1>2, <2>1, ResolveIs DEF expanded
<1>4. CASE expanded.base # "here"
  <2>1. Based(expanded, dir) = Based(expanded, Virtualize(dir))
    BY <1>4 DEF Based
  <2> QED BY <2>1, ResolveIs DEF expanded
<1> QED BY <1>3, <1>4

\* Hyprland makes nothing of a source exactly when resolve_source does not.
LEMMA MeaninglessIs ==
    ASSUME NEW value, NEW dir \in Dirs, NEW variables
    PROVE  Meaningless(value, variables) <=> Resolve(value, dir, variables) = {}
<1> DEFINE expanded == Expand(value, variables)
<1>1. Meaningless(value, variables) <=> expanded.base \notin Dirs \union {"~", "here", "*/"}
  BY DEF Meaningless
<1> HIDE DEF expanded
<1>2. Home \in Dirs
  BY DirsAssumption
<1>3. Based(expanded, dir) \in Dirs \union {"*/"} <=> expanded.base \in Dirs \union {"~", "here", "*/"}
  BY <1>2, WordsAssumption DEF Based
<1> QED BY <1>1, <1>3, ResolveIs DEF expanded

\* The variables the user's files can set, and where one of their sources leads.
Known(kn) == DOMAIN kn \subseteq VarNames /\ \A x \in DOMAIN kn : kn[x] \in Values({"live"})
SourceValue(value) == value \in Values({"live"}) /\ value.rest \in Names \union {"*"}

LedTo(d, value, p, variables, to) ==
    LET leads == Leads(LiveOf(d), value, p, variables)
    IN  /\ leads \subseteq LiveReached /\ Uniform(leads)
        /\ CalledAll(leads) = Matches(d, to)
        /\ \A q \in leads : q.globbed <=> (to.dir = "*/" \/ to.rest = "*")
        /\ Expand(value, variables).base = "*/" <=> to.dir = "*/"
        /\ Expand(value, variables).rest = to.rest
        /\ ConfigDirs(LiveOf(d), Expand(value, variables).at) = Config

\* A source of the config leads, by the names the paths will have, where the
\* walk says it does.
LEMMA LiveLeads ==
    ASSUME NEW d, NEW value, SourceValue(value), NEW p \in LiveReached,
           NEW variables, Known(variables), NEW to \in Resolve(value, p.dir, variables)
    PROVE  LedTo(d, value, p, variables, to)
<1>0. /\ value \in Values({"live"}) /\ value.rest \in Names \union {"*"}
      /\ DOMAIN variables \subseteq VarNames
      /\ \A x \in DOMAIN variables : variables[x] \in Values({"live"})
  BY DEF SourceValue, Known
<1> DEFINE expanded == Expand(value, variables)
           base == Based(expanded, p.dir)
           leads == Leads(LiveOf(d), value, p, variables)
           dirs == DirsNamed(LiveOf(d), value, p, variables)
<1>1. expanded \in Values({"live"})
  BY <1>0, Expanded
<1>2. p.dir \in Dirs /\ p.at = "live" /\ Home \in Dirs
  BY DirsAssumption DEF LiveReached, Reached
<1>3. to \in Targets /\ to.rest = value.rest
  BY <1>0, <1>2, Resolved
<1>4. base \in Dirs \union {"*/"} /\ to = [dir |-> Virtualize(base), rest |-> expanded.rest]
  BY ResolveIs
<1>5. to.dir = Virtualize(base) /\ expanded.rest = to.rest
  BY <1>4
<1>6. expanded.at = "live" /\ ConfigDirs(LiveOf(d), expanded.at) = Config
  BY <1>1 DEF Values, ConfigDirs
<1>7. "*/" \notin Dirs /\ "~" \notin Dirs /\ "here" \notin Dirs
  BY WordsAssumption
<1>8. expanded.base = "*/" <=> base = "*/"
  BY <1>2, <1>7 DEF Based
<1>9. base = "*/" <=> to.dir = "*/"
  BY <1>4, <1>5, <1>7, Virtualized
<1>10. dirs = IF base = "*/" THEN Config ELSE {base}
  <2>1. dirs = CASE expanded.base = "~" -> {Home}
                 [] expanded.base = "here" -> {p.dir}
                 [] expanded.base = "*/" -> Config
                 [] OTHER -> {expanded.base} \intersect Dirs
    BY <1>6 DEF DirsNamed
  <2> HIDE DEF dirs, expanded
  <2> QED BY <1>2, <1>4, <1>7, <2>1 DEF Based
<1> HIDE DEF base, dirs, expanded
<1> DEFINE globs == to.dir = "*/" \/ to.rest = "*"
           named == [at : {"live"}, dir : dirs,
                     name : IF to.rest = "*" THEN Names \ Hidden ELSE {to.rest} \intersect Names,
                     globbed : {globs}]
<1>11. leads = IF to.rest = "*" THEN {q \in named : There(LiveOf(d), q) # Nothing} ELSE named
  <2>1. (IF expanded.base \in {"~", "here"} THEN p.at ELSE expanded.at) = "live"
    BY <1>2, <1>6
  <2>2. (expanded.base = "*/" \/ expanded.rest = "*") = globs
    BY <1>5, <1>8, <1>9
  <2> HIDE DEF globs
  <2> QED BY <1>5, <2>1, <2>2 DEF Leads, dirs, expanded
<1>12. dirs \subseteq Dirs
  BY <1>4, <1>10, DirsAssumption
<1>13. DirsTo(to) = {Virtualize(x) : x \in dirs}
  <2>1. CASE base = "*/"
    <3>1. dirs = Config /\ DirsTo(to) = Config
      BY <1>9, <1>10, <2>1 DEF DirsTo
    <3>2. \A x \in Config : Virtualize(x) = x
      BY DirsAssumption DEF Virtualize
    <3> QED BY <3>1, <3>2
  <2>2. CASE base # "*/"
    BY <1>5, <1>9, <1>10, <2>2 DEF DirsTo
  <2> QED BY <2>1, <2>2
<1>14. named \subseteq LiveReached
  <2>1. globs \in BOOLEAN
    OBVIOUS
  <2>2. (IF to.rest = "*" THEN Names \ Hidden ELSE {to.rest} \intersect Names) \subseteq Names
    OBVIOUS
  <2> HIDE DEF globs
  <2> QED BY <1>12, <2>1, <2>2 DEF LiveReached, Reached, Ats
<1>15. leads \subseteq named
  <2> HIDE DEF named
  <2> QED BY <1>11
<1>16. Uniform(leads)
  <2>1. \A q, o \in leads : q.at = o.at /\ q.globbed = o.globbed
    BY <1>15
  <2>2. CASE base = "*/"
    <3>1. \A q \in leads : q.dir \in Config
      BY <1>10, <1>15, <2>2
    <3> QED BY <2>1, <3>1, DirsAssumption DEF Uniform
  <2>3. CASE base # "*/"
    <3>1. \A q \in leads : q.dir = base
      BY <1>10, <1>15, <2>3
    <3> QED BY <2>1, <3>1 DEF Uniform
  <2> QED BY <2>2, <2>3
<1>17. CalledAll(leads) = Matches(d, to)
  <2>1. \A q \in named : /\ There(LiveOf(d), q) = After(d, Called(q))
                         /\ Called(q) = [dir |-> Virtualize(q.dir), name |-> q.name]
    BY <1>14, LiveThere DEF Called
  <2>2. \A q \in named : q.dir \in dirs
    OBVIOUS
  <2>3. CASE to.rest = "*"
    <3>1. \A q \in leads : Called(q) \in Matches(d, to)
      <4> SUFFICES ASSUME NEW q \in leads PROVE Called(q) \in Matches(d, to)
        OBVIOUS
      <4>1. q \in named /\ There(LiveOf(d), q) # Nothing
        BY <1>11, <2>3
      <4>2. q.name \in Names \ Hidden /\ Virtualize(q.dir) \in DirsTo(to)
        BY <1>13, <2>3, <4>1
      <4>3. Called(q) \in [dir : DirsTo(to), name : Names] /\ Called(q).name \notin Hidden
            /\ After(d, Called(q)) # Nothing
        BY <2>1, <4>1, <4>2
      <4> QED BY <2>3, <4>3 DEF Matches
    <3>2. \A v \in Matches(d, to) : \E q \in leads : v = Called(q)
      <4> SUFFICES ASSUME NEW v \in Matches(d, to) PROVE \E q \in leads : v = Called(q)
        OBVIOUS
      <4>1. v \in [dir : DirsTo(to), name : Names] /\ v.name \notin Hidden /\ After(d, v) # Nothing
        BY <2>3 DEF Matches
      <4>2. PICK x \in dirs : v.dir = Virtualize(x)
        BY <1>13, <4>1
      <4> DEFINE q == [at |-> "live", dir |-> x, name |-> v.name, globbed |-> globs]
      <4>3. q \in named
        BY <2>3, <4>1, <4>2
      <4>4. Called(q) = v
        BY <4>1, <4>2 DEF Called
      <4>5. There(LiveOf(d), q) # Nothing
        <5> HIDE DEF q, named
        <5> QED BY <2>1, <4>1, <4>3, <4>4
      <4>6. q \in leads
        <5> HIDE DEF q, named, leads
        <5> QED BY <1>11, <2>3, <4>3, <4>5
      <4> QED BY <4>4, <4>6
    <3> HIDE DEF leads
    <3> QED BY <3>1, <3>2 DEF CalledAll
  <2>4. CASE to.rest # "*"
    <3>1. leads = named /\ Matches(d, to) = [dir : DirsTo(to), name : {to.rest} \intersect Names]
      BY <1>11, <2>4 DEF Matches
    <3>2. \A q \in named : Called(q) \in [dir : DirsTo(to), name : {to.rest} \intersect Names]
      BY <1>13, <2>1, <2>2, <2>4
    <3>3. \A v \in [dir : DirsTo(to), name : {to.rest} \intersect Names] : \E q \in named : v = Called(q)
      <4> SUFFICES ASSUME NEW v \in [dir : DirsTo(to), name : {to.rest} \intersect Names]
                   PROVE  \E q \in named : v = Called(q)
        OBVIOUS
      <4>1. PICK x \in dirs : v.dir = Virtualize(x)
        BY <1>13
      <4> DEFINE q == [at |-> "live", dir |-> x, name |-> v.name, globbed |-> globs]
      <4>2. q \in named
        BY <2>4, <4>1
      <4>3. Called(q) = v
        BY <4>1 DEF Called
      <4> QED BY <4>2, <4>3
    <3> HIDE DEF named, leads
    <3> QED BY <3>1, <3>2, <3>3 DEF CalledAll
  <2> QED BY <2>3, <2>4
<1>18. \A q \in leads : q.globbed <=> (to.dir = "*/" \/ to.rest = "*")
  BY <1>15
<1> QED BY <1>5, <1>6, <1>8, <1>9, <1>14, <1>15, <1>16, <1>17, <1>18 DEF expanded, leads, LedTo

-----------------------------------------------------------------------------
(***************************************************************************)
(* A step of a reading                                                     *)
(***************************************************************************)

\* The fields of a reader that came to a path.
LEMMA VisitIs ==
    ASSUME NEW tree, NEW r, IsReader(r)
    PROVE  LET p == First(Innermost(r).todo)
               event == VisitEvent(tree, r)
               next == Visit(tree, r)
               rest == WithInnermost(r, [Innermost(r) EXCEPT !.todo = @ \ {p}])
           IN  /\ IsReader(next) /\ next.vars = r.vars /\ next.visits = r.visits + 1
               /\ next.seen = r.seen \union {event} /\ next.told = Tell(r.told, event)
               /\ next.open = IF event.what = "file"
                              THEN Append(rest, Opened(p, There(tree, p).text, {})) ELSE rest
<1> DEFINE p == First(Innermost(r).todo)
           event == VisitEvent(tree, r)
           rest == WithInnermost(r, [Innermost(r) EXCEPT !.todo = @ \ {p}])
           open == IF event.what = "file" THEN Append(rest, Opened(p, There(tree, p).text, {})) ELSE rest
<1>1. Visit(tree, r) = [r EXCEPT !.open = open, !.seen = @ \union {event},
                                 !.told = Tell(@, event), !.visits = @ + 1]
  BY DEF Visit
<1> HIDE DEF open, event
<1>2. Visit(tree, r) = [open |-> open, vars |-> r.vars, seen |-> r.seen \union {event},
                        told |-> Tell(r.told, event), visits |-> r.visits + 1]
  BY <1>1 DEF IsReader
<1>3. /\ IsReader(Visit(tree, r)) /\ Visit(tree, r).open = open /\ Visit(tree, r).vars = r.vars
      /\ Visit(tree, r).seen = r.seen \union {event} /\ Visit(tree, r).told = Tell(r.told, event)
      /\ Visit(tree, r).visits = r.visits + 1
  BY <1>2 DEF IsReader
<1> QED BY <1>3 DEF open, event

\* The fields of a reader that read a line.
LEMMA ReadIs ==
    ASSUME NEW tree, NEW r, IsReader(r)
    PROVE  LET f == Innermost(r)
               line == f.text[f.line + 1]
               event == LineEvent(tree, r)
               leads == IF event.what = "source" THEN Leads(tree, line.value, f.path, r.vars) ELSE {}
               next == ReadNext(tree, r)
           IN  /\ IsReader(next) /\ next.visits = r.visits
               /\ next.vars = IF line.is = "define" THEN Define(line, r.vars) ELSE r.vars
               /\ next.seen = r.seen \union {event} /\ next.told = Tell(r.told, event)
               /\ next.open = WithInnermost(r, Further(f, leads))
<1> DEFINE f == Innermost(r)
           line == f.text[f.line + 1]
           event == LineEvent(tree, r)
           leads == IF event.what = "source" THEN Leads(tree, line.value, f.path, r.vars) ELSE {}
           open == WithInnermost(r, Further(f, leads))
           variables == IF line.is = "define" THEN Define(line, r.vars) ELSE r.vars
<1>1. ReadNext(tree, r) = [r EXCEPT !.open = open, !.vars = variables, !.seen = @ \union {event},
                                    !.told = Tell(@, event)]
  BY DEF ReadNext
<1> HIDE DEF open, event, variables
<1>2. ReadNext(tree, r) = [open |-> open, vars |-> variables, seen |-> r.seen \union {event},
                           told |-> Tell(r.told, event), visits |-> r.visits]
  BY <1>1 DEF IsReader
<1>3. /\ IsReader(ReadNext(tree, r)) /\ ReadNext(tree, r).open = open
      /\ ReadNext(tree, r).vars = variables /\ ReadNext(tree, r).visits = r.visits
      /\ ReadNext(tree, r).seen = r.seen \union {event}
      /\ ReadNext(tree, r).told = Tell(r.told, event)
  BY <1>2 DEF IsReader
<1> QED BY <1>3 DEF open, event, variables

\* The fields of a reader that left a file.
LEMMA CloseIs ==
    ASSUME NEW r, IsReader(r)
    PROVE  /\ IsReader(Close(r)) /\ Close(r).open = Front(r.open) /\ Close(r).vars = r.vars
           /\ Close(r).seen = r.seen /\ Close(r).told = r.told /\ Close(r).visits = r.visits
<1>1. Close(r) = [open |-> Front(r.open), vars |-> r.vars, seen |-> r.seen, told |-> r.told,
                  visits |-> r.visits]
  BY DEF Close, IsReader
<1> QED BY <1>1 DEF IsReader

-----------------------------------------------------------------------------
(***************************************************************************)
(* The walk and the reading come to a path together                        *)
(***************************************************************************)

Disk(d) == DOMAIN d = Paths /\ \A p \in Paths : d[p] \in Contents

\* The innermost file of a reading that is where the walk is.
LEMMA InnermostIs ==
    ASSUME NEW d, NEW r, NEW st \in Seq(Frames), st # <<>>, NEW kn, NEW vi, Followed(d, r, st, kn, vi)
    PROVE  /\ Len(st) \in Nat /\ Len(st) >= 1 /\ ~Finished(r) /\ r.open \in Seq(LiveFiles)
           /\ Len(r.open) = Len(st) /\ Innermost(r) = r.open[Len(st)]
           /\ Innermost(r) \in LiveFiles /\ st[Len(st)] \in Frames
           /\ SameFile(Innermost(r), st[Len(st)])
<1>1. Len(st) \in Nat /\ Len(st) >= 1
  BY DEF Frames
<1>2. r.open \in Seq(LiveFiles) /\ Len(r.open) = Len(st)
  BY DEF Followed
<1>3. r.open # <<>>
  BY <1>1, <1>2
<1> QED BY <1>1, <1>2, <1>3 DEF Followed, Innermost, Finished

\* The reader comes to the path the walk visits.
LEMMA VisitedTogether ==
    ASSUME NEW d, Disk(d), NEW r, NEW st \in Seq(Frames), st # <<>>, NEW kn, NEW vi,
           Followed(d, r, st, kn, vi), st[Len(st)].todo # {}
    PROVE  LET p == First(Innermost(r).todo)
               v == First(st[Len(st)].todo)
               event == VisitEvent(LiveOf(d), r)
           IN  /\ p \in Innermost(r).todo /\ p \in LiveReached /\ Called(p) = v
               /\ v \in st[Len(st)].todo /\ v \in Paths
               /\ There(LiveOf(d), p) = After(d, v) /\ After(d, v) \in Contents
               /\ event.deep = Len(st) - 1 /\ event.among = {} /\ event.matched = {}
               /\ event.what = IF \E i \in 2..Len(st) : st[i].v = v THEN "cycle"
                               ELSE IF After(d, v) = Nothing /\ p.globbed THEN "unmatched"
                               ELSE After(d, v).is
<1> DEFINE f == Innermost(r)
           p == First(f.todo)
           s == st[Len(st)]
           v == First(s.todo)
           event == VisitEvent(LiveOf(d), r)
<1>1. /\ f \in LiveFiles /\ s \in Frames /\ SameFile(f, s) /\ Len(r.open) = Len(st)
  BY InnermostIs
<1>2. f.todo \in SUBSET LiveReached /\ CalledAll(f.todo) = s.todo /\ Uniform(f.todo)
  BY <1>1 DEF LiveFiles, SameFile
<1>3. f.todo # {} /\ f.todo \in SUBSET Reached
  BY <1>2 DEF CalledAll, LiveReached
<1>4. p \in f.todo
  BY <1>3, FirstIs DEF Reached
<1>5. Called(p) = v
  BY <1>2, <1>3, FirstCalled
<1>6. p \in LiveReached
  BY <1>2, <1>4
<1>7. There(LiveOf(d), p) = After(d, v) /\ v \in Paths
  BY <1>5, <1>6, LiveThere
<1>8. After(d, v) \in Contents
  BY <1>7, AfterContents DEF Disk
<1>9. v \in s.todo
  BY <1>2, <1>4, <1>5 DEF CalledAll
<1>10. {Called(r.open[i].path) : i \in 2..Len(r.open)} = {st[i].v : i \in 2..Len(st)}
  <2>1. \A i \in 2..Len(st) : Called(r.open[i].path) = st[i].v
    BY InnermostIs DEF Followed, SameFile
  <2> QED BY <1>1, <2>1
<1> DEFINE what == IF v \in {st[i].v : i \in 2..Len(st)} THEN "cycle"
                   ELSE IF After(d, v) = Nothing /\ p.globbed THEN "unmatched"
                   ELSE After(d, v).is
<1>11. event = [Event(p, 0, what) EXCEPT !.deep = Len(st) - 1]
  BY <1>1, <1>5, <1>7, <1>10 DEF VisitEvent
<1>12. event.deep = Len(st) - 1 /\ event.among = {} /\ event.matched = {} /\ event.what = what
  <2> HIDE DEF what, event
  <2> QED BY <1>11 DEF Event
<1>13. v \in {st[i].v : i \in 2..Len(st)} <=> \E i \in 2..Len(st) : st[i].v = v
  OBVIOUS
<1> HIDE DEF event, p, f, s
<1> QED BY <1>4, <1>5, <1>6, <1>7, <1>8, <1>9, <1>12, <1>13 DEF event, p, f, s

\* The paths that are left of it.
LEMMA RestTogether ==
    ASSUME NEW d, Disk(d), NEW r, NEW st \in Seq(Frames), st # <<>>, NEW kn, NEW vi,
           Followed(d, r, st, kn, vi), st[Len(st)].todo # {}
    PROVE  LET p == First(Innermost(r).todo)
               v == First(st[Len(st)].todo)
               f == [Innermost(r) EXCEPT !.todo = @ \ {p}]
               s == [st[Len(st)] EXCEPT !.todo = @ \ {v}]
           IN  /\ f \in LiveFiles /\ s \in Frames /\ SameFile(f, s)
               /\ s.v = st[Len(st)].v /\ s.text = st[Len(st)].text /\ s.out = st[Len(st)].out
               /\ s.todo = st[Len(st)].todo \ {v}
<1> DEFINE g == Innermost(r)
           p == First(g.todo)
           t == st[Len(st)]
           v == First(t.todo)
           f == [g EXCEPT !.todo = @ \ {p}]
           s == [t EXCEPT !.todo = @ \ {v}]
<1>1. g \in LiveFiles /\ t \in Frames /\ SameFile(g, t)
  BY InnermostIs
<1>2. p \in g.todo /\ Called(p) = v
  BY VisitedTogether
<1> HIDE DEF g, t, p, v
<1>3. f \in LiveFiles /\ f.path = g.path /\ f.text = g.text /\ f.line = g.line /\ f.todo = g.todo \ {p}
  BY <1>1 DEF LiveFiles
<1>4. s \in Frames /\ s.v = t.v /\ s.text = t.text /\ s.out = t.out /\ s.todo = t.todo \ {v}
  BY <1>1 DEF Frames
<1>5. g.todo \in SUBSET Reached
  BY <1>1 DEF LiveFiles, LiveReached
<1>6. CalledAll(g.todo \ {p}) = CalledAll(g.todo) \ {v} /\ Uniform(g.todo \ {p})
  BY <1>1, <1>2, <1>5, CalledLess DEF SameFile
<1>7. SameFile(f, s)
  <2> HIDE DEF f, s
  <2> QED BY <1>1, <1>3, <1>4, <1>6 DEF SameFile
<1> QED BY <1>3, <1>4, <1>7 DEF g, t, p, v

\* The last of a sequence replaced.
LEMMA LastReplaced ==
    ASSUME NEW T, NEW s \in Seq(T), s # <<>>, NEW x \in T, NEW u, u = [s EXCEPT ![Len(s)] = x]
    PROVE  /\ u \in Seq(T) /\ Len(u) = Len(s) /\ u # <<>>
           /\ \A i \in 1..Len(s) : u[i] = IF i = Len(s) THEN x ELSE s[i]
<1>1. u \in Seq(T) /\ Len(u) = Len(s) /\ \A i \in 1..Len(s) : u[i] = IF i = Len(s) THEN x ELSE s[i]
  OBVIOUS
<1> QED BY <1>1

\* One more at the end of a sequence.
LEMMA Appended ==
    ASSUME NEW T, NEW s \in Seq(T), NEW x \in T, NEW u, u = Append(s, x)
    PROVE  /\ u \in Seq(T) /\ Len(u) = Len(s) + 1 /\ u # <<>> /\ u[Len(u)] = x
           /\ \A i \in 1..Len(s) : u[i] = s[i]
           /\ \A i \in 1..Len(u) : i \in 1..Len(s) \/ i = Len(u)
<1>1. u \in Seq(T) /\ Len(u) = Len(s) + 1 /\ u[Len(u)] = x /\ \A i \in 1..Len(s) : u[i] = s[i]
  OBVIOUS
<1>2. u # <<>> /\ \A i \in 1..Len(u) : i \in 1..Len(s) \/ i = Len(u)
  BY <1>1
<1> QED BY <1>1, <1>2

\* A file of the walk, whose text is what is at its path.
Shows(d, s) == After(d, s.v) = File(s.text) /\ \A j \in 1..Len(s.text) : s.text[j] # Continues

\* Followed, with what it says of each file by name.
LEMMA FollowedShows ==
    ASSUME NEW d, NEW r, NEW st, NEW kn, NEW vi
    PROVE  Followed(d, r, st, kn, vi) <=>
             /\ IsReader(r) /\ r.open \in Seq(LiveFiles) /\ Len(r.open) = Len(st)
             /\ r.vars = kn /\ r.visits = vi
             /\ \A i \in 1..Len(st) : SameFile(r.open[i], st[i])
             /\ st # <<>> => st[1].text = <<>>
             /\ \A i \in 2..Len(st) : Shows(d, st[i])
BY DEF Followed, Shows

\* The walk and the reading go on in the file they are in.
LEMMA FollowedTop ==
    ASSUME NEW d, NEW r, NEW st \in Seq(Frames), st # <<>>, NEW kn, NEW vi,
           Followed(d, r, st, kn, vi),
           NEW f \in LiveFiles, NEW s \in Frames, SameFile(f, s),
           s.v = st[Len(st)].v, s.text = st[Len(st)].text,
           NEW q, IsReader(q), q.open = WithInnermost(r, f),
           NEW st2, st2 = [st EXCEPT ![Len(st)] = s]
    PROVE  Followed(d, q, st2, q.vars, q.visits)
<1>1. Len(st) \in Nat /\ Len(st) >= 1 /\ r.open \in Seq(LiveFiles) /\ Len(r.open) = Len(st)
  BY InnermostIs
<1>2. r.open # <<>> /\ q.open = [r.open EXCEPT ![Len(r.open)] = f]
  BY <1>1 DEF WithInnermost
<1>3. /\ q.open \in Seq(LiveFiles) /\ Len(q.open) = Len(st)
      /\ \A i \in 1..Len(st) : q.open[i] = IF i = Len(st) THEN f ELSE r.open[i]
  <2>1. /\ q.open \in Seq(LiveFiles) /\ Len(q.open) = Len(r.open)
        /\ \A i \in 1..Len(r.open) : q.open[i] = IF i = Len(r.open) THEN f ELSE r.open[i]
    BY <1>1, <1>2, LastReplaced
  <2> QED BY <1>1, <2>1
<1>4. /\ st2 \in Seq(Frames) /\ Len(st2) = Len(st)
      /\ \A i \in 1..Len(st) : st2[i] = IF i = Len(st) THEN s ELSE st[i]
  BY LastReplaced
<1>5. /\ st[1].text = <<>> /\ \A i \in 1..Len(st) : SameFile(r.open[i], st[i])
      /\ \A i \in 2..Len(st) : Shows(d, st[i])
  BY FollowedShows
<1>6. \A i \in 1..Len(st2) : SameFile(q.open[i], st2[i])
  BY <1>3, <1>4, <1>5
<1>7. st2[1].text = <<>>
  BY <1>1, <1>4, <1>5
<1>8. \A i \in 2..Len(st2) : Shows(d, st2[i])
  <2> SUFFICES ASSUME NEW i \in 2..Len(st2) PROVE Shows(d, st2[i])
    OBVIOUS
  <2>1. i \in 1..Len(st) /\ Shows(d, st[i])
    BY <1>1, <1>4, <1>5
  <2>2. st2[i].v = st[i].v /\ st2[i].text = st[i].text
    BY <1>4, <2>1
  <2> QED BY <2>1, <2>2 DEF Shows
<1> QED BY <1>3, <1>4, <1>6, <1>7, <1>8, FollowedShows

\* The walk and the reading open a file.
LEMMA FollowedOpened ==
    ASSUME NEW d, NEW r, NEW st \in Seq(Frames), st # <<>>, NEW kn, NEW vi,
           Followed(d, r, st, kn, vi),
           NEW f \in LiveFiles, NEW s \in Frames, SameFile(f, s), Shows(d, s),
           NEW q, IsReader(q), q.open = Append(r.open, f),
           NEW st2, st2 = Append(st, s)
    PROVE  Followed(d, q, st2, q.vars, q.visits)
<1>1. Len(st) \in Nat /\ Len(st) >= 1 /\ r.open \in Seq(LiveFiles) /\ Len(r.open) = Len(st)
  BY InnermostIs
<1>3. /\ q.open \in Seq(LiveFiles) /\ Len(q.open) = Len(st) + 1 /\ q.open[Len(st) + 1] = f
      /\ \A i \in 1..Len(st) : q.open[i] = r.open[i]
  BY <1>1
<1>4. /\ st2 \in Seq(Frames) /\ Len(st2) = Len(st) + 1 /\ st2[Len(st) + 1] = s
      /\ \A i \in 1..Len(st) : st2[i] = st[i]
  BY <1>1
<1>5. /\ st[1].text = <<>> /\ \A i \in 1..Len(st) : SameFile(r.open[i], st[i])
      /\ \A i \in 2..Len(st) : Shows(d, st[i])
  BY FollowedShows
<1>9. \A i \in 1..Len(st2) : i \in 1..Len(st) \/ i = Len(st) + 1
  BY <1>1, <1>4
<1>6. \A i \in 1..Len(st2) : SameFile(q.open[i], st2[i])
  BY <1>3, <1>4, <1>5, <1>9
<1>7. st2[1].text = <<>>
  BY <1>1, <1>4, <1>5
<1>8. \A i \in 2..Len(st2) : Shows(d, st2[i])
  <2> SUFFICES ASSUME NEW i \in 2..Len(st2) PROVE Shows(d, st2[i])
    OBVIOUS
  <2>1. CASE i \in 2..Len(st)
    BY <1>1, <1>4, <1>5, <2>1
  <2>2. CASE i = Len(st) + 1
    BY <1>4, <2>2
  <2> QED BY <1>1, <1>4, <2>1, <2>2
<1> QED BY <1>3, <1>4, <1>6, <1>7, <1>8, FollowedShows

\* The walk leaves a file, or itself, and the reading leaves the same.
LEMMA FollowedClose ==
    ASSUME NEW d, NEW r, NEW st \in Seq(Frames), st # <<>>, NEW kn, NEW vi,
           Followed(d, r, st, kn, vi)
    PROVE  Followed(d, Close(r), Front(st), kn, vi)
<1>1. Len(st) \in Nat /\ Len(st) >= 1 /\ r.open \in Seq(LiveFiles) /\ Len(r.open) = Len(st)
  BY InnermostIs
<1>2. /\ Front(st) \in Seq(Frames) /\ Len(Front(st)) = Len(st) - 1
      /\ \A i \in 1..(Len(st) - 1) : Front(st)[i] = st[i]
  BY <1>1, FrontIs
<1>3. /\ Front(r.open) \in Seq(LiveFiles) /\ Len(Front(r.open)) = Len(st) - 1
      /\ \A i \in 1..(Len(st) - 1) : Front(r.open)[i] = r.open[i]
  <2>1. Len(r.open) > 0
    BY <1>1
  <2>2. /\ Front(r.open) \in Seq(LiveFiles) /\ Len(Front(r.open)) = Len(r.open) - 1
        /\ \A i \in 1..(Len(r.open) - 1) : Front(r.open)[i] = r.open[i]
    BY <1>1, <2>1, FrontIs
  <2> QED BY <1>1, <2>2
<1>4. /\ IsReader(Close(r)) /\ Close(r).open = Front(r.open) /\ Close(r).vars = r.vars
      /\ Close(r).visits = r.visits
  BY CloseIs DEF Followed
<1>5. /\ r.vars = kn /\ r.visits = vi /\ st[1].text = <<>>
      /\ \A i \in 1..Len(st) : SameFile(r.open[i], st[i])
      /\ \A i \in 2..Len(st) : Shows(d, st[i])
  BY FollowedShows
<1> DEFINE s == Front(st)
           o == Front(r.open)
<1>6. \A i \in 1..Len(s) : i \in 1..(Len(st) - 1) /\ i \in 1..Len(st)
  BY <1>1, <1>2
<1> HIDE DEF s, o
<1>7. \A i \in 1..Len(s) : SameFile(o[i], s[i])
  BY <1>2, <1>3, <1>5, <1>6 DEF s, o
<1>8. s # <<>> => s[1].text = <<>>
  <2> SUFFICES ASSUME s # <<>> PROVE s[1].text = <<>>
    OBVIOUS
  <2>1. 1 \in 1..Len(s)
    BY <1>2 DEF s
  <2> QED BY <1>2, <1>5, <1>6, <2>1 DEF s
<1>9. \A i \in 2..Len(s) : Shows(d, s[i])
  <2> SUFFICES ASSUME NEW i \in 2..Len(s) PROVE Shows(d, s[i])
    OBVIOUS
  <2>1. i \in 1..(Len(st) - 1) /\ i \in 2..Len(st) /\ s[i] = st[i]
    BY <1>1, <1>2 DEF s
  <2> QED BY <1>5, <2>1
<1>10. Len(Close(r).open) = Len(s) /\ Close(r).open = o /\ s = Front(st)
  BY <1>2, <1>3, <1>4 DEF s, o
<1> QED BY <1>3, <1>4, <1>5, <1>7, <1>8, <1>9, <1>10, FollowedShows DEF o

\* The walk comes to nothing, and so does the reading.
LEMMA FollowedNothing ==
    ASSUME NEW d, Disk(d), NEW r, NEW st \in Seq(Frames), st # <<>>, NEW kn, NEW vi,
           Followed(d, r, st, kn, vi), st[Len(st)].todo # {},
           After(d, First(st[Len(st)].todo)) = Nothing,
           NEW s, s = [st[Len(st)] EXCEPT !.todo = @ \ {First(st[Len(st)].todo)}],
           NEW st2, st2 = [st EXCEPT ![Len(st)] = s]
    PROVE  Followed(d, Visit(LiveOf(d), r), st2, kn, vi + 1)
<1> DEFINE p == First(Innermost(r).todo)
           v == First(st[Len(st)].todo)
           f == [Innermost(r) EXCEPT !.todo = @ \ {p}]
           event == VisitEvent(LiveOf(d), r)
           next == Visit(LiveOf(d), r)
<1>1. f \in LiveFiles /\ s \in Frames /\ SameFile(f, s) /\ s.v = st[Len(st)].v /\ s.text = st[Len(st)].text
  BY RestTogether
<1>3. event.what # "file"
  <2>1. event.what = IF \E i \in 2..Len(st) : st[i].v = v THEN "cycle"
                     ELSE IF After(d, v) = Nothing /\ p.globbed THEN "unmatched"
                     ELSE After(d, v).is
    BY VisitedTogether
  <2> HIDE DEF event, p
  <2>2. After(d, v).is = "none"
    BY DEF Nothing
  <2> QED BY <2>1, <2>2
<1>4. IsReader(r) /\ r.vars = kn /\ r.visits = vi
  BY DEF Followed
<1>5. /\ IsReader(next) /\ next.vars = r.vars /\ next.visits = r.visits + 1
      /\ next.open = IF event.what = "file"
                     THEN Append(WithInnermost(r, f), Opened(p, There(LiveOf(d), p).text, {}))
                     ELSE WithInnermost(r, f)
  <2> HIDE DEF event, next, f, p
  <2> QED BY <1>4, VisitIs DEF event, next, f, p
<1> HIDE DEF event, next, f, p, v
<1>7. next.open = WithInnermost(r, f)
  BY <1>3, <1>5
<1>8. Followed(d, next, st2, next.vars, next.visits)
  BY <1>1, <1>5, <1>7, FollowedTop
<1> QED BY <1>4, <1>5, <1>8 DEF next

\* The walk opens a file, and so does the reading.
LEMMA FollowedFile ==
    ASSUME NEW d, Disk(d), NEW r, NEW st \in Seq(Frames), st # <<>>, NEW kn, NEW vi,
           Followed(d, r, st, kn, vi), st[Len(st)].todo # {},
           \A i \in 2..Len(st) : st[i].v # First(st[Len(st)].todo),
           NEW text \in Seq(UserLines), After(d, First(st[Len(st)].todo)) = File(text),
           \A j \in 1..Len(text) : text[j] # Continues,
           NEW s, s = [st[Len(st)] EXCEPT !.todo = @ \ {First(st[Len(st)].todo)}],
           NEW st1, st1 = [st EXCEPT ![Len(st)] = s],
           NEW st2, st2 = Append(st1, Frame(First(st[Len(st)].todo), text, {}))
    PROVE  Followed(d, Visit(LiveOf(d), r), st2, kn, vi + 1)
<1> DEFINE p == First(Innermost(r).todo)
           v == First(st[Len(st)].todo)
           f == [Innermost(r) EXCEPT !.todo = @ \ {p}]
           event == VisitEvent(LiveOf(d), r)
           next == Visit(LiveOf(d), r)
           new == Frame(v, text, {})
           opened == Opened(p, There(LiveOf(d), p).text, {})
           mid == [open |-> WithInnermost(r, f), vars |-> kn, seen |-> {}, told |-> <<>>, visits |-> vi]
<1>1. f \in LiveFiles /\ s \in Frames /\ SameFile(f, s) /\ s.v = st[Len(st)].v /\ s.text = st[Len(st)].text
  BY RestTogether
<1>3. /\ p \in LiveReached /\ Called(p) = v /\ v \in Paths
      /\ There(LiveOf(d), p) = After(d, v)
      /\ event.what = IF \E i \in 2..Len(st) : st[i].v = v THEN "cycle"
                      ELSE IF After(d, v) = Nothing /\ p.globbed THEN "unmatched"
                      ELSE After(d, v).is
  BY VisitedTogether
<1>4. IsReader(r) /\ r.vars = kn /\ r.visits = vi
  BY DEF Followed
<1>5. /\ IsReader(next) /\ next.vars = r.vars /\ next.visits = r.visits + 1
      /\ next.open = IF event.what = "file" THEN Append(WithInnermost(r, f), opened)
                     ELSE WithInnermost(r, f)
  <2> HIDE DEF event, next, f, p
  <2> QED BY <1>4, VisitIs DEF event, next, f, p
<1>6. After(d, v) # Nothing /\ After(d, v).is = "file" /\ After(d, v).text = text
  BY DEF Nothing, File
<1>7. event.what = "file"
  <2> HIDE DEF event, p
  <2> QED BY <1>3, <1>6
<1>8. opened \in LiveFiles /\ new \in Frames /\ SameFile(opened, new) /\ Shows(d, new)
  <2>1. opened = [path |-> p, text |-> text, line |-> 0, todo |-> {}]
    BY <1>3, <1>6 DEF Opened
  <2>2. new = [v |-> v, text |-> text, out |-> <<>>, todo |-> {}]
    BY DEF Frame
  <2> HIDE DEF opened, new, event
  <2>3. opened \in LiveFiles
    BY <1>3, <2>1 DEF LiveFiles
  <2>4. new \in Frames
    BY <1>3, <2>2 DEF Frames
  <2>5. CalledAll(opened.todo) = {} /\ Uniform(opened.todo) /\ new.todo = {}
    BY <2>1, <2>2 DEF CalledAll, Uniform
  <2>6. Called(opened.path) = new.v /\ opened.text = new.text /\ opened.line = Len(new.out)
    BY <1>3, <2>1, <2>2
  <2>7. Shows(d, new)
    BY <2>2 DEF Shows
  <2> QED BY <2>3, <2>4, <2>5, <2>6, <2>7 DEF SameFile
<1>9. IsReader(mid) /\ mid.open = WithInnermost(r, f) /\ mid.vars = kn /\ mid.visits = vi
  BY DEF IsReader
<1> HIDE DEF event, next, f, p, v, new, opened, mid
<1>10. Followed(d, mid, st1, kn, vi)
  <2>1. Followed(d, mid, st1, mid.vars, mid.visits)
    BY <1>1, <1>9, FollowedTop
  <2> QED BY <1>9, <2>1
<1>11. st1 \in Seq(Frames) /\ st1 # <<>>
  BY <1>1, LastReplaced
<1>12. next.open = Append(mid.open, opened) /\ st2 = Append(st1, new)
  BY <1>5, <1>7, <1>9 DEF new, v
<1>13. Followed(d, next, st2, next.vars, next.visits)
  BY <1>5, <1>8, <1>10, <1>11, <1>12, FollowedOpened
<1> QED BY <1>4, <1>5, <1>13 DEF next

\* What a reading sees of a line of file v that the walk reads with variables kn.
LineSeen(d, event, v, i, line, kn) ==
    /\ event.file = v /\ event.line = i /\ event.deep = 0
    /\ line.is # "source" => event.what = line.is /\ event.among = {} /\ event.matched = {}
    /\ line.is = "source" /\ Resolve(line.value, v.dir, kn) = {} => event.what = "meaningless"
    /\ line.is = "source" => \A to \in Resolve(line.value, v.dir, kn) :
        /\ to \in Targets /\ to.dir \notin Range(Links) /\ event.to = {to}
        /\ Resolve(line.value, v.dir, kn) = {to}
        /\ event.what = "source"
        /\ event.among = IF to.dir = "*/" THEN DirsTo(to) ELSE {}
        /\ event.matched = IF to.rest = "*" THEN Matches(d, to) ELSE {}

\* The walk is in the file of frame s, before line.
AtLine(st, s, line) ==
    s = st[Len(st)] /\ Len(s.out) < Len(s.text) /\ line = s.text[Len(s.out) + 1]

LineLeads(d, p, line, dir, kn) ==
    line.is = "source" => \A to \in Resolve(line.value, dir, kn) : LedTo(d, line.value, p, kn, to)

\* The walk and the reading are at the same line.
LEMMA LineTogether ==
    ASSUME NEW d, NEW r, NEW st \in Seq(Frames), st # <<>>,
           NEW kn, Known(kn), NEW vi, Followed(d, r, st, kn, vi),
           NEW s, NEW line, AtLine(st, s, line)
    PROVE  /\ Innermost(r).text[Innermost(r).line + 1] = line /\ line \in UserLines
           /\ LineSeen(d, LineEvent(LiveOf(d), r), s.v, Len(s.out) + 1, line, kn)
           /\ LineLeads(d, Innermost(r).path, line, s.v.dir, kn)
<1> DEFINE f == Innermost(r)
           event == LineEvent(LiveOf(d), r)
           leads == Leads(LiveOf(d), line.value, f.path, kn)
           tos == Resolve(line.value, s.v.dir, kn)
<1>0. DOMAIN kn \subseteq VarNames /\ \A x \in DOMAIN kn : kn[x] \in Values({"live"})
  BY DEF Known
<1>13. s = st[Len(st)] /\ Len(s.out) < Len(s.text) /\ line = s.text[Len(s.out) + 1]
  BY DEF AtLine
<1>1. f \in LiveFiles /\ s \in Frames /\ SameFile(f, s) /\ r.vars = kn
  BY <1>13, InnermostIs DEF Followed
<1>2. /\ Called(f.path) = s.v /\ f.text = s.text /\ f.line = Len(s.out) /\ f.text[f.line + 1] = line
      /\ f.path \in LiveReached /\ f.path.dir \in Dirs /\ s.v.dir = Virtualize(f.path.dir)
  BY <1>1, <1>13 DEF SameFile, LiveFiles, LiveReached, Reached, Called
<1>3. line \in UserLines
  BY <1>1, <1>13 DEF Frames
<1>4. tos = Resolve(line.value, f.path.dir, kn)
  BY <1>2, ResolveCalled
<1> DEFINE base == Event(f.path, f.line + 1, line.is)
           to0 == Expand(line.value, kn)
<1>5. event = IF line.is = "define"
              THEN [base EXCEPT !.inside = @ /\ Inside(Expand(line.value, kn))]
              ELSE IF line.is # "source" THEN base
              ELSE IF Meaningless(line.value, kn) THEN [base EXCEPT !.what = "meaningless"]
              ELSE [base EXCEPT
                    !.to = Resolve(line.value, f.path.dir, kn),
                    !.among = IF to0.base = "*/" THEN ConfigDirs(LiveOf(d), to0.at) ELSE {},
                    !.matched = IF to0.rest = "*" THEN {Called(q) : q \in leads} ELSE {}]
  BY <1>1, <1>2 DEF LineEvent
<1>6. base = [file |-> s.v, line |-> Len(s.out) + 1, what |-> line.is, inside |-> f.path.at = "copy",
              deep |-> 0, to |-> {}, among |-> {}, matched |-> {}]
  BY <1>2 DEF Event
<1> HIDE DEF event, leads, tos, f, base
<1>7. event.file = s.v /\ event.line = Len(s.out) + 1 /\ event.deep = 0
  BY <1>5, <1>6
<1>8. line.is # "source" => event.what = line.is /\ event.among = {} /\ event.matched = {}
  BY <1>5, <1>6
<1>9. ASSUME line.is = "source", tos = {} PROVE event.what = "meaningless"
  <2>1. Meaningless(line.value, kn)
    BY <1>2, <1>4, <1>9, MeaninglessIs
  <2> QED BY <1>5, <1>6, <1>9, <2>1
<1>10. ASSUME line.is = "source", NEW to \in tos
       PROVE  /\ to \in Targets /\ to.dir \notin Range(Links) /\ tos = {to}
              /\ event.what = "source" /\ event.to = tos
              /\ event.among = IF to.dir = "*/" THEN DirsTo(to) ELSE {}
              /\ event.matched = IF to.rest = "*" THEN Matches(d, to) ELSE {}
              /\ LedTo(d, line.value, f.path, kn, to)
  <2>1. line.value \in Values({"live"}) /\ line.value.rest \in Names \union {"*"}
    BY <1>3, <1>10 DEF UserLines, LinesOf, Values
  <2>2. to \in Resolve(line.value, f.path.dir, kn)
    BY <1>4, <1>10
  <2>11. LedTo(d, line.value, f.path, kn, to)
    <3>1. SourceValue(line.value)
      BY <2>1 DEF SourceValue
    <3> QED BY <1>2, <2>2, <3>1, LiveLeads
  <2>3. /\ CalledAll(leads) = Matches(d, to)
        /\ to0.base = "*/" <=> to.dir = "*/"
        /\ to0.rest = to.rest
        /\ ConfigDirs(LiveOf(d), to0.at) = Config
    BY <2>11 DEF LedTo, leads
  <2>4. to \in Targets /\ to.dir \notin Range(Links) /\ \A x \in tos : x = to
    BY <1>0, <1>2, <1>4, <2>1, <2>2, Resolved
  <2>5. tos = {to}
    BY <1>10, <2>4
  <2>6. ~Meaningless(line.value, kn)
    BY <1>2, <2>2, MeaninglessIs
  <2> DEFINE among == IF to0.base = "*/" THEN ConfigDirs(LiveOf(d), to0.at) ELSE {}
             matched == IF to0.rest = "*" THEN {Called(q) : q \in leads} ELSE {}
  <2>7. event = [base EXCEPT !.to = Resolve(line.value, f.path.dir, kn), !.among = among,
                             !.matched = matched]
    BY <1>5, <1>10, <2>6
  <2>8. event.what = "source" /\ event.to = tos /\ event.among = among /\ event.matched = matched
    <3> HIDE DEF among, matched
    <3> QED BY <1>4, <1>6, <1>10, <2>7
  <2>9. among = IF to.dir = "*/" THEN DirsTo(to) ELSE {}
    BY <2>3 DEF DirsTo
  <2>10. matched = IF to.rest = "*" THEN Matches(d, to) ELSE {}
    BY <2>3 DEF CalledAll
  <2> QED BY <2>4, <2>5, <2>8, <2>9, <2>10, <2>11
<1>11. LineSeen(d, event, s.v, Len(s.out) + 1, line, kn)
  BY <1>7, <1>8, <1>9, <1>10 DEF LineSeen, tos
<1>12. LineLeads(d, f.path, line, s.v.dir, kn)
  BY <1>10 DEF LineLeads, tos
<1> QED BY <1>2, <1>3, <1>11, <1>12 DEF event, f

\* A file a line further.
LEMMA OneLineFurther ==
    ASSUME NEW f \in LiveFiles, NEW todo \in SUBSET LiveReached
    PROVE  LET f2 == Further(f, todo)
           IN  /\ f2 \in LiveFiles /\ f2.path = f.path /\ f2.text = f.text
               /\ f2.line = f.line + 1 /\ f2.todo = todo
<1> DEFINE f2 == Further(f, todo)
<1>0. PICK a, b, c, e : /\ a \in LiveReached /\ b \in Seq(UserLines) /\ c \in Nat
                        /\ f = [path |-> a, text |-> b, line |-> c, todo |-> e]
  BY DEF LiveFiles
<1>1. c \in Nat /\ f = [path |-> a, text |-> b, line |-> c, todo |-> e]
  BY <1>0
<1>3. f.path = a /\ f.text = b /\ f.line = c
  BY <1>1
<1>2. f2 = [path |-> a, text |-> b, line |-> c + 1, todo |-> todo]
  <2>1. f2 = [f EXCEPT !.line = c + 1, !.todo = todo]
    BY <1>3 DEF Further
  <2> QED BY <1>1, <2>1
<1> HIDE DEF f2
<1>4. f2 \in LiveFiles
  BY <1>0, <1>2 DEF LiveFiles
<1>5. f2.path = a /\ f2.text = b /\ f2.line = c + 1 /\ f2.todo = todo
  BY <1>2
<1> QED BY <1>3, <1>4, <1>5 DEF f2

\* The variables when a line is read.
KnownAfter(line, kn) == IF line.is = "define" THEN Define(line, kn) ELSE kn

\* The walk takes a line of the file of frame s, which becomes s2.
Takes(d, st, kn, s, line, new, s2, st2) ==
    /\ AtLine(st, s, line) /\ s.todo = {} /\ ~Refuses(line, s.v.dir, kn)
    /\ new = Sanitized(line, s.v.dir, kn) /\ new \in Lines
    /\ s2 \in Frames /\ s2.v = s.v /\ s2.text = s.text /\ s2.out = Append(s.out, new)
    /\ line.is # "source" => s2.todo = {}
    /\ line.is = "source" => \A to \in Resolve(line.value, s.v.dir, kn) : s2.todo = Matches(d, to)
    /\ st2 = [st EXCEPT ![Len(st)] = s2]

\* The walk and the reading read a line.
LEMMA FollowedRead ==
    ASSUME NEW d, NEW r, NEW st \in Seq(Frames), st # <<>>,
           NEW kn, Known(kn), NEW vi, Followed(d, r, st, kn, vi),
           NEW s, NEW line, NEW new, NEW s2, NEW st2, Takes(d, st, kn, s, line, new, s2, st2)
    PROVE  Followed(d, ReadNext(LiveOf(d), r), st2, KnownAfter(line, kn), vi)
<1> USE DEF Takes
<1> DEFINE f == Innermost(r)
           event == LineEvent(LiveOf(d), r)
           leads == IF event.what = "source" THEN Leads(LiveOf(d), line.value, f.path, r.vars) ELSE {}
           f2 == Further(f, leads)
           next == ReadNext(LiveOf(d), r)
           tos == Resolve(line.value, s.v.dir, kn)
<1>1. f \in LiveFiles /\ s \in Frames /\ SameFile(f, s) /\ r.vars = kn /\ r.visits = vi /\ IsReader(r)
  BY InnermostIs DEF Followed, AtLine
<1>14. Len(s2.out) = Len(s.out) + 1
  BY <1>1 DEF Frames
<1>13. s = st[Len(st)]
  BY DEF AtLine
<1>0. /\ Innermost(r).text[Innermost(r).line + 1] = line /\ line \in UserLines
      /\ LineSeen(d, LineEvent(LiveOf(d), r), s.v, Len(s.out) + 1, line, kn)
      /\ LineLeads(d, Innermost(r).path, line, s.v.dir, kn)
  <2> HIDE DEF f, event, leads, f2, next, tos
  <2> QED BY LineTogether
<1>2. /\ f.text[f.line + 1] = line /\ line \in UserLines
      /\ LineSeen(d, event, s.v, Len(s.out) + 1, line, kn)
      /\ line.is = "source" => \A to \in tos : LedTo(d, line.value, f.path, kn, to)
  BY <1>0 DEF LineLeads
<1>3. leads \in SUBSET LiveReached /\ Uniform(leads) /\ CalledAll(leads) = s2.todo
  <2>1. CASE line.is = "source"
    <3>1. PICK to \in tos : TRUE
      BY <2>1 DEF Refuses
    <3>2. event.what = "source"
      BY <1>2, <2>1, <3>1 DEF LineSeen
    <3>3. LedTo(d, line.value, f.path, kn, to) /\ s2.todo = Matches(d, to)
      BY <1>2, <2>1, <3>1
    <3>4. leads = Leads(LiveOf(d), line.value, f.path, kn)
      BY <1>1, <3>2
    <3> HIDE DEF event, tos, f, leads
    <3> QED BY <3>3, <3>4 DEF LedTo
  <2>2. CASE line.is # "source"
    <3>1. event.what # "source" /\ s2.todo = {}
      BY <1>2, <2>2 DEF LineSeen
    <3>2. leads = {}
      BY <3>1
    <3> HIDE DEF leads
    <3> QED BY <3>1, <3>2 DEF CalledAll, Uniform
  <2> QED BY <2>1, <2>2
<1>4. /\ IsReader(next) /\ next.visits = vi
      /\ next.vars = IF line.is = "define" THEN Define(line, kn) ELSE kn
      /\ next.open = WithInnermost(r, f2)
  <2>1. LET g == Innermost(r)
            line1 == g.text[g.line + 1]
            event1 == LineEvent(LiveOf(d), r)
            leads1 == IF event1.what = "source" THEN Leads(LiveOf(d), line1.value, g.path, r.vars) ELSE {}
        IN  /\ IsReader(next) /\ next.visits = r.visits
            /\ next.vars = IF line1.is = "define" THEN Define(line1, r.vars) ELSE r.vars
            /\ next.open = WithInnermost(r, Further(g, leads1))
    <3> HIDE DEF next
    <3> QED BY <1>1, ReadIs DEF next
  <2> HIDE DEF next
  <2> QED BY <1>1, <1>2, <2>1
<1> HIDE DEF event, leads, next, tos, f
<1>8. /\ f2 \in LiveFiles /\ f2.path = f.path /\ f2.text = f.text
      /\ f2.line = f.line + 1 /\ f2.todo = leads
  BY <1>1, <1>3, OneLineFurther
<1> HIDE DEF f2
<1>10. SameFile(f2, s2)
  <2>1. Called(f.path) = s.v /\ f.text = s.text /\ f.line = Len(s.out)
    BY <1>1 DEF SameFile
  <2> QED BY <1>3, <1>8, <1>14, <2>1 DEF SameFile
<1>11. Followed(d, next, st2, next.vars, next.visits)
  BY <1>1, <1>4, <1>8, <1>10, <1>13, FollowedTop
<1> QED BY <1>4, <1>11 DEF next, KnownAfter

-----------------------------------------------------------------------------
(***************************************************************************)
(* What a reading has seen stays seen                                      *)
(***************************************************************************)

\* Induction from one number up to another.
LEMMA UpFrom ==
    ASSUME NEW m \in Nat, NEW k \in Nat, NEW S, m \in S,
           \A n \in Nat : m <= n /\ n < k /\ n \in S => n + 1 \in S
    PROVE  \A n \in m..k : n \in S
<1> DEFINE T == {i \in Nat : m + i <= k => m + i \in S}
<1>1. 0 \in T
  OBVIOUS
<1>2. ASSUME NEW i \in Nat, i \in T PROVE i + 1 \in T
  <2>1. CASE m + i < k
    <3>1. m + i \in S /\ m + i \in Nat /\ m <= m + i
      BY <1>2, <2>1
    <3>2. (m + i) + 1 \in S
      BY <2>1, <3>1
    <3> QED BY <3>2
  <2>2. CASE ~(m + i < k)
    BY <2>2
  <2> QED BY <2>1, <2>2
<1>3. Nat \subseteq T
  <2> HIDE DEF T
  <2> QED BY <1>1, <1>2, SetInduction
<1> SUFFICES ASSUME NEW n \in m..k PROVE n \in S
  OBVIOUS
<1>4. n - m \in Nat
  OBVIOUS
<1>5. n - m \in T
  BY <1>3, <1>4
<1>6. m + (n - m) = n
  OBVIOUS
<1> QED BY <1>4, <1>5, <1>6

Counted(r) == IsReader(r) /\ r.visits \in Nat

\* A step forgets nothing that was seen.
LEMMA StepGrows ==
    ASSUME NEW tree, NEW r, Counted(r)
    PROVE  /\ Counted(Step(tree, r)) /\ r.seen \subseteq Step(tree, r).seen
           /\ r.visits <= Step(tree, r).visits
<1>1. IsReader(r) /\ r.visits \in Nat
  BY DEF Counted
<1>2. CASE Finished(r)
  BY <1>1, <1>2 DEF Step, Counted
<1>3. CASE ~Finished(r) /\ Innermost(r).todo # {}
  <2>1. Step(tree, r) = Visit(tree, r)
    BY <1>3 DEF Step
  <2>2. IsReader(Visit(tree, r)) /\ Visit(tree, r).visits = r.visits + 1
        /\ Visit(tree, r).seen = r.seen \union {VisitEvent(tree, r)}
    BY <1>1, VisitIs
  <2> QED BY <1>1, <2>1, <2>2 DEF Counted
<1>4. CASE ~Finished(r) /\ Innermost(r).todo = {} /\ Innermost(r).line < Len(Innermost(r).text)
  <2>1. Step(tree, r) = ReadNext(tree, r)
    BY <1>4 DEF Step
  <2>2. IsReader(ReadNext(tree, r)) /\ ReadNext(tree, r).visits = r.visits
        /\ ReadNext(tree, r).seen = r.seen \union {LineEvent(tree, r)}
    BY <1>1, ReadIs
  <2> QED BY <1>1, <2>1, <2>2 DEF Counted
<1>5. CASE ~Finished(r) /\ Innermost(r).todo = {} /\ ~(Innermost(r).line < Len(Innermost(r).text))
  <2>1. Step(tree, r) = Close(r)
    BY <1>5 DEF Step
  <2>2. IsReader(Close(r)) /\ Close(r).visits = r.visits /\ Close(r).seen = r.seen
    BY <1>1, CloseIs
  <2> QED BY <1>1, <2>1, <2>2 DEF Counted
<1> QED BY <1>2, <1>3, <1>4, <1>5

\* Nor does a run.
LEMMA RunGrows ==
    ASSUME NEW tree, NEW p, NEW m \in 0..MaxReads
    PROVE  /\ Counted(Run(tree, p)[m])
           /\ \A n \in m..MaxReads : /\ Run(tree, p)[m].seen \subseteq Run(tree, p)[n].seen
                                     /\ Run(tree, p)[m].visits <= Run(tree, p)[n].visits
                                     /\ Counted(Run(tree, p)[n])
<1> DEFINE run == Run(tree, p)
<1>0. MaxReads \in Nat /\ m \in Nat
  BY ReadsAssumption
<1>1. run[0] = Begin(p) /\ \A n \in 0..MaxReads : n < MaxReads => run[n + 1] = Step(tree, run[n])
  BY RunIsRun
<1>2. Counted(Begin(p))
  BY DEF Counted, IsReader, Begin
<1> HIDE DEF run
<1>3. \A n \in 0..MaxReads : Counted(run[n])
  <2> DEFINE S == {n \in 0..MaxReads : Counted(run[n])}
  <2>1. 0 \in S
    BY <1>0, <1>1, <1>2
  <2>2. \A n \in Nat : 0 <= n /\ n < MaxReads /\ n \in S => n + 1 \in S
    BY <1>0, <1>1, StepGrows
  <2>3. \A n \in 0..MaxReads : n \in S
    <3> HIDE DEF S
    <3> QED BY <1>0, <2>1, <2>2, UpFrom
  <2> QED BY <2>3
<1>4. \A n \in m..MaxReads : run[m].seen \subseteq run[n].seen /\ run[m].visits <= run[n].visits
  <2> DEFINE S == {n \in m..MaxReads : run[m].seen \subseteq run[n].seen /\ run[m].visits <= run[n].visits}
  <2>1. m \in S
    BY <1>0, <1>3 DEF Counted
  <2>2. ASSUME NEW n \in Nat, m <= n, n < MaxReads, n \in S PROVE n + 1 \in S
    <3>1. n \in 0..MaxReads /\ n + 1 \in 0..MaxReads /\ run[n + 1] = Step(tree, run[n])
      BY <1>0, <1>1, <2>2
    <3>2. Counted(run[n]) /\ Counted(run[n + 1]) /\ Counted(run[m])
      BY <1>3, <3>1
    <3>3. run[n].seen \subseteq run[n + 1].seen /\ run[n].visits <= run[n + 1].visits
      BY <3>1, <3>2, StepGrows
    <3>4. run[n].visits \in Nat /\ run[n + 1].visits \in Nat /\ run[m].visits \in Nat
      BY <3>2 DEF Counted
    <3> QED BY <1>0, <2>2, <3>3, <3>4
  <2>3. \A n \in m..MaxReads : n \in S
    <3> HIDE DEF S
    <3> QED BY <1>0, <2>1, <2>2, UpFrom
  <2> QED BY <2>3
<1>5. \A n \in m..MaxReads : n \in 0..MaxReads
  BY <1>0
<1> QED BY <1>3, <1>4, <1>5 DEF run

\* A finished reading has come to its end.
LEMMA RunRests ==
    ASSUME NEW tree, NEW p, NEW m \in 0..MaxReads, Finished(Run(tree, p)[m])
    PROVE  \A n \in m..MaxReads : Run(tree, p)[n] = Run(tree, p)[m]
<1> DEFINE run == Run(tree, p)
           S == {n \in m..MaxReads : run[n] = run[m]}
<1>0. MaxReads \in Nat /\ m \in Nat
  BY ReadsAssumption
<1>1. \A n \in 0..MaxReads : n < MaxReads => run[n + 1] = Step(tree, run[n])
  BY RunIsRun
<1> HIDE DEF run
<1>2. m \in S
  BY <1>0
<1>3. ASSUME NEW n \in Nat, m <= n, n < MaxReads, n \in S PROVE n + 1 \in S
  <2>1. run[n + 1] = Step(tree, run[n]) /\ run[n] = run[m]
    BY <1>0, <1>1, <1>3
  <2>2. Step(tree, run[m]) = run[m]
    BY DEF Step, run
  <2> QED BY <1>0, <1>3, <2>1, <2>2
<1>4. \A n \in m..MaxReads : n \in S
  <2> HIDE DEF S
  <2> QED BY <1>0, <1>2, <1>3, UpFrom
<1> QED BY <1>4 DEF run

\* The reading is followed to its end: a file that is open is not the end.
LEMMA RunGoesOn ==
    ASSUME NEW tree, NEW p, Finished(ReadingOf(tree, p)), NEW m \in 0..MaxReads,
           ~Finished(Run(tree, p)[m])
    PROVE  m < MaxReads /\ m + 1 \in 0..MaxReads /\ Run(tree, p)[m + 1] = Step(tree, Run(tree, p)[m])
<1>1. m # MaxReads
  BY DEF ReadingOf
<1> QED BY <1>1, RunIsRun, ReadsAssumption

-----------------------------------------------------------------------------
(***************************************************************************)
(* A finished reading has read every line of a file it opened              *)
(***************************************************************************)

LiveReader(r) == IsReader(r) /\ r.open \in Seq(LiveFiles) /\ Known(r.vars)

\* The innermost file of a reader of the config.
LEMMA InnermostLive ==
    ASSUME NEW r, LiveReader(r), ~Finished(r)
    PROVE  /\ Len(r.open) \in Nat /\ Len(r.open) >= 1 /\ r.open # <<>>
           /\ Innermost(r) = r.open[Len(r.open)] /\ Innermost(r) \in LiveFiles
BY DEF LiveReader, Finished, Innermost

\* The file with less left of its source.
LEMMA OneLess ==
    ASSUME NEW f \in LiveFiles, NEW p
    PROVE  LET f2 == [f EXCEPT !.todo = @ \ {p}]
           IN  f2 \in LiveFiles /\ f2.path = f.path /\ f2.text = f.text /\ f2.line = f.line
                /\ f2.todo = f.todo \ {p}
BY DEF LiveFiles

\* What is open after a visit.
LEMMA LiveVisit ==
    ASSUME NEW d, Disk(d), NEW r, LiveReader(r), ~Finished(r), Innermost(r).todo # {}
    PROVE  LET p == First(Innermost(r).todo)
               f == [Innermost(r) EXCEPT !.todo = @ \ {p}]
           IN  /\ LiveReader(Visit(LiveOf(d), r)) /\ f \in LiveFiles
               /\ f.text = Innermost(r).text /\ f.line = Innermost(r).line
               /\ \/ Visit(LiveOf(d), r).open = WithInnermost(r, f)
                  \/ \E g \in LiveFiles : Visit(LiveOf(d), r).open = Append(WithInnermost(r, f), g)
<1> DEFINE p == First(Innermost(r).todo)
           f == [Innermost(r) EXCEPT !.todo = @ \ {p}]
           event == VisitEvent(LiveOf(d), r)
           next == Visit(LiveOf(d), r)
           g == Opened(p, There(LiveOf(d), p).text, {})
<1>1. Innermost(r) \in LiveFiles /\ r.open # <<>> /\ r.open \in Seq(LiveFiles) /\ IsReader(r) /\ Known(r.vars)
  BY InnermostLive DEF LiveReader
<1>2. p \in LiveReached
  <2>1. Innermost(r).todo \subseteq LiveReached
    BY <1>1 DEF LiveFiles
  <2>2. \A q \in Innermost(r).todo : q.dir \in Dirs /\ q.name \in Names
    BY <2>1 DEF LiveReached, Reached
  <2>3. p \in Innermost(r).todo
    BY <2>2, FirstIn
  <2> QED BY <2>1, <2>3
<1>3. f \in LiveFiles /\ f.text = Innermost(r).text /\ f.line = Innermost(r).line
  BY <1>1, OneLess
<1>4. /\ IsReader(next) /\ next.vars = r.vars
      /\ next.open = IF event.what = "file" THEN Append(WithInnermost(r, f), g) ELSE WithInnermost(r, f)
  <2> HIDE DEF next, f, event, g, p
  <2> QED BY <1>1, VisitIs DEF next, f, event, g, p
<1>5. event.what = "file" => g \in LiveFiles
  <2>1. There(LiveOf(d), p) \in Contents
    <3>1. There(LiveOf(d), p) = After(d, Called(p)) /\ Called(p) \in Paths
      BY <1>2, LiveThere
    <3> QED BY <3>1, AfterContents DEF Disk
  <2>2. event.what = "file" => There(LiveOf(d), p).is = "file"
    BY DEF VisitEvent, Event
  <2>3. There(LiveOf(d), p).is = "file" => There(LiveOf(d), p).text \in Seq(UserLines)
    BY <2>1 DEF Contents, Nothing, Unfit
  <2> DEFINE text == There(LiveOf(d), p).text
  <2>4. g = [path |-> p, text |-> text, line |-> 0, todo |-> {}]
    BY DEF Opened
  <2> HIDE DEF event, text, p, g
  <2>5. event.what = "file" => text \in Seq(UserLines)
    BY <2>2, <2>3 DEF text
  <2> QED BY <1>2, <2>4, <2>5 DEF LiveFiles
<1> DEFINE open1 == WithInnermost(r, f)
<1>6. open1 \in Seq(LiveFiles)
  <2> HIDE DEF f
  <2> QED BY <1>1, <1>3, LastReplaced DEF WithInnermost
<1> HIDE DEF next, f, event, g, p, open1
<1>7. next.open \in Seq(LiveFiles) /\ (next.open = open1 \/ \E h \in LiveFiles : next.open = Append(open1, h))
  <2>1. CASE event.what = "file"
    BY <1>4, <1>5, <1>6, <2>1 DEF open1
  <2>2. CASE event.what # "file"
    BY <1>4, <1>6, <2>2 DEF open1
  <2> QED BY <2>1, <2>2
<1>8. LiveReader(next)
  BY <1>1, <1>4, <1>7 DEF LiveReader
<1> QED BY <1>3, <1>7, <1>8 DEF next, f, p, open1

\* What is open after a line.
LEMMA LiveLine ==
    ASSUME NEW d, NEW r, LiveReader(r), ~Finished(r), Innermost(r).line < Len(Innermost(r).text)
    PROVE  /\ LiveReader(ReadNext(LiveOf(d), r))
           /\ \E f \in LiveFiles :
                /\ f.text = Innermost(r).text /\ f.line = Innermost(r).line + 1
                /\ ReadNext(LiveOf(d), r).open = WithInnermost(r, f)
<1> DEFINE f == Innermost(r)
           line == f.text[f.line + 1]
           event == LineEvent(LiveOf(d), r)
           leads == IF event.what = "source" THEN Leads(LiveOf(d), line.value, f.path, r.vars) ELSE {}
           f2 == Further(f, leads)
           next == ReadNext(LiveOf(d), r)
<1>1. f \in LiveFiles /\ r.open # <<>> /\ r.open \in Seq(LiveFiles) /\ IsReader(r) /\ Known(r.vars)
  BY InnermostLive DEF LiveReader
<1>2. line \in UserLines /\ f.path \in LiveReached /\ f.path.dir \in Dirs
  <2>1. f.text \in Seq(UserLines) /\ f.line + 1 \in 1..Len(f.text) /\ f.path \in LiveReached
    BY <1>1 DEF LiveFiles
  <2> QED BY <2>1 DEF LiveReached, Reached
<1>3. event.what = "source" => line.is = "source" /\ ~Meaningless(line.value, r.vars)
  <2> DEFINE base == Event(f.path, f.line + 1, line.is)
  <2>1. base.what = line.is
    BY DEF Event
  <2>2. CASE line.is = "define"
    BY <2>2 DEF LineEvent, Event
  <2>3. CASE line.is # "define" /\ line.is # "source"
    <3>1. event = base
      BY <2>3 DEF LineEvent
    <3> QED BY <2>1, <2>3, <3>1
  <2>4. CASE line.is = "source" /\ Meaningless(line.value, r.vars)
    <3>1. event = [base EXCEPT !.what = "meaningless"]
      BY <2>4 DEF LineEvent
    <3>2. event.what = "meaningless"
      BY <3>1 DEF Event
    <3> QED BY <3>2
  <2> QED BY <2>2, <2>3, <2>4
<1>4. leads \in SUBSET LiveReached
  <2> SUFFICES ASSUME event.what = "source"
               PROVE  Leads(LiveOf(d), line.value, f.path, r.vars) \subseteq LiveReached
    OBVIOUS
  <2>1. line.is = "source" /\ ~Meaningless(line.value, r.vars)
    BY <1>3
  <2> HIDE DEF event, leads, f2, next, line, f
  <2>2. SourceValue(line.value)
    BY <1>2, <2>1 DEF UserLines, LinesOf, SourceValue, Values
  <2>3. PICK to \in Resolve(line.value, f.path.dir, r.vars) : TRUE
    BY <1>2, <2>1, MeaninglessIs
  <2>4. LedTo(d, line.value, f.path, r.vars, to)
    BY <1>1, <1>2, <2>2, LiveLeads
  <2> QED BY <2>4 DEF LedTo
<1>5. Known(IF line.is = "define" THEN Define(line, r.vars) ELSE r.vars)
  <2> SUFFICES ASSUME line.is = "define" PROVE Known(Define(line, r.vars))
    BY <1>1
  <2> HIDE DEF event, leads, f2, next, line, f
  <2>1. line.name \in VarNames /\ line.value \in Values({"live"})
    BY <1>2 DEF UserLines, LinesOf, Values
  <2>2. DOMAIN r.vars \subseteq VarNames /\ \A x \in DOMAIN r.vars : r.vars[x] \in Values({"live"})
    BY <1>1 DEF Known
  <2>3. /\ DOMAIN Define(line, r.vars) \subseteq VarNames
        /\ \A x \in DOMAIN Define(line, r.vars) : Define(line, r.vars)[x] \in Values({"live"})
    BY <2>1, <2>2, Defined
  <2> QED BY <2>3 DEF Known
<1>6. /\ IsReader(next) /\ next.open = WithInnermost(r, f2)
      /\ next.vars = IF line.is = "define" THEN Define(line, r.vars) ELSE r.vars
  <2> HIDE DEF next, event, leads, line, f
  <2> QED BY <1>1, ReadIs DEF next, event, leads, line, f
<1> HIDE DEF next, event, leads, line, f
<1>7. f2 \in LiveFiles /\ f2.text = f.text /\ f2.line = f.line + 1
  BY <1>1, <1>4, OneLineFurther
<1> HIDE DEF f2
<1>8. next.open \in Seq(LiveFiles)
  BY <1>1, <1>6, <1>7, LastReplaced DEF WithInnermost
<1>9. LiveReader(next)
  BY <1>5, <1>6, <1>8 DEF LiveReader
<1> QED BY <1>6, <1>7, <1>9 DEF next, f

\* Leaving a file leaves the others as they are.
LEMMA LiveClose ==
    ASSUME NEW r, LiveReader(r), ~Finished(r)
    PROVE  /\ LiveReader(Close(r)) /\ Len(Close(r).open) = Len(r.open) - 1
           /\ \A i \in 1..(Len(r.open) - 1) : Close(r).open[i] = r.open[i]
<1>1. r.open \in Seq(LiveFiles) /\ Len(r.open) > 0 /\ IsReader(r) /\ Known(r.vars)
  BY InnermostLive DEF LiveReader
<1>2. /\ Front(r.open) \in Seq(LiveFiles) /\ Len(Front(r.open)) = Len(r.open) - 1
      /\ \A i \in 1..(Len(r.open) - 1) : Front(r.open)[i] = r.open[i]
  BY <1>1, FrontIs
<1>3. IsReader(Close(r)) /\ Close(r).open = Front(r.open) /\ Close(r).vars = r.vars
  BY <1>1, CloseIs
<1> QED BY <1>1, <1>2, <1>3 DEF LiveReader

\* A continued line that is still to be read.
Pending(r) ==
    \E i \in 1..Len(r.open) :
        \E j \in (r.open[i].line + 1)..Len(r.open[i].text) : r.open[i].text[j] = Continues

JoinedSeen(r) == \E e \in r.seen : e.what = "joined"

\* It is read, or is still to be.
LEMMA PendingStep ==
    ASSUME NEW d, Disk(d), NEW r, LiveReader(r)
    PROVE  /\ LiveReader(Step(LiveOf(d), r))
           /\ Pending(r) => Pending(Step(LiveOf(d), r)) \/ JoinedSeen(Step(LiveOf(d), r))
<1> DEFINE n == Len(r.open)
           next == Step(LiveOf(d), r)
<1>1. CASE Finished(r)
  BY <1>1 DEF Step
<1>2. CASE ~Finished(r)
  <2>0. n \in Nat /\ n >= 1 /\ r.open # <<>> /\ Innermost(r) = r.open[n] /\ Innermost(r) \in LiveFiles
        /\ r.open \in Seq(LiveFiles) /\ \A i \in 1..n : r.open[i].line \in Nat
    <3>1. r.open \in Seq(LiveFiles) /\ \A i \in 1..n : r.open[i] \in LiveFiles
      BY DEF LiveReader
    <3> QED BY <1>2, <3>1, InnermostLive DEF LiveFiles
  <2>1. CASE Innermost(r).todo # {}
    <3> DEFINE p == First(Innermost(r).todo)
               f == [Innermost(r) EXCEPT !.todo = @ \ {p}]
               open1 == WithInnermost(r, f)
    <3>1. next = Visit(LiveOf(d), r)
      BY <1>2, <2>1 DEF Step
    <3>2. /\ LiveReader(next) /\ f \in LiveFiles
          /\ f.text = Innermost(r).text /\ f.line = Innermost(r).line
          /\ next.open = open1 \/ \E g \in LiveFiles : next.open = Append(open1, g)
      BY <1>2, <2>1, <3>1, LiveVisit
    <3> HIDE DEF f
    <3>3. /\ open1 \in Seq(LiveFiles) /\ Len(open1) = n
          /\ \A i \in 1..n : open1[i] = IF i = n THEN f ELSE r.open[i]
      BY <2>0, <3>2, LastReplaced DEF WithInnermost
    <3> HIDE DEF open1, next
    <3>4. Len(next.open) >= n /\ Len(next.open) \in Nat /\ \A i \in 1..n : next.open[i] = open1[i]
      <4>1. CASE next.open = open1
        BY <2>0, <3>3, <4>1
      <4>2. CASE \E g \in LiveFiles : next.open = Append(open1, g)
        <5>1. PICK g \in LiveFiles : next.open = Append(open1, g)
          BY <4>2
        <5> QED BY <2>0, <3>3, <5>1, Appended
      <4> QED BY <3>2, <4>1, <4>2
    <3>5. \A i \in 1..n : i \in 1..Len(next.open) /\ next.open[i].text = r.open[i].text
                           /\ next.open[i].line = r.open[i].line
      BY <2>0, <3>2, <3>3, <3>4
    <3>6. Pending(r) => Pending(next)
      BY <3>5 DEF Pending
    <3> QED BY <3>2, <3>6 DEF next
  <2>2. CASE Innermost(r).todo = {} /\ Innermost(r).line < Len(Innermost(r).text)
    <3>1. next = ReadNext(LiveOf(d), r)
      BY <1>2, <2>2 DEF Step
    <3>2. LiveReader(next)
      BY <1>2, <2>2, <3>1, LiveLine
    <3>3. PICK f \in LiveFiles : /\ f.text = Innermost(r).text /\ f.line = Innermost(r).line + 1
                                 /\ next.open = WithInnermost(r, f)
      BY <1>2, <2>2, <3>1, LiveLine
    <3>4. /\ Len(next.open) = n
          /\ \A i \in 1..n : next.open[i] = IF i = n THEN f ELSE r.open[i]
      BY <2>0, <3>3, LastReplaced DEF WithInnermost
    <3> DEFINE g == Innermost(r)
               line == g.text[g.line + 1]
    <3>5. line = Continues => JoinedSeen(next)
      <4> SUFFICES ASSUME line = Continues PROVE JoinedSeen(next)
        OBVIOUS
      <4>1. LineEvent(LiveOf(d), r) = Event(g.path, g.line + 1, "joined")
        BY DEF LineEvent, Continues
      <4>2. LineEvent(LiveOf(d), r).what = "joined"
        BY <4>1 DEF Event
      <4>3. LineEvent(LiveOf(d), r) \in next.seen
        <5>1. IsReader(r)
          BY DEF LiveReader
        <5>2. ReadNext(LiveOf(d), r).seen = r.seen \union {LineEvent(LiveOf(d), r)}
          BY <5>1, ReadIs
        <5> QED BY <3>1, <5>2
      <4> QED BY <4>2, <4>3 DEF JoinedSeen
    <3> HIDE DEF next
    <3>6. Pending(r) => Pending(next) \/ JoinedSeen(next)
      <4> SUFFICES ASSUME Pending(r), line # Continues PROVE Pending(next)
        BY <3>5
      <4>1. PICK i \in 1..n : \E j \in (r.open[i].line + 1)..Len(r.open[i].text) : r.open[i].text[j] = Continues
        BY DEF Pending
      <4>2. PICK j \in (r.open[i].line + 1)..Len(r.open[i].text) : r.open[i].text[j] = Continues
        BY <4>1
      <4>3. next.open[i].text = r.open[i].text
        BY <2>0, <3>3, <3>4
      <4>4. j \in (next.open[i].line + 1)..Len(next.open[i].text)
        <5>1. CASE i # n
          BY <3>4, <5>1
        <5>2. CASE i = n
          <6>1. j # g.line + 1
            BY <2>0, <4>2, <5>2
          <6>2. next.open[i].line = g.line + 1 /\ g.line \in Nat /\ g.line = r.open[i].line
            BY <2>0, <3>3, <3>4, <5>2
          <6> HIDE DEF line, g
          <6> QED BY <4>2, <4>3, <6>1, <6>2
        <5> QED BY <5>1, <5>2
      <4> QED BY <3>4, <4>2, <4>3, <4>4 DEF Pending
    <3> QED BY <3>2, <3>6 DEF next
  <2>3. CASE Innermost(r).todo = {} /\ ~(Innermost(r).line < Len(Innermost(r).text))
    <3>1. next = Close(r)
      BY <1>2, <2>3 DEF Step
    <3>2. LiveReader(next) /\ Len(next.open) = n - 1 /\ \A i \in 1..(n - 1) : next.open[i] = r.open[i]
      BY <1>2, <3>1, LiveClose
    <3> HIDE DEF next
    <3>3. ASSUME Pending(r) PROVE Pending(next)
      <4>1. PICK i \in 1..n : \E j \in (r.open[i].line + 1)..Len(r.open[i].text) : r.open[i].text[j] = Continues
        BY <3>3 DEF Pending
      <4>2. PICK j \in (r.open[i].line + 1)..Len(r.open[i].text) : r.open[i].text[j] = Continues
        BY <4>1
      <4>3. Len(Innermost(r).text) \in Nat /\ Innermost(r).line \in Nat
        BY <2>0 DEF LiveFiles
      <4>4. i # n
        BY <2>0, <2>3, <4>2, <4>3
      <4>5. i \in 1..(n - 1)
        BY <2>0, <4>4
      <4> QED BY <3>2, <4>2, <4>5 DEF Pending
    <3> QED BY <3>2, <3>3 DEF next
  <2> QED BY <2>1, <2>2, <2>3
<1> QED BY <1>1, <1>2

\* Every reading of the config is by such a reader.
LEMMA LiveRunIs ==
    ASSUME NEW d, Disk(d)
    PROVE  \A n \in 0..MaxReads : LiveReader(LiveRun(d)[n])
<1> DEFINE run == LiveRun(d)
           S == {n \in 0..MaxReads : LiveReader(run[n])}
           p == EntryAt("live")
<1>0. MaxReads \in Nat
  BY ReadsAssumption
<1>1. run[0] = Begin(p) /\ \A n \in 0..MaxReads : n < MaxReads => run[n + 1] = Step(LiveOf(d), run[n])
  BY RunIsRun DEF LiveRun
<1>2. LiveReader(Begin(p))
  <2>1. p \in LiveReached
    BY EntryAssumption, DirsAssumption DEF EntryAt, LiveReached, Reached, Ats
  <2> DEFINE f == Opened(p, <<>>, {p})
  <2>2. f \in LiveFiles
    BY <2>1 DEF Opened, LiveFiles
  <2>3. Begin(p) = [open |-> <<f>>, vars |-> <<>>, seen |-> {}, told |-> <<>>, visits |-> 0]
    BY DEF Begin
  <2> HIDE DEF f, p
  <2>4. <<f>> \in Seq(LiveFiles)
    BY <2>2
  <2>5. Known(<<>>)
    BY DEF Known
  <2> QED BY <2>3, <2>4, <2>5 DEF LiveReader, IsReader
<1> HIDE DEF run
<1>3. 0 \in S
  BY <1>0, <1>1, <1>2
<1>4. \A n \in Nat : 0 <= n /\ n < MaxReads /\ n \in S => n + 1 \in S
  BY <1>0, <1>1, PendingStep
<1>5. \A n \in 0..MaxReads : n \in S
  <2> HIDE DEF S
  <2> QED BY <1>0, <1>3, <1>4, UpFrom
<1> QED BY <1>5 DEF run

\* So a continued line in a file that was opened was seen in the end.
LEMMA JoinedIsSeen ==
    ASSUME NEW d, Disk(d), Finished(ReadingOf(LiveOf(d), EntryAt("live"))),
           NEW m \in 0..MaxReads, Pending(LiveRun(d)[m])
    PROVE  JoinedSeen(ReadingOf(LiveOf(d), EntryAt("live")))
<1> DEFINE run == LiveRun(d)
           Ok(n) == Pending(run[n]) \/ JoinedSeen(run[n])
           S == {n \in m..MaxReads : Ok(n)}
<1>0. MaxReads \in Nat /\ m \in Nat
  BY ReadsAssumption
<1>1. \A n \in 0..MaxReads : n < MaxReads => run[n + 1] = Step(LiveOf(d), run[n])
  BY RunIsRun DEF LiveRun
<1>2. \A n \in 0..MaxReads : LiveReader(run[n]) /\ Counted(run[n])
  BY LiveRunIs, RunGrows DEF LiveRun
<1>3. Pending(run[m])
  OBVIOUS
<1>4. ReadingOf(LiveOf(d), EntryAt("live")) = run[MaxReads]
  BY DEF ReadingOf, LiveRun
<1> HIDE DEF run
<1>5. m \in S
  BY <1>0, <1>3
<1>6. ASSUME NEW n \in Nat, m <= n, n < MaxReads, n \in S PROVE n + 1 \in S
  <2>1. n \in 0..MaxReads /\ n + 1 \in m..MaxReads
    BY <1>0, <1>6
  <2>2. run[n + 1] = Step(LiveOf(d), run[n]) /\ LiveReader(run[n]) /\ Counted(run[n])
    BY <1>1, <1>2, <1>6, <2>1
  <2>3. Pending(run[n]) => Ok(n + 1)
    BY <2>2, PendingStep
  <2>4. JoinedSeen(run[n]) => Ok(n + 1)
    BY <2>2, StepGrows DEF JoinedSeen
  <2> QED BY <1>6, <2>1, <2>3, <2>4
<1>7. \A n \in m..MaxReads : n \in S
  <2> HIDE DEF S
  <2> QED BY <1>0, <1>5, <1>6, UpFrom
<1>8. Ok(MaxReads)
  BY <1>0, <1>7
<1>9. ~Pending(run[MaxReads])
  BY <1>4 DEF Finished, Pending
<1> QED BY <1>4, <1>8, <1>9

-----------------------------------------------------------------------------
(***************************************************************************)
(* The copies stand for the reading                                        *)
(***************************************************************************)

\* What shows a copy still does when more was seen.
LEMMA ShownGrows ==
    ASSUME NEW d, NEW seen, NEW more, seen \subseteq more, NEW c, ShownCopy(d, seen, c)
    PROVE  ShownCopy(d, more, c)
<1>1. \A j \in 1..Len(c.out) : ShownLine(more, c, j, After(d, c.v).text[j])
  BY DEF ShownCopy, ShownLine
<1> QED BY <1>1 DEF ShownCopy

\* A copy of a file that nothing was read of yet.
NewCopy(d, c) == /\ c.v \in Paths /\ c.out = <<>>
                 /\ After(d, c.v) \in [is : {"file"}, text : Seq(UserLines)]

NoSource(e) == e.what # "source"

\* The walk comes to a path.
LEMMA CopiedVisit ==
    ASSUME NEW d, NEW r, NEW st, NEW fs, Copied(d, r, st, fs),
           NEW r2, NEW e, r2.seen = r.seen \union {e}, NoSource(e), Unobjected(r2),
           NEW st2, Copies(st, fs) \subseteq Copies(st2, fs),
           \A c \in Copies(st2, fs) : c \in Copies(st, fs) \/ NewCopy(d, c),
           \A q : Handled(d, st, fs, q) => Handled(d, st2, fs, q)
    PROVE  Copied(d, r2, st2, fs)
<1>1. /\ Recorded(r.seen, Copies(st, fs)) /\ Shown(d, r.seen, Copies(st, fs)) /\ Closed(d, st, fs)
      /\ \A v \in DOMAIN fs : Len(fs[v]) = Len(After(d, v).text)
  BY DEF Copied
<1>2. Recorded(r2.seen, Copies(st2, fs))
  <2> SUFFICES ASSUME NEW x \in r2.seen, x.what = "source"
               PROVE  \E c \in Copies(st2, fs), to \in Targets :
                        /\ x.to = {to} /\ c.v = x.file /\ x.line \in 1..Len(c.out)
                        /\ c.out[x.line] = Sourcing(to)
    BY DEF Recorded
  <2>1. x \in r.seen
    BY DEF NoSource
  <2> QED BY <1>1, <2>1 DEF Recorded
<1>3. Shown(d, r2.seen, Copies(st2, fs))
  <2> SUFFICES ASSUME NEW c \in Copies(st2, fs) PROVE ShownCopy(d, r2.seen, c)
    BY DEF Shown
  <2>1. CASE c \in Copies(st, fs)
    BY <1>1, <2>1, ShownGrows DEF Shown
  <2>2. CASE NewCopy(d, c)
    <3>1. Len(c.out) = 0 /\ c.out \in Seq(Lines)
      BY <2>2 DEF NewCopy
    <3>2. Len(After(d, c.v).text) \in Nat
      BY <2>2 DEF NewCopy
    <3> QED BY <2>2, <3>1, <3>2 DEF NewCopy, ShownCopy
  <2> QED BY <2>1, <2>2
<1>4. Closed(d, st2, fs)
  <2>1. Handled(d, st2, fs, EntryFile)
    BY <1>1 DEF Closed
  <2>2. ASSUME NEW c \in Copies(st2, fs), NEW j \in 1..Len(c.out)
        PROVE  ClosedLine(d, st2, fs, c.out[j])
    <3>1. c \in Copies(st, fs)
      BY <2>2 DEF NewCopy
    <3>2. ClosedLine(d, st, fs, c.out[j])
      BY <1>1, <3>1 DEF Closed
    <3> QED BY <3>2 DEF ClosedLine
  <2> QED BY <2>1, <2>2 DEF Closed
<1> QED BY <1>1, <1>2, <1>3, <1>4 DEF Copied

\* Two sources that sanitize makes are alike only if they lead to the same.
LEMMA SourcingIs ==
    ASSUME NEW to \in Targets, NEW t \in Targets, Sourcing(to) = Sourcing(t)
    PROVE  to = t
<1>1. to.dir = t.dir /\ to.rest = t.rest
  BY DEF Sourcing
<1> QED BY <1>1 DEF Targets

\* What stands in the copy for a line.
LEMMA SanitizedIs ==
    ASSUME NEW line \in UserLines, NEW dir, NEW kn
    PROVE  /\ line.is = "source" => \A to : Resolve(line.value, dir, kn) = {to} =>
                Sanitized(line, dir, kn) = Sourcing(to)
           /\ line.is # "source" => /\ Sanitized(line, dir, kn) = Sanitized(line, dir, <<>>)
                                    /\ \A to : Sanitized(line, dir, kn) # Sourcing(to)
<1>1. ASSUME line.is = "source", NEW to, Resolve(line.value, dir, kn) = {to}
      PROVE  Sanitized(line, dir, kn) = Sourcing(to)
  <2>1. (CHOOSE x \in Resolve(line.value, dir, kn) : TRUE) = to
    BY <1>1
  <2>2. Sanitized(line, dir, kn) = [line EXCEPT !.value = [at |-> "copy", base |-> to.dir, rest |-> to.rest]]
    BY <1>1, <2>1 DEF Sanitized, Strips
  <2>3. PICK value : line = [is |-> "source", value |-> value]
    BY <1>1 DEF UserLines, LinesOf
  <2> QED BY <2>2, <2>3 DEF Sourcing
<1>2. ASSUME line.is # "source" PROVE Sanitized(line, dir, kn) = Sanitized(line, dir, <<>>)
  BY <1>2 DEF Sanitized
<1>3. ASSUME line.is # "source", NEW to PROVE Sanitized(line, dir, kn) # Sourcing(to)
  <2>1. Sourcing(to).is = "source"
    BY DEF Sourcing
  <2>2. CASE Strips(line)
    <3>1. Sanitized(line, dir, kn) = Blank
      BY <2>2 DEF Sanitized, Strips
    <3>2. Blank.is = "blank"
      BY DEF Blank
    <3> QED BY <2>1, <3>1, <3>2
  <2>3. CASE ~Strips(line) /\ line.is = "define"
    <3>1. Sanitized(line, dir, kn) = [line EXCEPT !.value = Rewritten(@)]
      BY <2>3 DEF Sanitized
    <3>2. PICK name, value : line = [is |-> "define", name |-> name, value |-> value]
      BY <2>3 DEF UserLines, LinesOf
    <3>3. Sanitized(line, dir, kn).is = "define"
      BY <3>1, <3>2
    <3> QED BY <2>1, <3>3
  <2>4. CASE ~Strips(line) /\ line.is # "define"
    <3>1. Sanitized(line, dir, kn) = line
      BY <1>3, <2>4 DEF Sanitized
    <3> QED BY <1>3, <2>1, <3>1
  <2> QED BY <2>2, <2>3, <2>4
<1> QED BY <1>1, <1>2, <1>3

\* The fields of a copy.
LEMMA CopyIs ==
    ASSUME NEW v, NEW out
    PROVE  CopyOf(v, out).v = v /\ CopyOf(v, out).out = out
BY DEF CopyOf

\* One copy becomes another.
CopyMoves(st, st2, fs, c, c2) ==
    /\ \A x \in Copies(st2, fs) : x \in Copies(st, fs) \/ x = c2
    /\ c2 \in Copies(st2, fs) /\ c \in Copies(st, fs)
    /\ \A x \in Copies(st, fs) : x \in Copies(st2, fs) \/ x = c

\* The copies there are when the file being read becomes another frame.
LEMMA CopiesTop ==
    ASSUME NEW st \in Seq(Frames), Len(st) >= 2, NEW s \in Frames,
           NEW st2, st2 = [st EXCEPT ![Len(st)] = s], NEW fs
    PROVE  CopyMoves(st, st2, fs, CopyOf(st[Len(st)].v, st[Len(st)].out), CopyOf(s.v, s.out))
<1>0. st # <<>>
  OBVIOUS
<1>1. Len(st) \in Nat /\ Len(st) >= 1 /\ Len(st2) = Len(st)
      /\ \A i \in 1..Len(st) : st2[i] = IF i = Len(st) THEN s ELSE st[i]
  BY <1>0, LastReplaced
<1>2. ASSUME NEW c \in Copies(st2, fs)
      PROVE  c \in Copies(st, fs) \/ c = CopyOf(s.v, s.out)
  <2>1. CASE \E v \in DOMAIN fs : c = CopyOf(v, fs[v])
    BY <2>1 DEF Copies
  <2>2. CASE \E i \in 2..Len(st2) : c = CopyOf(st2[i].v, st2[i].out)
    <3>1. PICK i \in 2..Len(st) : c = CopyOf(st2[i].v, st2[i].out)
      BY <1>1, <2>2
    <3>2. i \in 1..Len(st) /\ Len(st) >= 2
      BY <1>1
    <3>3. CASE i = Len(st)
      BY <1>1, <3>1, <3>2, <3>3
    <3>4. CASE i # Len(st)
      <4>1. c = CopyOf(st[i].v, st[i].out)
        BY <1>1, <3>1, <3>2, <3>4
      <4> QED BY <4>1 DEF Copies
    <3> QED BY <3>3, <3>4
  <2> QED BY <2>1, <2>2 DEF Copies
<1>3. /\ CopyOf(s.v, s.out) \in Copies(st2, fs)
      /\ CopyOf(st[Len(st)].v, st[Len(st)].out) \in Copies(st, fs)
  <2>1. Len(st) \in 2..Len(st) /\ Len(st) \in 2..Len(st2) /\ st2[Len(st)] = s
    BY <1>1
  <2> QED BY <2>1 DEF Copies
<1>4. ASSUME NEW c \in Copies(st, fs)
      PROVE  c \in Copies(st2, fs) \/ c = CopyOf(st[Len(st)].v, st[Len(st)].out)
  <2>1. CASE \E v \in DOMAIN fs : c = CopyOf(v, fs[v])
    BY <2>1 DEF Copies
  <2>2. CASE \E i \in 2..Len(st) : c = CopyOf(st[i].v, st[i].out)
    <3>1. PICK i \in 2..Len(st) : c = CopyOf(st[i].v, st[i].out)
      BY <2>2
    <3>2. i \in 1..Len(st) /\ Len(st) >= 2 /\ i \in 2..Len(st2)
      BY <1>1
    <3>3. CASE i = Len(st)
      BY <3>1, <3>2, <3>3
    <3>4. CASE i # Len(st)
      <4>1. c = CopyOf(st2[i].v, st2[i].out)
        BY <1>1, <3>1, <3>2, <3>4
      <4> QED BY <3>2, <4>1 DEF Copies
    <3> QED BY <3>3, <3>4
  <2> QED BY <2>1, <2>2 DEF Copies
<1> QED BY <1>2, <1>3, <1>4 DEF CopyMoves

\* A copy of one line more.
LEMMA ShownFurther ==
    ASSUME NEW d, NEW seen, NEW more, seen \subseteq more, NEW v, NEW out, NEW new \in Lines,
           ShownCopy(d, seen, CopyOf(v, out)), NEW text \in Seq(UserLines),
           After(d, v) = File(text), Len(out) < Len(text),
           ShownLine(more, CopyOf(v, Append(out, new)), Len(out) + 1, text[Len(out) + 1])
    PROVE  ShownCopy(d, more, CopyOf(v, Append(out, new)))
<1> DEFINE c == CopyOf(v, out)
           c2 == CopyOf(v, Append(out, new))
<1>1. c.v = v /\ c.out = out /\ c2.v = v /\ c2.out = Append(out, new)
  BY CopyIs
<1>2. After(d, v).text = text
  BY DEF File
<1>3. ShownCopy(d, more, c)
  BY ShownGrows
<1>4. /\ v \in Paths /\ out \in Seq(Lines)
      /\ After(d, v) \in [is : {"file"}, text : Seq(UserLines)]
      /\ \A j \in 1..Len(out) : ShownLine(more, c, j, text[j])
  BY <1>1, <1>2, <1>3 DEF ShownCopy
<1>5. /\ Append(out, new) \in Seq(Lines) /\ Len(Append(out, new)) = Len(out) + 1 /\ Len(out) \in Nat
      /\ \A j \in 1..Len(out) : Append(out, new)[j] = out[j]
      /\ \A j \in 1..Len(Append(out, new)) : j \in 1..Len(out) \/ j = Len(out) + 1
  BY <1>4
<1>6. Len(text) \in Nat
  OBVIOUS
<1>7. ASSUME NEW j \in 1..Len(Append(out, new)) PROVE ShownLine(more, c2, j, text[j])
  <2>1. CASE j \in 1..Len(out)
    <3>1. ShownLine(more, c, j, text[j]) /\ c2.out[j] = c.out[j] /\ c2.v = c.v
      BY <1>1, <1>4, <1>5, <2>1
    <3> HIDE DEF c, c2
    <3> QED BY <3>1 DEF ShownLine
  <2>2. CASE j = Len(out) + 1
    BY <2>2
  <2> QED BY <1>5, <2>1, <2>2
<1> HIDE DEF c, c2
<1>8. ShownCopy(d, more, c2)
  BY <1>1, <1>2, <1>4, <1>5, <1>6, <1>7 DEF ShownCopy
<1> QED BY <1>8 DEF c2

\* The walk reads a line.
LEMMA CopiedRead ==
    ASSUME NEW d, NEW r, NEW st \in Seq(Frames), st # <<>>, NEW kn, NEW vi,
           Followed(d, r, st, kn, vi), NEW fs, Copied(d, r, st, fs),
           NEW s, NEW line, NEW new, NEW s2, NEW st2, Takes(d, st, kn, s, line, new, s2, st2),
           NEW e, LineSeen(d, e, s.v, Len(s.out) + 1, line, kn),
           NEW r2, r2.seen = r.seen \union {e}, Unobjected(r2)
    PROVE  Copied(d, r2, st2, fs)
<1> USE DEF Takes
<1> DEFINE i == Len(s.out) + 1
           c == CopyOf(s.v, s.out)
           c2 == CopyOf(s.v, Append(s.out, new))
<1>1. /\ Recorded(r.seen, Copies(st, fs)) /\ Shown(d, r.seen, Copies(st, fs)) /\ Closed(d, st, fs)
      /\ \A v \in DOMAIN fs : Len(fs[v]) = Len(After(d, v).text)
  BY DEF Copied
<1>2. s = st[Len(st)] /\ s \in Frames /\ Len(s.out) < Len(s.text) /\ line = s.text[i]
      /\ Len(st) \in Nat /\ Len(st) >= 1
  BY InnermostIs DEF AtLine
<1>3. /\ s.out \in Seq(Lines) /\ s.text \in Seq(UserLines) /\ s.v \in Paths /\ i \in 1..Len(s.text)
      /\ line \in UserLines
  BY <1>2 DEF Frames
<1>4. Len(st) >= 2 /\ After(d, s.v) = File(s.text)
  <2>1. Len(st) # 1
    BY <1>2, <1>3 DEF Followed
  <2>2. Len(st) >= 2
    <3>1. PICK n : n = Len(st) /\ n \in Nat /\ n >= 1 /\ n # 1
      BY <1>2, <2>1
    <3>2. n >= 2
      BY ONLY <3>1
    <3> QED BY <3>1, <3>2
  <2>3. Len(st) \in 2..Len(st)
    BY <1>2, <2>2
  <2> QED BY <1>2, <2>2, <2>3 DEF Followed
<1>5. c.v = s.v /\ c.out = s.out /\ c2.v = s.v /\ c2.out = Append(s.out, new)
  BY ONLY CopyIs
<1>6. /\ \A x \in Copies(st2, fs) : x \in Copies(st, fs) \/ x = c2
      /\ c2 \in Copies(st2, fs) /\ c \in Copies(st, fs)
      /\ \A x \in Copies(st, fs) : x \in Copies(st2, fs) \/ x = c
  <2>1. CopyMoves(st, st2, fs, CopyOf(st[Len(st)].v, st[Len(st)].out), CopyOf(s2.v, s2.out))
    BY <1>4, CopiesTop
  <2>2. CopyOf(s2.v, s2.out) = c2 /\ CopyOf(st[Len(st)].v, st[Len(st)].out) = c
    BY <1>2
  <2> HIDE DEF c, c2
  <2> QED BY <2>1, <2>2 DEF CopyMoves
<1>7. /\ Append(s.out, new) \in Seq(Lines) /\ Len(Append(s.out, new)) = i /\ Len(s.out) \in Nat
      /\ \A j \in 1..Len(s.out) : Append(s.out, new)[j] = s.out[j]
      /\ Append(s.out, new)[i] = new
      /\ \A j \in 1..i : j \in 1..Len(s.out) \/ j = i
      /\ \A j \in 1..Len(s.out) : j \in 1..i
      /\ i \in 1..i
  BY <1>3
\* A source of the file leads to one place, and that is written.
<1>8. ASSUME line.is = "source"
      PROVE  \E to \in Targets : /\ to.dir \notin Range(Links) /\ new = Sourcing(to)
                                 /\ to \in Resolve(line.value, s.v.dir, kn)
                                 /\ e.what = "source" /\ e.file = s.v /\ e.line = i /\ e.to = {to}
  <2>1. PICK to : to \in Resolve(line.value, s.v.dir, kn)
    BY <1>8 DEF Refuses
  <2>2. /\ to \in Targets /\ to.dir \notin Range(Links) /\ e.what = "source" /\ e.file = s.v
        /\ e.line = i /\ e.to = {to} /\ Resolve(line.value, s.v.dir, kn) = {to}
    BY <1>8, <2>1 DEF LineSeen
  <2>3. new = Sourcing(to)
    BY <1>3, <1>8, <2>2, SanitizedIs
  <2> QED BY <2>1, <2>2, <2>3
<1>9. e.what = "source" => line.is = "source"
  BY DEF LineSeen
<1>10. ASSUME line.is # "source" PROVE new = Sanitized(line, s.v.dir, <<>>) /\ \A to : new # Sourcing(to)
  BY <1>3, <1>10, SanitizedIs
<1>11. \A q : Handled(d, st, fs, q) => Handled(d, st2, fs, q)
  <2>1. /\ Len(st2) = Len(st)
        /\ \A j \in 1..Len(st) : st2[j] = IF j = Len(st) THEN s2 ELSE st[j]
    BY LastReplaced
  <2>2. \A j \in 1..Len(st) : st2[j].v = st[j].v /\ st[j].todo \subseteq st2[j].todo
    BY <1>2, <2>1
  <2>3. \A j \in 2..Len(st) : j \in 1..Len(st)
    BY <1>2
  <2> QED BY <2>1, <2>2, <2>3 DEF Handled
<1> HIDE DEF c, c2
<1>12. Recorded(r2.seen, Copies(st2, fs))
  <2> SUFFICES ASSUME NEW x \in r2.seen, x.what = "source"
               PROVE  \E k \in Copies(st2, fs), to \in Targets :
                        /\ x.to = {to} /\ k.v = x.file /\ x.line \in 1..Len(k.out)
                        /\ k.out[x.line] = Sourcing(to)
    BY DEF Recorded
  <2>1. CASE x \in r.seen
    <3>1. PICK k \in Copies(st, fs), to \in Targets :
                /\ x.to = {to} /\ k.v = x.file /\ x.line \in 1..Len(k.out)
                /\ k.out[x.line] = Sourcing(to)
      BY <1>1, <2>1 DEF Recorded
    <3>2. CASE k \in Copies(st2, fs)
      BY <3>1, <3>2
    <3>3. CASE k = c
      <4>1. c2.v = x.file /\ x.line \in 1..Len(c2.out) /\ c2.out[x.line] = Sourcing(to)
        BY <1>5, <1>7, <3>1, <3>3
      <4> QED BY <1>6, <3>1, <4>1
    <3> QED BY <1>6, <3>2, <3>3
  <2>2. CASE x = e
    <3>1. PICK to \in Targets : new = Sourcing(to) /\ e.file = s.v /\ e.line = i /\ e.to = {to}
      BY <1>8, <1>9, <2>2
    <3>2. c2.v = x.file /\ x.line \in 1..Len(c2.out) /\ c2.out[x.line] = Sourcing(to)
      BY <1>5, <1>7, <2>2, <3>1
    <3> QED BY <1>6, <2>2, <3>1, <3>2
  <2> QED BY <2>1, <2>2
<1>13. Shown(d, r2.seen, Copies(st2, fs))
  <2>1. ShownLine(r2.seen, c2, i, line)
    <3>1. CASE line.is = "source"
      <4>1. PICK to \in Targets : /\ to.dir \notin Range(Links) /\ new = Sourcing(to)
                                  /\ e.what = "source" /\ e.file = s.v /\ e.line = i /\ e.to = {to}
        BY <1>8, <3>1
      <4>2. c2.v = s.v /\ c2.out[i] = Sourcing(to) /\ e \in r2.seen
        BY <1>5, <1>7, <4>1
      <4> HIDE DEF i
      <4> QED BY <3>1, <4>1, <4>2 DEF ShownLine
    <3>2. CASE line.is # "source"
      <4>1. c2.v = s.v /\ c2.out[i] = Sanitized(line, s.v.dir, <<>>)
        BY <1>5, <1>7, <1>10, <3>2
      <4> HIDE DEF i
      <4> QED BY <3>2, <4>1 DEF ShownLine
    <3> QED BY <3>1, <3>2
  <2>2. ShownCopy(d, r.seen, c)
    BY <1>1, <1>6 DEF Shown
  <2>3. ShownCopy(d, r2.seen, c2)
    BY <1>2, <1>3, <1>4, <2>1, <2>2, ShownFurther DEF c, c2
  <2>4. \A x \in Copies(st, fs) : ShownCopy(d, r2.seen, x)
    BY <1>1, ShownGrows DEF Shown
  <2> QED BY <1>6, <2>3, <2>4 DEF Shown
<1>14. Closed(d, st2, fs)
  <2>1. Handled(d, st2, fs, EntryFile)
    BY <1>1, <1>11 DEF Closed
  <2>2. \A x : ClosedLine(d, st, fs, x) => ClosedLine(d, st2, fs, x)
    BY <1>11 DEF ClosedLine
  <2>3. ClosedLine(d, st2, fs, new)
    <3> SUFFICES ASSUME NEW to \in Targets, new = Sourcing(to), NEW q \in Matches(d, to)
                 PROVE  Handled(d, st2, fs, q)
      BY DEF ClosedLine
    <3>1. line.is = "source"
      BY <1>10
    <3>2. PICK t \in Targets : new = Sourcing(t) /\ t \in Resolve(line.value, s.v.dir, kn)
      BY <1>8, <3>1
    <3>3. t = to
      BY <3>2, SourcingIs
    <3>4. q \in s2.todo /\ Len(st) \in 1..Len(st2) /\ st2[Len(st)] = s2
      BY <1>2, <3>1, <3>2, <3>3, LastReplaced
    <3> QED BY <3>4 DEF Handled
  <2>4. ASSUME NEW x \in Copies(st2, fs), NEW j \in 1..Len(x.out)
        PROVE  ClosedLine(d, st2, fs, x.out[j])
    <3>1. CASE x \in Copies(st, fs)
      BY <1>1, <2>2, <3>1 DEF Closed
    <3>2. CASE x = c2 /\ j \in 1..Len(s.out)
      <4>1. x.out[j] = c.out[j] /\ j \in 1..Len(c.out)
        BY <1>5, <1>7, <3>2
      <4> QED BY <1>1, <1>6, <2>2, <4>1 DEF Closed
    <3>3. CASE x = c2 /\ j = i
      <4>1. x.out[j] = new
        BY <1>5, <1>7, <3>3
      <4> QED BY <2>3, <4>1
    <3>4. x = c2 => j \in 1..i
      BY <1>5, <1>7, <2>4
    <3> QED BY <1>6, <1>7, <3>1, <3>2, <3>3, <3>4
  <2> QED BY <2>1, <2>4 DEF Closed
<1> QED BY <1>1, <1>12, <1>13, <1>14 DEF Copied

\* The copies stay as they are.
LEMMA CopiedSame ==
    ASSUME NEW d, NEW r, NEW st, NEW fs, Copied(d, r, st, fs),
           NEW r2, r2.seen = r.seen, r2.visits = r.visits,
           NEW st2, NEW fs2, Copies(st2, fs2) = Copies(st, fs),
           \A q : Handled(d, st, fs, q) => Handled(d, st2, fs2, q),
           \A v \in DOMAIN fs2 : Len(fs2[v]) = Len(After(d, v).text)
    PROVE  Copied(d, r2, st2, fs2)
<1>1. Unobjected(r2)
  BY DEF Copied, Unobjected
<1>2. \A x : ClosedLine(d, st, fs, x) => ClosedLine(d, st2, fs2, x)
  BY DEF ClosedLine
<1>3. Closed(d, st2, fs2)
  BY <1>2 DEF Copied, Closed
<1> QED BY <1>1, <1>3 DEF Copied

\* The file of frame s is read to its end.
AtEnd(st, s) == s = st[Len(st)] /\ s.todo = {} /\ Len(s.out) = Len(s.text)

\* The walk leaves a file.
LEMMA CopiedLeave ==
    ASSUME NEW d, NEW r, IsReader(r), NEW st \in Seq(Frames), Len(st) >= 2,
           NEW kn, NEW vi, Followed(d, r, st, kn, vi), NEW fs, Copied(d, r, st, fs),
           NEW s, AtEnd(st, s), s.v \in DOMAIN fs => fs[s.v] = s.out,
           NEW st2, st2 = Front(st), NEW fs2, fs2 = Insert(fs, s.v, s.out)
    PROVE  Copied(d, Close(r), st2, fs2)
<1>1. /\ Len(st) \in Nat /\ Len(st) \in 2..Len(st) /\ st # <<>>
      /\ s = st[Len(st)] /\ s.todo = {} /\ Len(s.out) = Len(s.text)
  BY DEF AtEnd
<1>2. /\ Len(st2) = Len(st) - 1 /\ \A i \in 1..Len(st2) : st2[i] = st[i]
  BY <1>1, FrontIs
<1>3. /\ \A i \in 1..Len(st2) : i \in 1..Len(st)
      /\ \A i \in 2..Len(st2) : i \in 2..Len(st) /\ i \in 1..Len(st2)
      /\ \A i \in 2..Len(st) : i \in 2..Len(st2) \/ i = Len(st)
      /\ \A i \in 1..Len(st) : i \in 1..Len(st2) \/ i = Len(st)
  BY <1>1, <1>2
<1>4. /\ DOMAIN fs2 = DOMAIN fs \union {s.v} /\ fs2[s.v] = s.out
      /\ \A v \in DOMAIN fs : fs2[v] = fs[v]
  BY DEF Insert
<1>5. /\ r.seen = Close(r).seen /\ r.visits = Close(r).visits
  BY CloseIs
<1>6. Copies(st2, fs2) \subseteq Copies(st, fs)
  <2> SUFFICES ASSUME NEW c \in Copies(st2, fs2) PROVE c \in Copies(st, fs)
    OBVIOUS
  <2>1. CASE \E v \in DOMAIN fs2 : c = CopyOf(v, fs2[v])
    <3>1. PICK v \in DOMAIN fs2 : c = CopyOf(v, fs2[v])
      BY <2>1
    <3>2. CASE v = s.v
      <4>1. c = CopyOf(st[Len(st)].v, st[Len(st)].out)
        BY <1>1, <1>4, <3>1, <3>2
      <4> QED BY <1>1, <4>1 DEF Copies
    <3>3. CASE v # s.v
      BY <1>4, <3>1, <3>3 DEF Copies
    <3> QED BY <3>2, <3>3
  <2>2. CASE \E i \in 2..Len(st2) : c = CopyOf(st2[i].v, st2[i].out)
    <3>1. PICK i \in 2..Len(st2) : c = CopyOf(st2[i].v, st2[i].out)
      BY <2>2
    <3>2. i \in 2..Len(st) /\ c = CopyOf(st[i].v, st[i].out)
      BY <1>2, <1>3, <3>1
    <3> QED BY <3>2 DEF Copies
  <2> QED BY <2>1, <2>2 DEF Copies
<1>7. Copies(st, fs) \subseteq Copies(st2, fs2)
  <2> SUFFICES ASSUME NEW c \in Copies(st, fs) PROVE c \in Copies(st2, fs2)
    OBVIOUS
  <2>1. CASE \E v \in DOMAIN fs : c = CopyOf(v, fs[v])
    <3>1. PICK v \in DOMAIN fs : c = CopyOf(v, fs[v])
      BY <2>1
    <3>2. v \in DOMAIN fs2 /\ c = CopyOf(v, fs2[v])
      BY <1>4, <3>1
    <3> QED BY <3>2 DEF Copies
  <2>2. CASE \E i \in 2..Len(st) : c = CopyOf(st[i].v, st[i].out)
    <3>1. PICK i \in 2..Len(st) : c = CopyOf(st[i].v, st[i].out)
      BY <2>2
    <3>2. CASE i = Len(st)
      <4>1. c = CopyOf(s.v, fs2[s.v]) /\ s.v \in DOMAIN fs2
        BY <1>1, <1>4, <3>1, <3>2
      <4> QED BY <4>1 DEF Copies
    <3>3. CASE i # Len(st)
      <4>1. i \in 2..Len(st2) /\ c = CopyOf(st2[i].v, st2[i].out)
        BY <1>2, <1>3, <3>1, <3>3
      <4> QED BY <4>1 DEF Copies
    <3> QED BY <3>2, <3>3
  <2> QED BY <2>1, <2>2 DEF Copies
<1>8. ASSUME NEW q, Handled(d, st, fs, q) PROVE Handled(d, st2, fs2, q)
  <2>1. CASE \E i \in 2..Len(st) : st[i].v = q
    <3>1. PICK i \in 2..Len(st) : st[i].v = q
      BY <2>1
    <3>2. CASE i = Len(st)
      <4>1. q \in DOMAIN fs2
        BY <1>1, <1>4, <3>1, <3>2
      <4> QED BY <4>1 DEF Handled
    <3>3. CASE i # Len(st)
      <4>1. i \in 2..Len(st2) /\ st2[i].v = q
        BY <1>2, <1>3, <3>1, <3>3
      <4> QED BY <4>1 DEF Handled
    <3> QED BY <3>2, <3>3
  <2>2. CASE \E i \in 1..Len(st) : q \in st[i].todo
    <3>1. PICK i \in 1..Len(st) : q \in st[i].todo
      BY <2>2
    <3>2. i # Len(st)
      BY <1>1, <3>1
    <3>3. i \in 1..Len(st2) /\ q \in st2[i].todo
      BY <1>2, <1>3, <3>1, <3>2
    <3> QED BY <3>3 DEF Handled
  <2>3. CASE q \in DOMAIN fs \/ After(d, q) = Nothing
    BY <1>4, <2>3 DEF Handled
  <2> QED BY <1>8, <2>1, <2>2, <2>3 DEF Handled
<1>9. \A v \in DOMAIN fs2 : Len(fs2[v]) = Len(After(d, v).text)
  <2>1. \A v \in DOMAIN fs : Len(fs[v]) = Len(After(d, v).text)
    BY DEF Copied
  <2>2. After(d, s.v) = File(s.text)
    BY <1>1 DEF Followed
  <2>3. After(d, s.v).text = s.text
    BY <2>2 DEF File
  <2> QED BY <1>1, <1>4, <2>1, <2>3
<1>10. Copies(st2, fs2) = Copies(st, fs)
  BY <1>6, <1>7
<1> QED BY <1>5, <1>8, <1>9, <1>10, CopiedSame

\* The walk ends.
LEMMA CopiedEnd ==
    ASSUME NEW d, NEW r, IsReader(r), NEW st, Len(st) = 1, NEW fs, Copied(d, r, st, fs),
           NEW s, AtEnd(st, s)
    PROVE  Copied(d, Close(r), <<>>, fs)
<1>1. st[1].todo = {}
  BY DEF AtEnd
<1>2. Len(<<>>) = 0 /\ 2..0 = {} /\ 2..1 = {} /\ 1..1 = {1}
  OBVIOUS
<1>3. Copies(<<>>, fs) = Copies(st, fs)
  BY <1>2 DEF Copies
<1>4. \A q : Handled(d, st, fs, q) => Handled(d, <<>>, fs, q)
  BY <1>1, <1>2 DEF Handled
<1>5. /\ Close(r).seen = r.seen /\ Close(r).visits = r.visits
  BY CloseIs
<1>6. \A v \in DOMAIN fs : Len(fs[v]) = Len(After(d, v).text)
  BY DEF Copied
<1> QED BY <1>3, <1>4, <1>5, <1>6, CopiedSame

\* A path that the walk comes to without an objection.
Fits(d, st, v, vi) ==
    /\ \A i \in 2..Len(st) : st[i].v # v
    /\ After(d, v) # Unfit /\ Len(st) - 1 < MaxDepth /\ vi \in Nat /\ vi + 1 <= MaxFiles

\* What is added by a reading that comes to a path.
VisitAdds(r, r2) == \E e : r2.seen = r.seen \union {e} /\ NoSource(e)

\* A path that fits is nothing to object to.
LEMMA VisitUnobjected ==
    ASSUME NEW d, Disk(d), NEW r, NEW st \in Seq(Frames), st # <<>>, NEW kn, NEW vi,
           Followed(d, r, st, kn, vi), st[Len(st)].todo # {}, Unobjected(r),
           Fits(d, st, First(st[Len(st)].todo), vi)
    PROVE  Unobjected(Visit(LiveOf(d), r)) /\ VisitAdds(r, Visit(LiveOf(d), r))
<1> DEFINE p == First(Innermost(r).todo)
           v == First(st[Len(st)].todo)
           e == VisitEvent(LiveOf(d), r)
           r2 == Visit(LiveOf(d), r)
<1>1. /\ After(d, v) \in Contents /\ e.deep = Len(st) - 1 /\ e.among = {} /\ e.matched = {}
      /\ e.what = IF \E i \in 2..Len(st) : st[i].v = v THEN "cycle"
                  ELSE IF After(d, v) = Nothing /\ p.globbed THEN "unmatched"
                  ELSE After(d, v).is
  BY VisitedTogether
<1>2. IsReader(r) /\ r.visits = vi
  BY DEF Followed
<1>3. r2.seen = r.seen \union {e} /\ r2.visits = r.visits + 1
  BY <1>2, VisitIs
<1>4. Len(st) \in Nat
  OBVIOUS
<1> HIDE DEF p, e, r2
<1>5. e.what \in {"unmatched", "none", "file"}
  <2>1. After(d, v).is \in {"none", "file"}
    BY <1>1 DEF Fits, Contents, Nothing, Unfit
  <2> QED BY <1>1, <2>1 DEF Fits
<1>6. UnobjectedEvent(e)
  <2>1. Cardinality({}) = 0
    BY FS_EmptySet
  <2>2. MaxFiles \in Nat /\ MaxDepth \in Nat
    BY BoundsAssumption
  <2>3. ~(e.deep >= MaxDepth)
    BY <1>1, <1>4, <2>2 DEF Fits
  <2> QED BY <1>1, <1>5, <2>1, <2>2, <2>3 DEF UnobjectedEvent
<1>7. ~(r2.visits > MaxFiles)
  BY <1>2, <1>3, BoundsAssumption DEF Fits
<1>8. Unobjected(r2)
  BY <1>3, <1>6, <1>7 DEF Unobjected
<1>9. VisitAdds(r, r2)
  BY <1>3, <1>5 DEF VisitAdds, NoSource
<1> QED BY <1>8, <1>9 DEF r2

\* The frame with less left of its source.
CalledOf(s) == [s EXCEPT !.todo = @ \ {First(s.todo)}]

\* The frame the walk leaves when it visits a path.
LEMMA CalledOfIs ==
    ASSUME NEW s \in Frames
    PROVE  /\ CalledOf(s) \in Frames /\ CalledOf(s).v = s.v /\ CalledOf(s).text = s.text
           /\ CalledOf(s).out = s.out /\ CalledOf(s).todo = s.todo \ {First(s.todo)}
<1>1. s = [v |-> s.v, text |-> s.text, out |-> s.out, todo |-> s.todo]
  BY DEF Frames
<1>2. CalledOf(s) = [v |-> s.v, text |-> s.text, out |-> s.out, todo |-> s.todo \ {First(s.todo)}]
  BY <1>1 DEF CalledOf
<1> QED BY <1>2 DEF Frames

\* The frames but for what is left of a source.
SameFrames(st, st2) ==
    /\ Len(st2) = Len(st)
    /\ \A i \in 1..Len(st) : st2[i].v = st[i].v /\ st2[i].out = st[i].out

\* Frames of the same files and lines stand for the same copies.
LEMMA CopiesAlike ==
    ASSUME NEW st, NEW st2, SameFrames(st, st2), Len(st) \in Nat, NEW fs
    PROVE  Copies(st2, fs) = Copies(st, fs)
<1>1. \A i \in 2..Len(st) : i \in 1..Len(st)
  OBVIOUS
<1>2. \A i \in 2..Len(st) : CopyOf(st2[i].v, st2[i].out) = CopyOf(st[i].v, st[i].out)
  BY <1>1 DEF SameFrames
<1>3. {CopyOf(st2[i].v, st2[i].out) : i \in 2..Len(st)} = {CopyOf(st[i].v, st[i].out) : i \in 2..Len(st)}
  BY <1>2
<1> QED BY <1>3 DEF Copies, SameFrames

\* The walk comes to nothing.
LEMMA CopiedNothing ==
    ASSUME NEW d, NEW r, NEW st \in Seq(Frames), st # <<>>, NEW fs, Copied(d, r, st, fs),
           st[Len(st)].todo # {}, After(d, First(st[Len(st)].todo)) = Nothing,
           NEW st2, st2 = [st EXCEPT ![Len(st)] = CalledOf(st[Len(st)])],
           NEW r2, VisitAdds(r, r2), Unobjected(r2)
    PROVE  Copied(d, r2, st2, fs)
<1> DEFINE v == First(st[Len(st)].todo)
           s == st[Len(st)]
           s2 == CalledOf(s)
<1>1. Len(st) \in Nat /\ Len(st) \in 1..Len(st) /\ s \in Frames
  OBVIOUS
<1>2. s2 \in Frames /\ s2.v = s.v /\ s2.out = s.out /\ s2.todo = s.todo \ {v}
  BY <1>1, CalledOfIs
<1>3. Len(st2) = Len(st) /\ \A i \in 1..Len(st) : st2[i] = IF i = Len(st) THEN s2 ELSE st[i]
  BY <1>2, LastReplaced
<1>4. SameFrames(st, st2)
  BY <1>2, <1>3 DEF SameFrames
<1>5. Copies(st2, fs) = Copies(st, fs)
  BY <1>1, <1>4, CopiesAlike
<1>6. ASSUME NEW q, Handled(d, st, fs, q) PROVE Handled(d, st2, fs, q)
  <2>1. CASE q = v
    BY <2>1 DEF Handled
  <2>2. CASE q # v
    <3>1. \A i \in 1..Len(st) : st2[i].v = st[i].v /\ (q \in st[i].todo => q \in st2[i].todo)
      BY <1>2, <1>3, <2>2
    <3>2. \A i \in 2..Len(st) : i \in 1..Len(st)
      BY <1>1
    <3> QED BY <1>3, <1>6, <3>1, <3>2 DEF Handled
  <2> QED BY <2>1, <2>2
<1>7. PICK e : r2.seen = r.seen \union {e} /\ NoSource(e)
  BY DEF VisitAdds
<1> QED BY <1>5, <1>6, <1>7, CopiedVisit

\* The walk opens a file.
LEMMA CopiedFile ==
    ASSUME NEW d, NEW r, NEW st \in Seq(Frames), st # <<>>, NEW fs, Copied(d, r, st, fs),
           st[Len(st)].todo # {}, NEW text \in Seq(UserLines),
           First(st[Len(st)].todo) \in Paths,
           After(d, First(st[Len(st)].todo)) = File(text),
           NEW st1, st1 = [st EXCEPT ![Len(st)] = CalledOf(st[Len(st)])],
           NEW st2, st2 = Append(st1, Frame(First(st[Len(st)].todo), text, {})),
           NEW r2, VisitAdds(r, r2), Unobjected(r2)
    PROVE  Copied(d, r2, st2, fs)
<1> DEFINE v == First(st[Len(st)].todo)
           s == st[Len(st)]
           s2 == CalledOf(s)
           t == Frame(v, text, {})
<1>1. Len(st) \in Nat /\ Len(st) \in 1..Len(st) /\ s \in Frames
  OBVIOUS
<1>2. s2 \in Frames /\ s2.v = s.v /\ s2.out = s.out /\ s2.todo = s.todo \ {v}
  BY <1>1, CalledOfIs
<1>3. /\ st1 \in Seq(Frames) /\ Len(st1) = Len(st)
      /\ \A i \in 1..Len(st) : st1[i] = IF i = Len(st) THEN s2 ELSE st[i]
  BY <1>2, LastReplaced
<1>4. t \in Frames /\ t.v = v /\ t.out = <<>> /\ st2 = Append(st1, t)
  BY DEF Frame, Frames
<1> HIDE DEF t
<1>5. /\ Len(st2) = Len(st) + 1 /\ st2[Len(st) + 1] = t
      /\ \A i \in 1..Len(st) : st2[i] = IF i = Len(st) THEN s2 ELSE st[i]
  <2>1. Len(st2) = Len(st1) + 1 /\ st2[Len(st2)] = t /\ \A i \in 1..Len(st1) : st2[i] = st1[i]
    BY ONLY <1>3, <1>4, Appended
  <2> QED BY <1>3, <2>1
<1>6. /\ \A i \in 2..Len(st) : i \in 1..Len(st) /\ i \in 2..Len(st2)
      /\ \A i \in 1..Len(st) : i \in 1..Len(st2)
      /\ Len(st) + 1 \in 2..Len(st2)
      /\ \A i \in 2..Len(st2) : i \in 2..Len(st) \/ i = Len(st) + 1
  BY <1>1, <1>5
<1>7. \A i \in 1..Len(st) : st2[i].v = st[i].v /\ st2[i].out = st[i].out
  BY <1>2, <1>5
<1>8. Copies(st, fs) \subseteq Copies(st2, fs)
  <2>1. \A i \in 2..Len(st) : CopyOf(st[i].v, st[i].out) = CopyOf(st2[i].v, st2[i].out) /\ i \in 2..Len(st2)
    BY <1>6, <1>7
  <2> QED BY <2>1 DEF Copies
<1>9. ASSUME NEW c \in Copies(st2, fs) PROVE c \in Copies(st, fs) \/ NewCopy(d, c)
  <2>1. CASE \E u \in DOMAIN fs : c = CopyOf(u, fs[u])
    BY <2>1 DEF Copies
  <2>2. CASE \E i \in 2..Len(st2) : c = CopyOf(st2[i].v, st2[i].out)
    <3>1. PICK i \in 2..Len(st2) : c = CopyOf(st2[i].v, st2[i].out)
      BY <2>2
    <3>2. CASE i \in 2..Len(st)
      <4>1. c = CopyOf(st[i].v, st[i].out)
        BY <1>6, <1>7, <3>1, <3>2
      <4> QED BY <3>2, <4>1 DEF Copies
    <3>3. CASE i = Len(st) + 1
      <4>1. c = CopyOf(v, <<>>)
        BY <1>4, <1>5, <3>1, <3>3
      <4>2. c.v = v /\ c.out = <<>>
        BY <4>1, CopyIs
      <4>3. File(text) \in [is : {"file"}, text : Seq(UserLines)]
        BY DEF File
      <4> QED BY <4>2, <4>3 DEF NewCopy
    <3> QED BY <1>6, <3>2, <3>3
  <2> QED BY <2>1, <2>2 DEF Copies
<1>10. ASSUME NEW q, Handled(d, st, fs, q) PROVE Handled(d, st2, fs, q)
  <2>1. CASE q = v
    <3>1. st2[Len(st) + 1].v = q
      BY <1>4, <1>5, <2>1
    <3> QED BY <1>6, <3>1 DEF Handled
  <2>2. CASE q # v
    <3>1. \A i \in 1..Len(st) : q \in st[i].todo => q \in st2[i].todo
      BY <1>2, <1>5, <2>2
    <3> QED BY <1>6, <1>7, <1>10, <3>1 DEF Handled
  <2> QED BY <2>1, <2>2
<1>11. PICK e : r2.seen = r.seen \union {e} /\ NoSource(e)
  BY DEF VisitAdds
<1> QED BY <1>8, <1>9, <1>10, <1>11, CopiedVisit

-----------------------------------------------------------------------------
(***************************************************************************)
(* What is objected to                                                     *)
(***************************************************************************)

\* A pattern matches more than the limit.
TooManyFor(d, line, dir, kn) ==
    line.is = "source" /\ \E to \in Resolve(line.value, dir, kn) :
        \/ to.dir = "*/" /\ Cardinality(DirsTo(to)) > MaxFiles
        \/ to.rest = "*" /\ Cardinality(Matches(d, to)) > MaxFiles

\* A line is read without an objection exactly when the reading has none to it.
LEMMA LineObjected ==
    ASSUME NEW d, NEW e, NEW v, NEW i, NEW line \in UserLines, NEW kn,
           LineSeen(d, e, v, i, line, kn), line # Continues
    PROVE  UnobjectedEvent(e) <=> ~Refuses(line, v.dir, kn) /\ ~TooManyFor(d, line, v.dir, kn)
<1>1. MaxFiles \in Nat /\ MaxDepth \in Nat \ {0} /\ Cardinality({}) = 0
  BY BoundsAssumption, FS_EmptySet
<1>2. ~(e.deep >= MaxDepth)
  BY <1>1 DEF LineSeen
<1>3. line.is # "joined"
  <2>1. line.is = "joined" => line = [is |-> "joined"]
    BY DEF UserLines, LinesOf
  <2> QED BY <2>1 DEF Continues
<1>4. CASE line.is # "source"
  <2>1. e.what = line.is /\ e.among = {} /\ e.matched = {}
    BY <1>4 DEF LineSeen
  <2>2. UnobjectedEvent(e) <=> line.is # "built"
    <3>1. line.is \in {"exec", "plugin", "joined", "built", "bad", "plain", "blank", "define", "source"}
      BY DEF UserLines, LinesOf
    <3> QED BY <1>1, <1>2, <1>3, <2>1, <3>1 DEF UnobjectedEvent
  <2>3. Refuses(line, v.dir, kn) <=> line.is = "built"
    BY <1>4 DEF Refuses
  <2>4. ~TooManyFor(d, line, v.dir, kn)
    BY <1>4 DEF TooManyFor
  <2> QED BY <2>2, <2>3, <2>4
<1>5. CASE line.is = "source" /\ Resolve(line.value, v.dir, kn) = {}
  <2>1. e.what = "meaningless"
    BY <1>5 DEF LineSeen
  <2>2. Refuses(line, v.dir, kn)
    BY <1>5 DEF Refuses
  <2> QED BY <2>1, <2>2 DEF UnobjectedEvent
<1>6. CASE line.is = "source" /\ Resolve(line.value, v.dir, kn) # {}
  <2>1. PICK to : to \in Resolve(line.value, v.dir, kn)
    BY <1>6
  <2>2. /\ e.what = "source" /\ Resolve(line.value, v.dir, kn) = {to}
        /\ e.among = IF to.dir = "*/" THEN DirsTo(to) ELSE {}
        /\ e.matched = IF to.rest = "*" THEN Matches(d, to) ELSE {}
    BY <1>6, <2>1 DEF LineSeen
  <2>3. ~Refuses(line, v.dir, kn)
    BY <1>6 DEF Refuses
  <2>4. TooManyFor(d, line, v.dir, kn) <=>
          \/ to.dir = "*/" /\ Cardinality(DirsTo(to)) > MaxFiles
          \/ to.rest = "*" /\ Cardinality(Matches(d, to)) > MaxFiles
    BY <1>6, <2>2 DEF TooManyFor
  <2>5. /\ (Cardinality(e.among) > MaxFiles) <=> (to.dir = "*/" /\ Cardinality(DirsTo(to)) > MaxFiles)
        /\ (Cardinality(e.matched) > MaxFiles) <=> (to.rest = "*" /\ Cardinality(Matches(d, to)) > MaxFiles)
    BY <1>1, <2>2
  <2> QED BY <1>2, <2>2, <2>3, <2>4, <2>5 DEF UnobjectedEvent
<1> QED BY <1>4, <1>5, <1>6

\* A path that cannot be come to: a cycle, too deep, too many, or no file.
Misfits(d, st, v, vi) ==
    \/ \E i \in 2..Len(st) : st[i].v = v
    \/ Len(st) - 1 >= MaxDepth \/ vi + 1 > MaxFiles \/ After(d, v) = Unfit

\* A path that does not fit is objected to.
LEMMA VisitObjected ==
    ASSUME NEW d, Disk(d), NEW r, NEW st \in Seq(Frames), st # <<>>, NEW kn, NEW vi,
           Followed(d, r, st, kn, vi), st[Len(st)].todo # {},
           Misfits(d, st, First(st[Len(st)].todo), vi)
    PROVE  ~Unobjected(Visit(LiveOf(d), r))
<1> DEFINE p == First(Innermost(r).todo)
           v == First(st[Len(st)].todo)
           e == VisitEvent(LiveOf(d), r)
           r2 == Visit(LiveOf(d), r)
<1>1. /\ e.deep = Len(st) - 1
      /\ e.what = IF \E i \in 2..Len(st) : st[i].v = v THEN "cycle"
                  ELSE IF After(d, v) = Nothing /\ p.globbed THEN "unmatched"
                  ELSE After(d, v).is
  BY VisitedTogether
<1>2. IsReader(r) /\ r.visits = vi
  BY DEF Followed
<1>3. r2.seen = r.seen \union {e} /\ r2.visits = r.visits + 1
  BY <1>2, VisitIs
<1> HIDE DEF p, e, r2
<1>4. Unfit # Nothing /\ Unfit.is = "unfit"
  BY DEF Unfit, Nothing
<1>5. ~UnobjectedEvent(e) \/ r2.visits > MaxFiles
  BY <1>1, <1>2, <1>3, <1>4 DEF UnobjectedEvent, Misfits
<1>6. ~Unobjected(r2)
  BY <1>3, <1>5 DEF Unobjected
<1> QED BY <1>6 DEF r2

\* What was to be objected to still is at the end.
LEMMA ObjectedInTheEnd ==
    ASSUME NEW d, NEW m \in 0..MaxReads, ~Unobjected(LiveRun(d)[m])
    PROVE  Objectionable(ReadingOf(LiveOf(d), EntryAt("live")))
<1> DEFINE r == LiveRun(d)[m]
           z == ReadingOf(LiveOf(d), EntryAt("live"))
<1>1. MaxReads \in m..MaxReads
  BY ReadsAssumption
<1>2. r.seen \subseteq z.seen /\ r.visits <= z.visits /\ Counted(r) /\ Counted(z)
  BY <1>1, RunGrows DEF LiveRun, ReadingOf
<1>3. r.visits \in Nat /\ z.visits \in Nat
  BY <1>2 DEF Counted
<1> HIDE DEF r, z
<1>4. CASE r.visits > MaxFiles
  <2>1. z.visits > MaxFiles
    BY <1>2, <1>3, <1>4, BoundsAssumption
  <2> QED BY <2>1 DEF Objectionable, z
<1>5. CASE \E e \in r.seen : ~UnobjectedEvent(e)
  <2>1. PICK e \in z.seen : ~UnobjectedEvent(e)
    BY <1>2, <1>5
  <2>2. Objectionable(z)
    BY <2>1 DEF UnobjectedEvent, Objectionable
  <2> QED BY <2>2 DEF z
<1> QED BY <1>4, <1>5 DEF Unobjected, r

\* Nothing is to be objected to when no event is, and no line leads to two places.
LEMMA NothingObjected ==
    ASSUME NEW r, Unobjected(r), ~TwoReadings(r.seen)
    PROVE  ~Objectionable(r)
BY DEF Unobjected, UnobjectedEvent, Objectionable

\* So is a line that is joined.
LEMMA JoinedObjected ==
    ASSUME NEW r, JoinedSeen(r)
    PROVE  Objectionable(r)
BY DEF JoinedSeen, Objectionable

\* The step of the reading that the walk takes as well.
LEMMA StepIs ==
    ASSUME NEW d, NEW r, NEW st \in Seq(Frames), st # <<>>, NEW kn, NEW vi,
           Followed(d, r, st, kn, vi)
    PROVE  /\ ~Finished(r)
           /\ st[Len(st)].todo # {} => Step(LiveOf(d), r) = Visit(LiveOf(d), r)
           /\ st[Len(st)].todo = {} =>
                /\ Len(st[Len(st)].out) < Len(st[Len(st)].text) => Step(LiveOf(d), r) = ReadNext(LiveOf(d), r)
                /\ Len(st[Len(st)].out) = Len(st[Len(st)].text) => Step(LiveOf(d), r) = Close(r)
<1>1. ~Finished(r) /\ SameFile(Innermost(r), st[Len(st)]) /\ st[Len(st)] \in Frames
  BY InnermostIs
<1>2. /\ Innermost(r).text = st[Len(st)].text /\ Innermost(r).line = Len(st[Len(st)].out)
      /\ Innermost(r).todo = {} <=> st[Len(st)].todo = {}
  BY <1>1 DEF SameFile, CalledAll
<1>3. Len(st[Len(st)].out) \in Nat /\ Len(st[Len(st)].text) \in Nat
  BY <1>1 DEF Frames
<1> QED BY <1>1, <1>2, <1>3 DEF Step

\* Both go on.
LEMMA RunNext ==
    ASSUME NEW d, Finished(ReadingOf(LiveOf(d), EntryAt("live"))), NEW m \in 0..MaxReads,
           ~Finished(LiveRun(d)[m])
    PROVE  m + 1 \in 0..MaxReads /\ LiveRun(d)[m + 1] = Step(LiveOf(d), LiveRun(d)[m])
BY RunGoesOn DEF LiveRun

\* A file with a continued line is opened.
LEMMA JoinedVisit ==
    ASSUME NEW d, Disk(d), NEW r, NEW st \in Seq(Frames), st # <<>>, NEW kn, NEW vi,
           Followed(d, r, st, kn, vi), st[Len(st)].todo # {},
           \A i \in 2..Len(st) : st[i].v # First(st[Len(st)].todo),
           NEW text \in Seq(UserLines), After(d, First(st[Len(st)].todo)) = File(text),
           NEW j \in 1..Len(text), text[j] = Continues
    PROVE  Pending(Visit(LiveOf(d), r))
<1> DEFINE p == First(Innermost(r).todo)
           v == First(st[Len(st)].todo)
           e == VisitEvent(LiveOf(d), r)
           rest == WithInnermost(r, [Innermost(r) EXCEPT !.todo = @ \ {p}])
           g == Opened(p, text, {})
           r2 == Visit(LiveOf(d), r)
<1>1. /\ There(LiveOf(d), p) = After(d, v)
      /\ e.what = IF \E i \in 2..Len(st) : st[i].v = v THEN "cycle"
                  ELSE IF After(d, v) = Nothing /\ p.globbed THEN "unmatched"
                  ELSE After(d, v).is
  BY VisitedTogether
<1>2. IsReader(r)
  BY DEF Followed
<1>3. r2.open = IF e.what = "file" THEN Append(rest, Opened(p, There(LiveOf(d), p).text, {})) ELSE rest
  BY <1>2, VisitIs
<1>4. File(text).is = "file" /\ File(text).text = text /\ Nothing.is = "none"
  BY DEF File, Nothing
<1>5. Len(r.open) \in Nat /\ r.open \in Seq(LiveFiles)
  BY InnermostIs
<1>6. Len(rest) = Len(r.open) /\ rest \in Seq({rest[i] : i \in DOMAIN rest})
  <2>1. DOMAIN rest = DOMAIN r.open /\ DOMAIN r.open = 1..Len(r.open)
    BY <1>5 DEF WithInnermost
  <2>2. rest = [i \in 1..Len(r.open) |-> rest[i]]
    BY <2>1 DEF WithInnermost
  <2> HIDE DEF rest
  <2> QED BY <1>5, <2>1, <2>2
<1>7. g.text = text /\ g.line = 0
  BY DEF Opened
<1> HIDE DEF p, v, e, rest, r2, g
<1>8. r2.open = Append(rest, g)
  BY <1>1, <1>3, <1>4 DEF v, g
<1>9. Len(r2.open) = Len(r.open) + 1 /\ r2.open[Len(r.open) + 1] = g
  BY <1>5, <1>6, <1>8
<1>10. Len(r.open) + 1 \in 1..Len(r2.open) /\ j \in (0 + 1)..Len(text)
  BY <1>5, <1>9
<1>11. Pending(r2)
  BY <1>7, <1>9, <1>10 DEF Pending
<1> QED BY <1>11 DEF r2

\* Two copies of a file, read to the end, that differ.
LEMMA DifferingCopies ==
    ASSUME NEW d, NEW seen, NEW c, NEW f, ShownCopy(d, seen, c), ShownCopy(d, seen, f), c.v = f.v,
           Len(c.out) = Len(After(d, c.v).text), Len(f.out) = Len(After(d, c.v).text), c.out # f.out
    PROVE  TwoReadings(seen)
<1>1. c.out \in Seq(Lines) /\ f.out \in Seq(Lines) /\ Len(c.out) = Len(f.out)
  BY DEF ShownCopy
<1>2. PICK j \in 1..Len(c.out) : c.out[j] # f.out[j]
  BY <1>1, SeqEqual
<1> DEFINE line == After(d, c.v).text[j]
<1>3. ShownLine(seen, c, j, line) /\ ShownLine(seen, f, j, line)
  BY <1>1, <1>2 DEF ShownCopy
<1> HIDE DEF line
<1>4. line.is = "source"
  BY <1>2, <1>3 DEF ShownLine
<1>5. PICK to \in Targets, e \in seen :
        c.out[j] = Sourcing(to) /\ e.what = "source" /\ e.file = c.v /\ e.line = j /\ e.to = {to}
  BY <1>3, <1>4 DEF ShownLine
<1>6. PICK t \in Targets, x \in seen :
        f.out[j] = Sourcing(t) /\ x.what = "source" /\ x.file = f.v /\ x.line = j /\ x.to = {t}
  BY <1>3, <1>4 DEF ShownLine
<1>7. {to} # {t}
  BY <1>2, <1>5, <1>6
<1> QED BY <1>5, <1>6, <1>7 DEF TwoReadings

-----------------------------------------------------------------------------
(***************************************************************************)
(* A step of the walk                                                      *)
(***************************************************************************)

\* What the invariant says of the walk.
LEMMA WalkAt ==
    ASSUME Kept, pc = "walk"
    PROVE  /\ Disk(disk) /\ stack \in Seq(Frames) /\ stack # <<>> /\ Top = stack[Len(stack)]
           /\ Len(stack) \in Nat /\ Len(stack) >= 1 /\ Top \in Frames
           /\ Len(Top.out) <= Len(Top.text) /\ Known(known) /\ visits \in Nat
<1>1. Disk(disk) /\ Known(known) /\ stack # <<>> /\ visits \in Nat
  BY BoundsAssumption DEF Kept, TypeOK, Disk, Known
<1>2. stack \in Seq(Frames) /\ Top = stack[Len(stack)] /\ Top \in Frames /\ Len(Top.out) <= Len(Top.text)
  BY TopIs DEF Kept
<1>3. Len(stack) \in Nat /\ Len(stack) >= 1
  BY <1>1, <1>2
<1> QED BY <1>1, <1>2, <1>3

\* The step of the reading that comes after the one the walk is at.
LEMMA WalkNext ==
    ASSUME Kept, pc = "walk", Settled, NEW n, Walking(n)
    PROVE  /\ n + 1 \in 0..MaxReads
           /\ LiveRun(disk)[n + 1] = Step(LiveOf(disk), LiveRun(disk)[n])
<1>1. ~Finished(LiveRun(disk)[n])
  BY WalkAt, StepIs DEF Walking
<1>2. Finished(ReadingOf(LiveOf(disk), EntryAt("live"))) /\ n \in 0..MaxReads
  BY DEF Settled, LiveReading, LiveTree, Walking
<1> QED BY <1>1, <1>2, RunNext

\* What is come to, in the terms of the reading.
LEMMA VisitAt ==
    ASSUME Kept, Visiting
    PROVE  /\ pc = "walk" /\ stack[Len(stack)].todo # {} /\ Visited = First(stack[Len(stack)].todo)
           /\ Visited \in Paths /\ Now(Visited) = After(disk, Visited)
           /\ After(disk, Visited) \in Contents
           /\ CalledFor = CalledOf(stack[Len(stack)])
<1>1. pc = "walk" /\ Top.todo # {}
  BY DEF Visiting
<1>2. Top = stack[Len(stack)] /\ Visited = First(Top.todo) /\ Disk(disk)
  BY <1>1, WalkAt DEF Visited
<1>3. Visited \in Paths
  BY VisitedIs DEF Kept
<1>4. After(disk, Visited) \in Contents
  BY <1>2, <1>3, AfterContents DEF Disk
<1>5. Now(Visited) = After(disk, Visited)
  BY <1>3, NowIsAfter
<1>6. CalledFor = CalledOf(Top)
  BY DEF CalledFor, CalledOf, Visited
<1> QED BY <1>1, <1>2, <1>3, <1>4, <1>5, <1>6

\* A path the walk does not refuse fits.
LEMMA FitsIs ==
    ASSUME Kept, Visiting, ~TooMuch, Now(Visited) # Unfit
    PROVE  Fits(disk, stack, First(stack[Len(stack)].todo), visits)
<1>1. \A i \in 2..Len(stack) : stack[i].v # Visited
  BY DEF TooMuch, Open
<1>2. Len(stack) - 1 < MaxDepth /\ visits + 1 <= MaxFiles /\ visits \in Nat
  BY WalkAt, VisitAt, BoundsAssumption DEF TooMuch
<1> QED BY <1>1, <1>2, VisitAt DEF Fits

\* The walk and the reading come to a path together.
LEMMA VisitWalked ==
    ASSUME Kept, Settled, NEW n, Walking(n), VisitNothing \/ VisitFile
    PROVE  /\ Followed(disk, LiveRun(disk)[n + 1], stack', known, visits + 1)
           /\ Copied(disk, LiveRun(disk)[n + 1], stack', files)
           /\ n + 1 \in 0..MaxReads
<1> DEFINE r == LiveRun(disk)[n]
           v == First(stack[Len(stack)].todo)
           s == CalledOf(stack[Len(stack)])
           below == [stack EXCEPT ![Len(stack)] = s]
<1>1. Visiting /\ ~TooMuch /\ Now(Visited) # Unfit
  <2>1. Now(Visited) = Nothing \/ Now(Visited).is = "file"
    BY DEF VisitNothing, VisitFile
  <2>2. Now(Visited) # Unfit
    BY <2>1 DEF Nothing, Unfit
  <2> QED BY <2>2 DEF VisitNothing, VisitFile
<1>2. /\ Disk(disk) /\ stack \in Seq(Frames) /\ stack # <<>> /\ stack[Len(stack)].todo # {}
      /\ pc = "walk" /\ Visited = v /\ v \in Paths /\ Now(v) = After(disk, v)
      /\ After(disk, v) \in Contents /\ CalledFor = s
  BY <1>1, WalkAt, VisitAt
<1>3. Followed(disk, r, stack, known, visits) /\ Copied(disk, r, stack, files) /\ Unobjected(r)
  BY DEF Walking, Copied
<1>4. n + 1 \in 0..MaxReads /\ LiveRun(disk)[n + 1] = Visit(LiveOf(disk), r)
  <2>1. LiveRun(disk)[n + 1] = Step(LiveOf(disk), r) /\ n + 1 \in 0..MaxReads
    BY <1>2, WalkNext
  <2>2. Step(LiveOf(disk), r) = Visit(LiveOf(disk), r)
    BY <1>2, <1>3, StepIs
  <2> QED BY <2>1, <2>2
<1>5. Fits(disk, stack, v, visits)
  BY <1>1, FitsIs
<1> HIDE DEF r
<1>6. Unobjected(Visit(LiveOf(disk), r)) /\ VisitAdds(r, Visit(LiveOf(disk), r))
  BY <1>2, <1>3, <1>5, VisitUnobjected
<1>7. s = [stack[Len(stack)] EXCEPT !.todo = @ \ {v}]
  BY DEF CalledOf
<1>8. WithTop(CalledFor) = below
  BY <1>2 DEF WithTop
<1>9. CASE VisitNothing
  <2>1. stack' = below /\ After(disk, v) = Nothing
    BY <1>2, <1>8, <1>9 DEF VisitNothing
  <2> HIDE DEF s
  <2>2. Followed(disk, Visit(LiveOf(disk), r), stack', known, visits + 1)
    BY <1>2, <1>3, <1>7, <2>1, FollowedNothing
  <2>3. Copied(disk, Visit(LiveOf(disk), r), stack', files)
    BY <1>2, <1>3, <1>6, <2>1, CopiedNothing DEF s
  <2> QED BY <1>4, <2>2, <2>3
<1>10. CASE VisitFile
  <2> DEFINE text == Now(Visited).text
  <2>1. Now(Visited).is = "file" /\ Continues \notin Range(text)
        /\ stack' = Append(below, Frame(v, text, {}))
    BY <1>2, <1>8, <1>10 DEF VisitFile
  <2>2. text \in Seq(UserLines) /\ After(disk, v) = File(text)
    BY <1>2, <2>1 DEF Contents, File, Nothing, Unfit
  <2>3. \A j \in 1..Len(text) : text[j] # Continues
    BY <2>1, <2>2 DEF Range
  <2>4. \A i \in 2..Len(stack) : stack[i].v # v
    BY <1>5 DEF Fits
  <2> HIDE DEF text, s, below
  <2>5. Followed(disk, Visit(LiveOf(disk), r), stack', known, visits + 1)
    BY <1>2, <1>3, <1>7, <2>1, <2>2, <2>3, <2>4, FollowedFile DEF below
  <2>6. Copied(disk, Visit(LiveOf(disk), r), stack', files)
    BY <1>2, <1>3, <1>6, <2>1, <2>2, CopiedFile DEF s, below
  <2> QED BY <1>4, <2>5, <2>6
<1> QED BY <1>9, <1>10

\* What is read, in the terms of the reading.
LEMMA ReadAt ==
    ASSUME DOMAIN Links \subseteq DOMAIN Leaving,
           Kept, Reading, NEW r, Followed(disk, r, stack, known, visits)
    PROVE  /\ AtLine(stack, Top, Line) /\ Top.todo = {} /\ Line \in UserLines
           /\ Line # Continues
           /\ LineSeen(disk, LineEvent(LiveOf(disk), r), Top.v, Len(Top.out) + 1, Line, known)
           /\ Line.is = "source" => \A to \in Resolve(Line.value, Top.v.dir, known) : Sourced = Matches(disk, to)
           /\ (Line.is = "source" /\ TooMany) <=> TooManyFor(disk, Line, Top.v.dir, known)
<1>1. /\ pc = "walk" /\ Top.todo = {} /\ Len(Top.out) < Len(Top.text)
      /\ stack \in Seq(Frames) /\ stack # <<>> /\ Top = stack[Len(stack)] /\ Known(known)
      /\ Len(stack) \in Nat /\ Len(stack) >= 1 /\ Top \in Frames
  BY WalkAt DEF Reading
<1>2. AtLine(stack, Top, Line)
  BY <1>1 DEF AtLine, Line
<1>3. /\ Line \in UserLines
      /\ LineSeen(disk, LineEvent(LiveOf(disk), r), Top.v, Len(Top.out) + 1, Line, known)
  BY <1>1, <1>2, LineTogether
<1>4. Line # Continues
  <2>1. Len(Top.out) + 1 \in 1..Len(Top.text) /\ Line = Top.text[Len(Top.out) + 1]
    BY <1>1 DEF Line, Frames
  <2>2. CASE Len(stack) = 1
    <3>1. Top.text = <<>>
      BY <1>1, <2>2 DEF Followed
    <3> QED BY <2>1, <3>1
  <2>3. CASE Len(stack) # 1
    <3>1. PICK m : m = Len(stack) /\ m \in Nat /\ m >= 1 /\ m # 1
      BY <1>1, <2>3
    <3>2. m \in 2..m
      BY ONLY <3>1
    <3> QED BY <1>1, <2>1, <3>1, <3>2 DEF Followed
  <2> QED BY <2>2, <2>3
<1>5. ASSUME Line.is = "source", NEW to \in Resolve(Line.value, Top.v.dir, known)
      PROVE  /\ to \in Targets /\ Resolve(Line.value, Top.v.dir, known) = {to}
             /\ Matched(to) = Matches(disk, to) /\ DirsOf(to) = DirsTo(to)
  <2>1. to \in Targets /\ Resolve(Line.value, Top.v.dir, known) = {to}
    BY <1>3, <1>5 DEF LineSeen
  <2> QED BY <2>1, MatchedIsMatches
<1>6. ASSUME Line.is = "source", NEW to \in Resolve(Line.value, Top.v.dir, known)
      PROVE  Sourced = Matches(disk, to)
  <2>1. Sourced = UNION {Matched(t) : t \in {to}}
    BY <1>5, <1>6 DEF Sourced
  <2>2. UNION {Matched(t) : t \in {to}} = Matched(to)
    OBVIOUS
  <2> QED BY <1>5, <1>6, <2>1, <2>2
<1>7. (Line.is = "source" /\ TooMany) <=> TooManyFor(disk, Line, Top.v.dir, known)
  BY <1>5 DEF TooMany, TooManyFor
<1> QED BY <1>1, <1>2, <1>3, <1>4, <1>6, <1>7

\* The frame with a line more.
ReadTo(s, new, todo) == [s EXCEPT !.out = Append(@, new), !.todo = todo]

\* The frame the walk leaves when it takes a line.
LEMMA ReadToIs ==
    ASSUME NEW s \in Frames, NEW new \in Lines, NEW todo \in SUBSET Paths
    PROVE  /\ ReadTo(s, new, todo) \in Frames /\ ReadTo(s, new, todo).v = s.v
           /\ ReadTo(s, new, todo).text = s.text /\ ReadTo(s, new, todo).todo = todo
           /\ ReadTo(s, new, todo).out = Append(s.out, new)
           /\ Len(ReadTo(s, new, todo).out) = Len(s.out) + 1
<1>1. Append(s.out, new) \in Seq(Lines) /\ Len(Append(s.out, new)) = Len(s.out) + 1
  BY DEF Frames
<1>2. PICK w \in Seq(Lines) : w = Append(s.out, new)
  BY <1>1
<1>3. ReadTo(s, new, todo) = [s EXCEPT !.out = w, !.todo = todo]
  BY <1>2 DEF ReadTo
<1>4. /\ ReadTo(s, new, todo) \in Frames /\ ReadTo(s, new, todo).v = s.v
      /\ ReadTo(s, new, todo).text = s.text /\ ReadTo(s, new, todo).todo = todo
      /\ ReadTo(s, new, todo).out = w
  BY <1>3 DEF Frames
<1> QED BY <1>1, <1>2, <1>4

\* They read a line together.
LEMMA ReadWalked ==
    ASSUME DOMAIN Links \subseteq DOMAIN Leaving,
           Kept, Settled, NEW n, Walking(n), ReadLine
    PROVE  /\ Followed(disk, LiveRun(disk)[n + 1], stack', known', visits)
           /\ Copied(disk, LiveRun(disk)[n + 1], stack', files)
           /\ n + 1 \in 0..MaxReads
<1> DEFINE r == LiveRun(disk)[n]
           r2 == ReadNext(LiveOf(disk), r)
           e == LineEvent(LiveOf(disk), r)
           new == Sanitized(Line, Top.v.dir, known)
           todo == IF Line.is = "source" THEN Sourced ELSE {}
           s2 == ReadTo(Top, new, todo)
<1>1. /\ Reading /\ ~Refuses(Line, Top.v.dir, known) /\ ~(Line.is = "source" /\ TooMany)
      /\ stack' = WithTop(s2) /\ known' = IF Line.is = "define" THEN Define(Line, known) ELSE known
  BY DEF ReadLine, ReadTo
<1>2. /\ pc = "walk" /\ stack \in Seq(Frames) /\ stack # <<>> /\ Top = stack[Len(stack)]
      /\ Known(known) /\ Top \in Frames /\ Len(Top.out) < Len(Top.text) /\ Top.todo = {}
  BY <1>1, WalkAt DEF Reading
<1>3. Followed(disk, r, stack, known, visits) /\ Copied(disk, r, stack, files) /\ Unobjected(r)
      /\ IsReader(r)
  BY DEF Walking, Copied, Followed
<1>4. /\ AtLine(stack, Top, Line) /\ Line \in UserLines /\ Line # Continues
      /\ LineSeen(disk, e, Top.v, Len(Top.out) + 1, Line, known)
      /\ Line.is = "source" => \A to \in Resolve(Line.value, Top.v.dir, known) : Sourced = Matches(disk, to)
      /\ ~TooManyFor(disk, Line, Top.v.dir, known)
  BY <1>1, <1>3, ReadAt
<1>5. n + 1 \in 0..MaxReads /\ LiveRun(disk)[n + 1] = r2
  <2>1. LiveRun(disk)[n + 1] = Step(LiveOf(disk), r) /\ n + 1 \in 0..MaxReads
    BY <1>2, WalkNext
  <2>2. Step(LiveOf(disk), r) = r2
    BY <1>2, <1>3, StepIs
  <2> QED BY <2>1, <2>2
<1>6. r2.seen = r.seen \union {e} /\ r2.visits = r.visits
  BY <1>3, ReadIs
<1>7. Unobjected(r2)
  <2>1. UnobjectedEvent(e)
    BY <1>1, <1>4, LineObjected
  <2> QED BY <1>3, <1>6, <2>1 DEF Unobjected
<1>8. new \in Lines
  <2>1. Top.v.dir \in Dirs
    BY <1>2 DEF Frames, Paths
  <2>2. DOMAIN known \subseteq VarNames /\ \A x \in DOMAIN known : known[x] \in Values({"live"})
    BY <1>2 DEF Known
  <2> QED BY <1>1, <1>4, <2>1, <2>2, SanitizedLine
<1>9. todo \in SUBSET Paths
  <2>1. CASE Line.is = "source"
    <3>1. PICK to : to \in Resolve(Line.value, Top.v.dir, known)
      BY <1>1, <2>1 DEF Refuses
    <3>2. to \in Targets /\ Resolve(Line.value, Top.v.dir, known) = {to}
      BY <1>4, <2>1, <3>1 DEF LineSeen
    <3>3. Sourced = Matched(to)
      BY <3>2 DEF Sourced
    <3>4. Matched(to) \subseteq Paths
      BY <3>2, MatchedPaths DEF Targets
    <3> QED BY <2>1, <3>3, <3>4
  <2> QED BY <2>1
<1> HIDE DEF r, e, new, todo, r2
<1>10. /\ s2.v = Top.v /\ s2.text = Top.text /\ s2.out = Append(Top.out, new) /\ s2.todo = todo
       /\ s2 \in Frames /\ Len(s2.out) = Len(Top.out) + 1
  BY <1>2, <1>8, <1>9, ReadToIs
<1> HIDE DEF s2
<1>11. stack' = [stack EXCEPT ![Len(stack)] = s2]
  BY <1>1 DEF WithTop
<1>12. /\ Line.is # "source" => s2.todo = {}
       /\ Line.is = "source" => \A to \in Resolve(Line.value, Top.v.dir, known) : s2.todo = Matches(disk, to)
  BY <1>4, <1>10 DEF todo
<1>13. Takes(disk, stack, known, Top, Line, new, s2, stack')
  BY <1>1, <1>2, <1>4, <1>8, <1>10, <1>11, <1>12 DEF Takes, new
<1>14. known' = KnownAfter(Line, known)
  BY <1>1 DEF KnownAfter
<1>15. Followed(disk, r2, stack', known', visits)
  <2>1. Followed(disk, r2, stack', KnownAfter(Line, known), visits)
    BY <1>2, <1>3, <1>13, FollowedRead DEF r2
  <2> QED BY <1>14, <2>1
<1>16. Copied(disk, r2, stack', files)
  BY <1>2, <1>3, <1>4, <1>6, <1>7, <1>13, CopiedRead
<1> QED BY <1>5, <1>15, <1>16

\* They leave a file together.
LEMMA LeaveWalked ==
    ASSUME Kept, Settled, NEW n, Walking(n), LeaveFile
    PROVE  /\ Followed(disk, LiveRun(disk)[n + 1], stack', known, visits)
           /\ Copied(disk, LiveRun(disk)[n + 1], stack', files')
           /\ n + 1 \in 0..MaxReads
<1> DEFINE r == LiveRun(disk)[n]
<1>1. /\ pc = "walk" /\ Top.todo = {} /\ Len(Top.out) = Len(Top.text) /\ Len(stack) > 1
      /\ Top.v \in DOMAIN files => files[Top.v] = Top.out
      /\ files' = Insert(files, Top.v, Top.out) /\ stack' = Front(stack)
  BY DEF LeaveFile, AllRead
<1>2. /\ stack \in Seq(Frames) /\ stack # <<>> /\ Top = stack[Len(stack)] /\ Len(stack) >= 2
  BY <1>1, WalkAt
<1>3. Followed(disk, r, stack, known, visits) /\ Copied(disk, r, stack, files) /\ IsReader(r)
  BY DEF Walking, Followed
<1>4. n + 1 \in 0..MaxReads /\ LiveRun(disk)[n + 1] = Close(r)
  <2>1. LiveRun(disk)[n + 1] = Step(LiveOf(disk), r) /\ n + 1 \in 0..MaxReads
    BY <1>1, WalkNext
  <2>2. Step(LiveOf(disk), r) = Close(r)
    BY <1>1, <1>2, <1>3, StepIs
  <2> QED BY <2>1, <2>2
<1> HIDE DEF r
<1>5. Followed(disk, Close(r), stack', known, visits)
  BY <1>1, <1>2, <1>3, FollowedClose
<1>6. AtEnd(stack, Top)
  BY <1>1, <1>2 DEF AtEnd
<1>7. Copied(disk, Close(r), stack', files')
  BY <1>1, <1>2, <1>3, <1>6, CopiedLeave
<1> QED BY <1>4, <1>5, <1>7

\* When the walk is over, so is the reading.
LEMMA EndWalked ==
    ASSUME Kept, Settled, NEW n, Walking(n), LeaveWalk
    PROVE  Copied(disk, LiveReading, <<>>, files)
<1> DEFINE r == LiveRun(disk)[n]
<1>1. /\ pc = "walk" /\ Top.todo = {} /\ Len(Top.out) = Len(Top.text) /\ Len(stack) = 1
  BY DEF LeaveWalk, AllRead
<1>2. /\ stack \in Seq(Frames) /\ stack # <<>> /\ Top = stack[Len(stack)]
  BY <1>1, WalkAt
<1>3. Followed(disk, r, stack, known, visits) /\ Copied(disk, r, stack, files) /\ IsReader(r)
  BY DEF Walking, Followed
<1>4. n + 1 \in 0..MaxReads /\ LiveRun(disk)[n + 1] = Close(r)
  <2>1. LiveRun(disk)[n + 1] = Step(LiveOf(disk), r) /\ n + 1 \in 0..MaxReads
    BY <1>1, WalkNext
  <2>2. Step(LiveOf(disk), r) = Close(r)
    BY <1>1, <1>2, <1>3, StepIs
  <2> QED BY <2>1, <2>2
<1> HIDE DEF r
<1>5. AtEnd(stack, Top)
  BY <1>1, <1>2 DEF AtEnd
<1>6. Copied(disk, Close(r), <<>>, files)
  BY <1>1, <1>3, <1>5, CopiedEnd
<1>7. Finished(Close(r))
  <2>1. Followed(disk, Close(r), Front(stack), known, visits)
    BY <1>2, <1>3, FollowedClose
  <2>2. Len(Front(stack)) = 1 - 1
    BY <1>1, <1>2, FrontIs
  <2>3. Close(r).open \in Seq(LiveFiles) /\ Len(Close(r).open) = 0
    BY <2>1, <2>2 DEF Followed
  <2> QED BY <2>3 DEF Finished
<1>8. LiveReading = Close(r)
  <2>1. MaxReads \in (n + 1)..MaxReads
    BY <1>4, ReadsAssumption
  <2>2. Run(LiveOf(disk), EntryAt("live"))[MaxReads] = Run(LiveOf(disk), EntryAt("live"))[n + 1]
    BY <1>4, <1>7, <2>1, RunRests DEF LiveRun
  <2> QED BY <1>4, <2>2 DEF LiveReading, LiveTree, ReadingOf, LiveRun
<1> QED BY <1>6, <1>8

\* The walk begins where the reading does.
LEMMA BuildWalked ==
    ASSUME Kept, Settled, known = <<>>, visits = 0, files = <<>>, Build
    PROVE  /\ Followed(disk, LiveRun(disk)[0], stack', known, visits)
           /\ Copied(disk, LiveRun(disk)[0], stack', files)
           /\ 0 \in 0..MaxReads
<1> DEFINE p == EntryAt("live")
           f == Opened(p, <<>>, {p})
           s == Frame(EntryFile, <<>>, {EntryFile})
           r == Begin(p)
<1>1. stack' = <<s>>
  BY DEF Build
<1>2. LiveRun(disk)[0] = r
  BY RunIsRun, ReadsAssumption DEF LiveRun
<1>3. 0 \in 0..MaxReads
  BY ReadsAssumption
<1>4. EntryFile \in Paths /\ Entry \in Dirs /\ Entry \notin Range(Links)
  BY EntryAssumption, DirsAssumption DEF EntryFile, Paths
<1>5. p \in LiveReached
  BY <1>4, EntryAssumption DEF EntryAt, LiveReached, Reached, Ats
<1>6. Called(p) = EntryFile
  BY <1>4 DEF Called, EntryAt, EntryFile, Virtualize
<1>7. f \in LiveFiles /\ f.path = p /\ f.text = <<>> /\ f.line = 0 /\ f.todo = {p}
  BY <1>5 DEF Opened, LiveFiles
<1>8. s.v = EntryFile /\ s.text = <<>> /\ s.out = <<>> /\ s.todo = {EntryFile}
  BY DEF Frame
<1>9. r.open = <<f>> /\ r.vars = <<>> /\ r.seen = {} /\ r.visits = 0 /\ IsReader(r)
  BY DEF Begin, IsReader
<1>10. SameFile(f, s)
  <2>1. CalledAll({p}) = {Called(p)}
    BY DEF CalledAll
  <2>2. Uniform({p})
    BY DEF Uniform
  <2>3. Len(s.out) = 0
    BY <1>8
  <2> HIDE DEF f, s, p
  <2> QED BY <1>6, <1>7, <1>8, <2>1, <2>2, <2>3 DEF SameFile
<1> HIDE DEF p, f, s, r
<1>11. /\ stack'[1] = s /\ Len(stack') = 1 /\ stack' # <<>>
       /\ r.open \in Seq(LiveFiles) /\ Len(r.open) = 1 /\ r.open[1] = f
  BY <1>1, <1>7, <1>9
<1>12. 1..1 = {1} /\ 2..1 = {}
  OBVIOUS
<1>13. Followed(disk, r, stack', known, visits)
  BY <1>8, <1>9, <1>10, <1>11, <1>12 DEF Followed
<1>14. Copied(disk, r, stack', files)
  <2>1. DOMAIN files = {}
    OBVIOUS
  <2>2. Copies(stack', files) = {}
    BY <1>11, <1>12, <2>1 DEF Copies
  <2>3. Unobjected(r)
    BY <1>9, BoundsAssumption DEF Unobjected
  <2>4. Handled(disk, stack', files, EntryFile)
    BY <1>8, <1>11, <1>12 DEF Handled
  <2> QED BY <1>9, <2>1, <2>2, <2>3, <2>4 DEF Copied, Recorded, Shown, Closed
<1> QED BY <1>2, <1>3, <1>13, <1>14

-----------------------------------------------------------------------------
(***************************************************************************)
(* Refused for a reason                                                    *)
(***************************************************************************)

\* A path is refused for a reason.
LEMMA RefusedVisit ==
    ASSUME Kept, Settled, NEW n, Walking(n), VisitRefuses
    PROVE  Objectionable(LiveReading)
<1> DEFINE r == LiveRun(disk)[n]
           v == First(stack[Len(stack)].todo)
           z == ReadingOf(LiveOf(disk), EntryAt("live"))
<1>1. /\ Visiting
      /\ \/ TooMuch \/ Now(Visited) = Unfit
         \/ Now(Visited).is = "file" /\ Continues \in Range(Now(Visited).text)
  BY DEF VisitRefuses
<1>2. /\ Disk(disk) /\ stack \in Seq(Frames) /\ stack # <<>> /\ stack[Len(stack)].todo # {}
      /\ pc = "walk" /\ Visited = v /\ v \in Paths /\ Now(v) = After(disk, v)
      /\ After(disk, v) \in Contents
  BY <1>1, WalkAt, VisitAt
<1>3. Followed(disk, r, stack, known, visits)
  BY DEF Walking
<1>4. n + 1 \in 0..MaxReads /\ LiveRun(disk)[n + 1] = Visit(LiveOf(disk), r)
  <2>1. LiveRun(disk)[n + 1] = Step(LiveOf(disk), r) /\ n + 1 \in 0..MaxReads
    BY <1>2, WalkNext
  <2>2. Step(LiveOf(disk), r) = Visit(LiveOf(disk), r)
    BY <1>2, <1>3, StepIs
  <2> QED BY <2>1, <2>2
<1>5. z = LiveReading /\ Finished(z)
  BY DEF Settled, LiveReading, LiveTree
<1> HIDE DEF r, z
<1>6. CASE Misfits(disk, stack, v, visits)
  <2>1. ~Unobjected(Visit(LiveOf(disk), r))
    BY <1>2, <1>3, <1>6, VisitObjected
  <2>2. Objectionable(z)
    BY <1>4, <2>1, ObjectedInTheEnd DEF z
  <2> QED BY <1>5, <2>2
<1>7. CASE ~Misfits(disk, stack, v, visits)
  <2> DEFINE text == Now(Visited).text
  <2>1. ~TooMuch /\ Now(Visited) # Unfit
    BY <1>2, <1>7 DEF Misfits, TooMuch, Open
  <2>2. Now(Visited).is = "file" /\ Continues \in Range(text)
    BY <1>1, <2>1
  <2>3. text \in Seq(UserLines) /\ After(disk, v) = File(text)
    BY <1>2, <2>2 DEF Contents, File, Nothing, Unfit
  <2>4. PICK j \in 1..Len(text) : text[j] = Continues
    BY <2>2, <2>3 DEF Range
  <2>5. \A i \in 2..Len(stack) : stack[i].v # v
    BY <1>7 DEF Misfits
  <2> HIDE DEF text
  <2>6. Pending(Visit(LiveOf(disk), r))
    BY <1>2, <1>3, <2>3, <2>4, <2>5, JoinedVisit
  <2>7. JoinedSeen(z)
    BY <1>2, <1>4, <1>5, <2>6, JoinedIsSeen DEF z
  <2> QED BY <1>5, <2>7, JoinedObjected
<1> QED BY <1>6, <1>7

\* So is a line.
LEMMA RefusedLine ==
    ASSUME DOMAIN Links \subseteq DOMAIN Leaving,
           Kept, Settled, NEW n, Walking(n), LineRefuses
    PROVE  Objectionable(LiveReading)
<1> DEFINE r == LiveRun(disk)[n]
           e == LineEvent(LiveOf(disk), r)
           r2 == ReadNext(LiveOf(disk), r)
<1>1. Reading /\ (Refuses(Line, Top.v.dir, known) \/ (Line.is = "source" /\ TooMany))
  BY DEF LineRefuses
<1>2. /\ pc = "walk" /\ stack \in Seq(Frames) /\ stack # <<>> /\ Top = stack[Len(stack)]
      /\ Len(Top.out) < Len(Top.text) /\ Top.todo = {}
  BY <1>1, WalkAt DEF Reading
<1>3. Followed(disk, r, stack, known, visits) /\ IsReader(r)
  BY DEF Walking, Followed
<1>4. /\ Line \in UserLines /\ Line # Continues
      /\ LineSeen(disk, e, Top.v, Len(Top.out) + 1, Line, known)
      /\ (Line.is = "source" /\ TooMany) <=> TooManyFor(disk, Line, Top.v.dir, known)
  BY <1>1, <1>3, ReadAt
<1>5. n + 1 \in 0..MaxReads /\ LiveRun(disk)[n + 1] = r2
  <2>1. LiveRun(disk)[n + 1] = Step(LiveOf(disk), r) /\ n + 1 \in 0..MaxReads
    BY <1>2, WalkNext
  <2>2. Step(LiveOf(disk), r) = r2
    BY <1>2, <1>3, StepIs
  <2> QED BY <2>1, <2>2
<1>6. r2.seen = r.seen \union {e}
  BY <1>3, ReadIs
<1>7. ~UnobjectedEvent(e)
  BY <1>1, <1>4, LineObjected
<1> HIDE DEF r, e, r2
<1>8. ~Unobjected(LiveRun(disk)[n + 1])
  BY <1>5, <1>6, <1>7 DEF Unobjected
<1> QED BY <1>5, <1>8, ObjectedInTheEnd DEF LiveReading, LiveTree

\* So is a file that reads differently the second time.
LEMMA RefusedFile ==
    ASSUME Kept, Settled, NEW n, Walking(n), LeaveRefuses
    PROVE  Objectionable(LiveReading)
<1> DEFINE r == LiveRun(disk)[n]
           c == CopyOf(Top.v, Top.out)
           f == CopyOf(Top.v, files[Top.v])
<1>1. /\ pc = "walk" /\ Len(Top.out) = Len(Top.text) /\ Len(stack) > 1
      /\ Top.v \in DOMAIN files /\ files[Top.v] # Top.out
  BY DEF LeaveRefuses, AllRead
<1>2. /\ stack \in Seq(Frames) /\ Top = stack[Len(stack)] /\ Len(stack) \in 2..Len(stack)
  BY <1>1, WalkAt
<1>3. Followed(disk, r, stack, known, visits) /\ Copied(disk, r, stack, files) /\ n \in 0..MaxReads
  BY DEF Walking
<1> HIDE DEF r
<1>4. c \in Copies(stack, files) /\ f \in Copies(stack, files)
  BY <1>1, <1>2 DEF Copies
<1>5. ShownCopy(disk, r.seen, c) /\ ShownCopy(disk, r.seen, f)
  BY <1>3, <1>4 DEF Copied, Shown
<1>6. c.v = Top.v /\ c.out = Top.out /\ f.v = Top.v /\ f.out = files[Top.v]
  BY CopyIs
<1>7. After(disk, Top.v) = File(Top.text)
  BY <1>2, <1>3 DEF Followed
<1>8. After(disk, Top.v).text = Top.text
  BY <1>7 DEF File
<1>9. Len(files[Top.v]) = Len(After(disk, Top.v).text)
  BY <1>1, <1>3 DEF Copied
<1> HIDE DEF c, f
<1>10. TwoReadings(r.seen)
  BY <1>1, <1>5, <1>6, <1>8, <1>9, DifferingCopies
<1>11. r.seen \subseteq LiveReading.seen
  <2>1. MaxReads \in n..MaxReads
    BY <1>3, ReadsAssumption
  <2> QED BY <1>3, <2>1, RunGrows DEF LiveReading, LiveTree, ReadingOf, LiveRun, r
<1>12. TwoReadings(LiveReading.seen)
  BY <1>10, <1>11 DEF TwoReadings
<1> QED BY <1>12 DEF Objectionable

\* A config a copy was made of gives nothing to object to: a file has one copy.
LEMMA CopiedUnobjected ==
    ASSUME NEW d, NEW r, NEW fs, Copied(d, r, <<>>, fs)
    PROVE  ~Objectionable(r)
<1>1. 2..Len(<<>>) = {}
  OBVIOUS
<1>2. \A c \in Copies(<<>>, fs) : c.out = fs[c.v]
  BY <1>1, CopyIs DEF Copies
<1>3. Unobjected(r) /\ Recorded(r.seen, Copies(<<>>, fs))
  BY DEF Copied
<1>4. ~TwoReadings(r.seen)
  <2> SUFFICES ASSUME NEW e \in r.seen, NEW f \in r.seen, e.what = "source", f.what = "source",
                      e.file = f.file, e.line = f.line
               PROVE  e.to = f.to
    BY DEF TwoReadings
  <2>1. PICK c \in Copies(<<>>, fs), to \in Targets :
          e.to = {to} /\ c.v = e.file /\ c.out[e.line] = Sourcing(to)
    BY <1>3 DEF Recorded
  <2>2. PICK g \in Copies(<<>>, fs), t \in Targets :
          f.to = {t} /\ g.v = f.file /\ g.out[f.line] = Sourcing(t)
    BY <1>3 DEF Recorded
  <2>3. c.out[e.line] = g.out[f.line]
    BY <1>2, <2>1, <2>2
  <2>4. to = t
    BY <2>1, <2>2, <2>3, SourcingIs
  <2> QED BY <2>1, <2>2, <2>4
<1> QED BY <1>3, <1>4, NothingObjected

\* One step of the walk is one step of the reading.
LEMMA StepWalked ==
    ASSUME DOMAIN Links \subseteq DOMAIN Leaving, Kept, Settled, NEW n, Walking(n),
           VisitNothing \/ VisitFile \/ ReadLine \/ LeaveFile
    PROVE  Walking(n + 1)'
<1>1. CASE VisitNothing \/ VisitFile
  <2>1. visits' = visits + 1 /\ UNCHANGED <<disk, files, known>>
    BY <1>1 DEF VisitNothing, VisitFile
  <2>2. /\ Followed(disk, LiveRun(disk)[n + 1], stack', known, visits + 1)
        /\ Copied(disk, LiveRun(disk)[n + 1], stack', files) /\ n + 1 \in 0..MaxReads
    BY <1>1, VisitWalked
  <2> QED BY <2>1, <2>2 DEF Walking
<1>2. CASE ReadLine
  <2>1. UNCHANGED <<disk, files, visits>>
    BY <1>2 DEF ReadLine
  <2>2. /\ Followed(disk, LiveRun(disk)[n + 1], stack', known', visits)
        /\ Copied(disk, LiveRun(disk)[n + 1], stack', files) /\ n + 1 \in 0..MaxReads
    BY <1>2, ReadWalked
  <2> QED BY <2>1, <2>2 DEF Walking
<1>3. CASE LeaveFile
  <2>1. UNCHANGED <<disk, known, visits>>
    BY <1>3 DEF LeaveFile
  <2>2. /\ Followed(disk, LiveRun(disk)[n + 1], stack', known, visits)
        /\ Copied(disk, LiveRun(disk)[n + 1], stack', files') /\ n + 1 \in 0..MaxReads
    BY <1>3, LeaveWalked
  <2> QED BY <2>1, <2>2 DEF Walking
<1> QED BY <1>1, <1>2, <1>3

\* Every step keeps Walked.
LEMMA WalkedKept ==
    ASSUME DOMAIN Links \subseteq DOMAIN Leaving, Kept, Walked, Next
    PROVE  Walked'
<1>1. CASE \E p \in DOMAIN Edits : Edit(p)
  <2>1. edits' # 0
    BY <1>1, BoundsAssumption DEF Edit, Kept, TypeOK
  <2> QED BY <2>1 DEF Walked, Settled
<1>2. CASE ~(\E p \in DOMAIN Edits : Edit(p))
  <2>1. disk' = disk /\ edits' = edits
    BY <1>2 DEF Next, NothingToCheck, IsLua, NoHyprland, CheckEnds, Build, VisitRefuses, VisitNothing,
         VisitFile, LineRefuses, ReadLine, LeaveRefuses, LeaveFile, LeaveWalk, Unsandboxable, Make,
         WriteCopy, PostCheck, Verify, TakeName
  <2>2. LiveReading' = LiveReading
    BY <2>1 DEF LiveReading, LiveTree
  <2>3. Settled' <=> Settled
    BY <2>1, <2>2 DEF Settled
  <2> SUFFICES ASSUME Settled PROVE Walked'
    BY <2>3 DEF Walked
  <2>4. CASE NothingToCheck \/ IsLua \/ NoHyprland
    <3>1. pc' = "done" /\ outcome' \in {"nothing to check", "lua", "no Hyprland"}
      BY <2>4 DEF NothingToCheck, IsLua, NoHyprland, CheckEnds, Ends
    <3> QED BY <3>1 DEF Walked
  <2>5. CASE Build
    <3>1. /\ pc = "check" /\ pc' = "walk" /\ UNCHANGED <<files, visits, known, scratch, outcome>>
          /\ ~Ships(Lua) /\ Ships(Conf)
      BY <2>5 DEF Build
    <3>2. known = <<>> /\ visits = 0 /\ files = <<>> /\ outcome = "none"
      BY <3>1 DEF Walked
    <3>3. Walking(0)'
      <4>1. /\ Followed(disk, LiveRun(disk)[0], stack', known, visits)
            /\ Copied(disk, LiveRun(disk)[0], stack', files) /\ 0 \in 0..MaxReads
        <5>1. Copied(disk, LiveRun(disk)[0], stack', files') /\ files' = files
          BY <2>5, <3>1, <3>2, BuildWalked
        <5> QED BY <2>5, <3>2, <5>1, BuildWalked
      <4> QED BY <2>1, <3>1, <4>1 DEF Walking
    <3>4. Entry \in DOMAIN Links /\ disk'[[dir |-> Links[Entry], name |-> Lua]] = Nothing
      BY <2>1, <3>1 DEF Ships
    <3> QED BY <3>1, <3>2, <3>3, <3>4 DEF Walked
  <2>6. CASE VisitNothing \/ VisitFile \/ ReadLine \/ LeaveFile
    <3>1. pc = "walk" /\ UNCHANGED <<pc, outcome>>
      BY <2>6 DEF VisitNothing, VisitFile, ReadLine, LeaveFile, Visiting, Reading, AllRead
    <3>2. /\ \E n : Walking(n)
          /\ outcome = "none" /\ Entry \in DOMAIN Links
          /\ disk'[[dir |-> Links[Entry], name |-> Lua]] = Nothing
      BY <2>1, <3>1 DEF Walked
    <3>3. \E n : Walking(n)'
      BY <2>6, <3>2, StepWalked
    <3> QED BY <3>1, <3>2, <3>3 DEF Walked
  <2>7. CASE VisitRefuses \/ LineRefuses \/ LeaveRefuses
    <3>1. pc = "walk" /\ pc' = "done" /\ outcome' = "unsandboxable"
      BY <2>7 DEF VisitRefuses, LineRefuses, LeaveRefuses, Visiting, Reading, AllRead, Unsandboxable, Ends
    <3>2. PICK n : Walking(n)
      BY <3>1 DEF Walked
    <3>3. Objectionable(LiveReading)
      BY <2>7, <3>2, RefusedVisit, RefusedLine, RefusedFile
    <3>4. Objectionable(LiveReading')
      BY <2>2, <3>3
    <3> QED BY <3>1, <3>4 DEF Walked
  <2>8. CASE LeaveWalk
    <3>1. pc = "walk" /\ pc' = "make" /\ UNCHANGED <<files, outcome>>
      BY <2>8 DEF LeaveWalk, AllRead
    <3>2. /\ \E n : Walking(n)
          /\ outcome = "none" /\ Entry \in DOMAIN Links
          /\ disk'[[dir |-> Links[Entry], name |-> Lua]] = Nothing
      BY <2>1, <3>1 DEF Walked
    <3>3. Copied(disk', LiveReading', <<>>, files')
      BY <2>1, <2>2, <2>8, <3>1, <3>2, EndWalked
    <3> QED BY <3>1, <3>2, <3>3 DEF Walked
  <2>9. CASE Make \/ WriteCopy \/ PostCheck
    <3>1. /\ pc \in {"make", "write"} /\ pc' \in {"write", "verify", "done"} /\ files' = files
          /\ pc' # "done" => outcome' = outcome
          /\ pc' = "done" => outcome' \in {"name taken", "unclean"}
          /\ pc' = "verify" => DOMAIN scratch' = DOMAIN files'
      BY <2>9 DEF Make, WriteCopy, PostCheck, Ends, walk
    <3>2. /\ Copied(disk, LiveReading, <<>>, files) /\ outcome = "none" /\ Entry \in DOMAIN Links
          /\ disk'[[dir |-> Links[Entry], name |-> Lua]] = Nothing
      BY <2>1, <3>1 DEF Walked
    <3>3. Copied(disk', LiveReading', <<>>, files')
      BY <2>1, <2>2, <3>1, <3>2
    <3> QED BY <3>1, <3>2, <3>3 DEF Walked
  <2>10. CASE Verify
    <3>1. pc = "verify" /\ pc' = "done" /\ outcome' \in {"parsed", "not parsed"}
      BY <2>10 DEF Verify, Ends
    <3>2. Copied(disk, LiveReading, <<>>, files)
      BY <3>1 DEF Walked
    <3>3. ~Objectionable(LiveReading)
      BY <3>2, CopiedUnobjected
    <3>4. ~Objectionable(LiveReading')
      BY <2>2, <3>3
    <3> QED BY <3>1, <3>4 DEF Walked
  <2>11. CASE TakeName
    <3>1. UNCHANGED <<pc, stack, files, visits, known, scratch, outcome>>
      BY <2>11 DEF TakeName, walk
    <3>2. \A n : Walking(n) => Walking(n)'
      BY <2>1, <3>1 DEF Walking
    <3> QED BY <2>1, <2>2, <3>1, <3>2 DEF Walked
  <2> QED BY <1>2, <2>4, <2>5, <2>6, <2>7, <2>8, <2>9, <2>10, <2>11 DEF Next
<1> QED BY <1>1, <1>2

\* When every destination is a directory already, the walk is at each step at
\* a step of the reading that will follow the switch, and makes a copy of all
\* of it.
THEOREM WalkedAlways == ASSUME DOMAIN Links \subseteq DOMAIN Leaving PROVE Spec => []Walked
<1>1. Init => Walked
  BY DEF Init, Walked
<1>2. Kept /\ Walked /\ [Next]_vars => Walked'
  <2> SUFFICES ASSUME Kept, Walked, [Next]_vars PROVE Walked'
    OBVIOUS
  <2>1. CASE UNCHANGED vars
    <3>1. UNCHANGED <<disk, edits, installed, pc, stack, files, visits, known, owner, scratch, outcome>>
      BY <2>1 DEF vars, walk
    <3>2. LiveReading' = LiveReading
      BY <3>1 DEF LiveReading, LiveTree
    <3>3. \A n : Walking(n) => Walking(n)'
      BY <3>1 DEF Walking
    <3>4. Settled' <=> Settled
      BY <3>1, <3>2 DEF Settled
    <3> QED BY <3>1, <3>2, <3>3, <3>4 DEF Walked
  <2>2. CASE Next
    BY <2>2, WalkedKept
  <2> QED BY <2>1, <2>2
<1> QED BY <1>1, <1>2, KeptAlways, PTL DEF Spec

\* A config is refused a copy exactly when there is something to object to, if
\* every destination is a directory before the switch (sandbox.rs:296 counts
\* the directories that are there, and an install makes new ones).
THEOREM RefusedAlways ==
    ASSUME DOMAIN Links \subseteq DOMAIN Leaving PROVE Spec => []RefusedForAReason
<1>1. Walked => RefusedForAReason
  BY DEF Walked, Settled, RefusedForAReason
<1> QED BY <1>1, WalkedAlways, PTL

-----------------------------------------------------------------------------
(***************************************************************************)
(* The reading of the copy, beside that of the config                      *)
(***************************************************************************)

\* A tree whose copy is that of the files fs, which stand for the reading z.
CopyStands(d, z, fs, tree) ==
    /\ Disk(d) /\ Copied(d, z, <<>>, fs) /\ DOMAIN fs \subseteq Paths
    /\ CopyTexts(tree)
    /\ \A v \in Paths : tree["copy"][v] = IF v \in DOMAIN fs THEN File(fs[v]) ELSE Nothing

\* What is at v is in the copy, or is nothing.
InFiles(d, fs, v) == v \in DOMAIN fs \/ After(d, v) = Nothing

\* What is left of a source, of the config and of the copy: what is missing
\* from the second is what a glob of the first does not find.
TwinTodos(d, fs, todo, left) ==
    /\ Uniform(todo) /\ Uniform(left) /\ CalledAll(left) \subseteq CalledAll(todo)
    /\ \A q \in left : q.dir \notin Range(Links)
    /\ \A p \in todo : /\ \A q \in left : p.globbed = q.globbed
                       /\ Called(p) \in CalledAll(left) \/ (p.globbed /\ After(d, Called(p)) = Nothing)
                       /\ InFiles(d, fs, Called(p))

\* Files being read, of the config and of its copy.
TwinFile(d, fs, f, g) ==
    /\ Called(f.path) = Called(g.path) /\ f.line = g.line
    /\ TwinTodos(d, fs, f.todo, g.todo)

TwinTexts(d, fs, f, g) ==
    /\ Called(f.path) \in DOMAIN fs
    /\ After(d, Called(f.path)) = File(f.text) /\ g.text = fs[Called(f.path)]

\* The two readings have said the same so far.
Twin(d, fs, r, c) ==
    /\ LiveReader(r) /\ CopyReader(c) /\ Len(c.open) = Len(r.open) /\ c.told = r.told
    /\ \A i \in 1..Len(r.open) : TwinFile(d, fs, r.open[i], c.open[i])
    /\ r.open # <<>> => r.open[1].text = <<>> /\ c.open[1].text = <<>>
    /\ \A i \in 2..Len(r.open) : TwinTexts(d, fs, r.open[i], c.open[i])

\* The innermost files of the two.
LEMMA TwinInnermost ==
    ASSUME NEW d, NEW fs, NEW r, NEW c, Twin(d, fs, r, c), ~Finished(r)
    PROVE  /\ Len(r.open) \in Nat /\ Len(r.open) >= 1 /\ Len(c.open) = Len(r.open)
           /\ r.open # <<>> /\ c.open # <<>> /\ ~Finished(c)
           /\ r.open \in Seq(LiveFiles) /\ c.open \in Seq(CopyFiles)
           /\ Innermost(r) = r.open[Len(r.open)] /\ Innermost(c) = c.open[Len(r.open)]
           /\ Innermost(r) \in LiveFiles /\ Innermost(c) \in CopyFiles
           /\ TwinFile(d, fs, Innermost(r), Innermost(c))
<1>1. /\ Len(r.open) \in Nat /\ Len(r.open) >= 1 /\ r.open # <<>>
      /\ Innermost(r) = r.open[Len(r.open)] /\ Innermost(r) \in LiveFiles
  BY InnermostLive DEF Twin
<1>2. r.open \in Seq(LiveFiles) /\ c.open \in Seq(CopyFiles) /\ Len(c.open) = Len(r.open)
  BY DEF Twin, LiveReader, CopyReader
<1>3. c.open # <<>>
  BY <1>1, <1>2
<1>4. Innermost(c) = c.open[Len(r.open)]
  BY <1>2 DEF Innermost
<1>5. Len(r.open) \in 1..Len(r.open)
  BY <1>1
<1>6. Innermost(c) \in CopyFiles
  BY <1>2, <1>4, <1>5
<1>7. TwinFile(d, fs, Innermost(r), Innermost(c))
  BY <1>1, <1>4, <1>5 DEF Twin
<1> QED BY <1>1, <1>2, <1>3, <1>4, <1>6, <1>7 DEF Finished

\* The texts are those the files were opened with.
SameText(f, f2) == f2.path = f.path /\ f2.text = f.text

\* The two go on in the files they are in.
LEMMA TwinTop ==
    ASSUME NEW d, NEW fs, NEW r, NEW c, Twin(d, fs, r, c), ~Finished(r),
           NEW f \in LiveFiles, NEW g \in CopyFiles, TwinFile(d, fs, f, g),
           SameText(Innermost(r), f), SameText(Innermost(c), g),
           NEW r2, LiveReader(r2), r2.open = WithInnermost(r, f),
           NEW c2, CopyReader(c2), c2.open = WithInnermost(c, g), c2.told = r2.told
    PROVE  Twin(d, fs, r2, c2)
<1>1. /\ Len(r.open) \in Nat /\ Len(r.open) >= 1 /\ Len(c.open) = Len(r.open)
      /\ r.open # <<>> /\ c.open # <<>>
      /\ r.open \in Seq(LiveFiles) /\ c.open \in Seq(CopyFiles)
      /\ Innermost(r) = r.open[Len(r.open)] /\ Innermost(c) = c.open[Len(r.open)]
  BY TwinInnermost
<1>2. /\ Len(r2.open) = Len(r.open)
      /\ \A i \in 1..Len(r.open) : r2.open[i] = IF i = Len(r.open) THEN f ELSE r.open[i]
  BY <1>1, LastReplaced DEF WithInnermost
<1>3. /\ Len(c2.open) = Len(c.open)
      /\ \A i \in 1..Len(c.open) : c2.open[i] = IF i = Len(c.open) THEN g ELSE c.open[i]
  BY <1>1, LastReplaced DEF WithInnermost
<1>4. \A i \in 1..Len(r.open) : /\ TwinFile(d, fs, r2.open[i], c2.open[i])
                                /\ SameText(r.open[i], r2.open[i]) /\ SameText(c.open[i], c2.open[i])
  BY <1>1, <1>2, <1>3 DEF Twin, SameText
<1>5. 1 \in 1..Len(r.open) /\ \A i \in 2..Len(r.open) : i \in 1..Len(r.open)
  BY <1>1
<1>6. r2.open[1].text = <<>> /\ c2.open[1].text = <<>>
  BY <1>1, <1>4, <1>5 DEF Twin, SameText
<1>7. \A i \in 2..Len(r.open) : TwinTexts(d, fs, r2.open[i], c2.open[i])
  BY <1>4, <1>5 DEF Twin, TwinTexts, SameText
<1> QED BY <1>1, <1>2, <1>3, <1>4, <1>6, <1>7 DEF Twin

\* The two open a file.
LEMMA TwinOpened ==
    ASSUME NEW d, NEW fs, NEW r, NEW c, Twin(d, fs, r, c), ~Finished(r),
           NEW f \in LiveFiles, NEW g \in CopyFiles, TwinFile(d, fs, f, g), TwinTexts(d, fs, f, g),
           NEW r2, LiveReader(r2), r2.open = Append(r.open, f),
           NEW c2, CopyReader(c2), c2.open = Append(c.open, g), c2.told = r2.told
    PROVE  Twin(d, fs, r2, c2)
<1>1. /\ Len(r.open) \in Nat /\ Len(r.open) >= 1 /\ Len(c.open) = Len(r.open)
      /\ r.open # <<>> /\ r.open \in Seq(LiveFiles) /\ c.open \in Seq(CopyFiles)
  BY TwinInnermost
<1>2. /\ Len(r2.open) = Len(r.open) + 1 /\ r2.open[Len(r.open) + 1] = f
      /\ \A i \in 1..Len(r.open) : r2.open[i] = r.open[i]
  BY ONLY <1>1, r2.open = Append(r.open, f), f \in LiveFiles
<1>3. /\ Len(c2.open) = Len(r.open) + 1 /\ c2.open[Len(r.open) + 1] = g
      /\ \A i \in 1..Len(r.open) : c2.open[i] = c.open[i]
  BY ONLY <1>1, c2.open = Append(c.open, g), g \in CopyFiles
<1>4. /\ 1 \in 1..Len(r.open)
      /\ \A i \in 1..Len(r2.open) : i \in 1..Len(r.open) \/ i = Len(r.open) + 1
      /\ \A i \in 2..Len(r2.open) : (i \in 2..Len(r.open) /\ i \in 1..Len(r.open)) \/ i = Len(r.open) + 1
  BY <1>1, <1>2
<1>5. \A i \in 1..Len(r2.open) : TwinFile(d, fs, r2.open[i], c2.open[i])
  BY <1>2, <1>3, <1>4 DEF Twin
<1>6. r2.open[1].text = <<>> /\ c2.open[1].text = <<>>
  BY <1>1, <1>2, <1>3, <1>4 DEF Twin
<1>7. \A i \in 2..Len(r2.open) : TwinTexts(d, fs, r2.open[i], c2.open[i])
  BY <1>2, <1>3, <1>4 DEF Twin
<1> QED BY <1>2, <1>3, <1>5, <1>6, <1>7 DEF Twin

\* What a copy stands for.
LEMMA CopyText ==
    ASSUME NEW d, NEW z, NEW fs, NEW tree, CopyStands(d, z, fs, tree), NEW v \in DOMAIN fs
    PROVE  /\ After(d, v) \in [is : {"file"}, text : Seq(UserLines)] /\ After(d, v) # Nothing
           /\ After(d, v).is = "file"
           /\ fs[v] \in Seq(Lines) /\ Len(fs[v]) = Len(After(d, v).text)
           /\ \A j \in 1..Len(fs[v]) : ShownLine(z.seen, CopyOf(v, fs[v]), j, After(d, v).text[j])
<1>1. CopyOf(v, fs[v]) \in Copies(<<>>, fs)
  BY DEF Copies
<1>2. ShownCopy(d, z.seen, CopyOf(v, fs[v])) /\ Len(fs[v]) = Len(After(d, v).text)
  BY <1>1 DEF CopyStands, Copied, Shown
<1>3. CopyOf(v, fs[v]).v = v /\ CopyOf(v, fs[v]).out = fs[v]
  BY CopyIs
<1>4. /\ After(d, v) \in [is : {"file"}, text : Seq(UserLines)] /\ fs[v] \in Seq(Lines)
      /\ \A j \in 1..Len(fs[v]) : ShownLine(z.seen, CopyOf(v, fs[v]), j, After(d, v).text[j])
  BY <1>2, <1>3 DEF ShownCopy
<1>5. After(d, v).is = "file" /\ Nothing.is = "none"
  BY <1>4 DEF Nothing
<1> QED BY <1>2, <1>4, <1>5

\* Whatever a copy names is in the copy, or is nothing.
LEMMA CopyClosed ==
    ASSUME NEW d, NEW z, NEW fs, NEW tree, CopyStands(d, z, fs, tree)
    PROVE  /\ InFiles(d, fs, EntryFile)
           /\ \A v \in DOMAIN fs : \A j \in 1..Len(fs[v]) : \A to \in Targets :
                fs[v][j] = Sourcing(to) => \A q \in Matches(d, to) : InFiles(d, fs, q)
<1>1. 1..Len(<<>>) = {} /\ 2..Len(<<>>) = {}
  OBVIOUS
<1>2. \A q : Handled(d, <<>>, fs, q) => InFiles(d, fs, q)
  BY <1>1 DEF Handled, InFiles
<1>3. \A v \in DOMAIN fs : CopyOf(v, fs[v]) \in Copies(<<>>, fs) /\ CopyOf(v, fs[v]).out = fs[v]
  BY CopyIs DEF Copies
<1>4. Closed(d, <<>>, fs)
  BY DEF CopyStands, Copied
<1>5. ASSUME NEW v \in DOMAIN fs, NEW j \in 1..Len(fs[v]), NEW to \in Targets, fs[v][j] = Sourcing(to),
             NEW q \in Matches(d, to)
      PROVE  InFiles(d, fs, q)
  <2>1. ClosedLine(d, <<>>, fs, fs[v][j])
    BY <1>3, <1>4 DEF Closed
  <2>2. Handled(d, <<>>, fs, q)
    BY <1>5, <2>1 DEF ClosedLine
  <2> QED BY <1>2, <2>2
<1>6. InFiles(d, fs, EntryFile)
  BY <1>2, <1>4 DEF Closed
<1> QED BY <1>5, <1>6

\* A source that was read stands in the copy.
LEMMA CopySource ==
    ASSUME NEW d, NEW z, NEW fs, NEW tree, CopyStands(d, z, fs, tree),
           NEW e \in z.seen, e.what = "source"
    PROVE  \E to \in Targets : /\ e.to = {to} /\ e.file \in DOMAIN fs
                               /\ e.line \in 1..Len(fs[e.file]) /\ fs[e.file][e.line] = Sourcing(to)
<1>1. PICK c \in Copies(<<>>, fs), to \in Targets :
        /\ e.to = {to} /\ c.v = e.file /\ e.line \in 1..Len(c.out) /\ c.out[e.line] = Sourcing(to)
  BY DEF CopyStands, Copied, Recorded
<1>2. 2..Len(<<>>) = {}
  OBVIOUS
<1>3. c.v \in DOMAIN fs /\ c.out = fs[c.v]
  BY <1>2, CopyIs DEF Copies
<1> QED BY <1>1, <1>3

\* A count of files above the command line.
LEMMA AtLeastTwo ==
    ASSUME NEW m \in Nat, m >= 1, m # 1
    PROVE  m \in 2..m
OBVIOUS

\* The texts of the two files are as long as one another.
LEMMA TwinLength ==
    ASSUME NEW d, NEW z, NEW fs, NEW tree, CopyStands(d, z, fs, tree),
           NEW r, NEW c, Twin(d, fs, r, c), ~Finished(r)
    PROVE  /\ Len(Innermost(c).text) = Len(Innermost(r).text)
           /\ Innermost(r).text # <<>> => TwinTexts(d, fs, Innermost(r), Innermost(c))
<1>1. /\ Len(r.open) \in Nat /\ Len(r.open) >= 1
      /\ r.open # <<>> /\ Innermost(r) = r.open[Len(r.open)] /\ Innermost(c) = c.open[Len(r.open)]
  BY TwinInnermost
<1>2. CASE Len(r.open) = 1
  <2>1. Innermost(r).text = <<>> /\ Innermost(c).text = <<>>
    BY <1>1, <1>2 DEF Twin
  <2> QED BY <2>1
<1>3. CASE Len(r.open) # 1
  <2>20. Len(r.open) \in 2..Len(r.open)
    BY <1>1, <1>3, AtLeastTwo
  <2>3. TwinTexts(d, fs, Innermost(r), Innermost(c))
    BY <1>1, <2>20 DEF Twin
  <2>4. /\ Called(Innermost(r).path) \in DOMAIN fs
        /\ After(d, Called(Innermost(r).path)).text = Innermost(r).text
        /\ Innermost(c).text = fs[Called(Innermost(r).path)]
    BY <2>3 DEF TwinTexts, File
  <2> QED BY <2>3, <2>4, CopyText
<1> QED BY <1>2, <1>3

\* The two leave a file.
LEMMA TwinClose ==
    ASSUME NEW d, NEW z, NEW fs, NEW tree, CopyStands(d, z, fs, tree),
           NEW r, NEW c, Twin(d, fs, r, c), ~Finished(r),
           Innermost(r).todo = {}, ~(Innermost(r).line < Len(Innermost(r).text))
    PROVE  Twin(d, fs, Close(r), Step(tree, c))
<1>1. /\ Len(r.open) \in Nat /\ Len(r.open) >= 1 /\ Len(c.open) = Len(r.open) /\ ~Finished(c)
      /\ r.open # <<>> /\ c.open # <<>> /\ c.open \in Seq(CopyFiles)
      /\ TwinFile(d, fs, Innermost(r), Innermost(c))
  BY TwinInnermost
<1>2. Innermost(c).todo = {} /\ Innermost(c).line = Innermost(r).line
  BY <1>1 DEF TwinFile, TwinTodos, CalledAll
<1>3. Step(tree, c) = Close(c)
  BY <1>1, <1>2, TwinLength DEF Step
<1>4. LiveReader(r) /\ CopyReader(c) /\ IsReader(r) /\ IsReader(c)
  BY DEF Twin, LiveReader, CopyReader
<1>5. CopyReader(Close(c))
  BY <1>3, <1>4, CopyStep DEF CopyStands
<1>6. /\ LiveReader(Close(r)) /\ Len(Close(r).open) = Len(r.open) - 1
      /\ \A i \in 1..(Len(r.open) - 1) : Close(r).open[i] = r.open[i]
  BY <1>4, LiveClose
<1>7. /\ Len(Close(c).open) = Len(r.open) - 1
      /\ \A i \in 1..(Len(r.open) - 1) : Close(c).open[i] = c.open[i]
  <2>1. Close(c).open = Front(c.open) /\ Len(c.open) > 0
    BY <1>1, <1>4, CloseIs
  <2> QED BY <1>1, <2>1, FrontIs
<1>8. Close(c).told = Close(r).told
  BY <1>4, CloseIs DEF Twin
<1>9. /\ \A i \in 1..(Len(r.open) - 1) : i \in 1..Len(r.open)
      /\ \A i \in 2..(Len(r.open) - 1) : i \in 2..Len(r.open) /\ i \in 1..(Len(r.open) - 1)
  BY <1>1
<1>10. ASSUME Close(r).open # <<>> PROVE Close(r).open[1].text = <<>> /\ Close(c).open[1].text = <<>>
  <2>1. Close(r).open \in Seq(LiveFiles)
    BY <1>6 DEF LiveReader
  <2>2. 1 \in 1..(Len(r.open) - 1)
    BY <1>1, <1>6, <1>10, <2>1
  <2> QED BY <1>1, <1>6, <1>7, <2>2 DEF Twin
<1>11. \A i \in 1..(Len(r.open) - 1) : TwinFile(d, fs, Close(r).open[i], Close(c).open[i])
  BY <1>6, <1>7, <1>9 DEF Twin
<1>12. \A i \in 2..(Len(r.open) - 1) : TwinTexts(d, fs, Close(r).open[i], Close(c).open[i])
  BY <1>6, <1>7, <1>9 DEF Twin
<1>13. Twin(d, fs, Close(r), Close(c))
  BY <1>5, <1>6, <1>7, <1>8, <1>10, <1>11, <1>12 DEF Twin
<1> QED BY <1>3, <1>13

\* What a reader sees when it comes to p.
VisitSees(tree, r, p) ==
    IF \E i \in 2..Len(r.open) : Called(r.open[i].path) = Called(p) THEN "cycle"
    ELSE IF There(tree, p) = Nothing /\ p.globbed THEN "unmatched"
    ELSE There(tree, p).is

\* What is told when what is seen at line i of the file v.
Told(told, v, i, what) ==
    IF what \in LeavesNoTrace THEN told ELSE Append(told, <<v, i, what>>)

\* A file without the path p, which the reader has come to.
Without(f, p) == [f EXCEPT !.todo = @ \ {p}]

\* A step to a path p, by what is seen there.
LEMMA VisitSeen ==
    ASSUME NEW tree, NEW r, IsReader(r), NEW p, p = First(Innermost(r).todo)
    PROVE  /\ IsReader(Visit(tree, r)) /\ Visit(tree, r).vars = r.vars
           /\ Visit(tree, r).told = Told(r.told, Called(p), 0, VisitSees(tree, r, p))
           /\ VisitEvent(tree, r).what = VisitSees(tree, r, p)
           /\ Visit(tree, r).open =
                IF VisitSees(tree, r, p) = "file"
                THEN Append(WithInnermost(r, Without(Innermost(r), p)),
                            Opened(p, There(tree, p).text, {}))
                ELSE WithInnermost(r, Without(Innermost(r), p))
<1>1. /\ VisitEvent(tree, r).file = Called(p) /\ VisitEvent(tree, r).line = 0
      /\ VisitEvent(tree, r).what = VisitSees(tree, r, p)
  <2> DEFINE above == {Called(r.open[i].path) : i \in 2..Len(r.open)}
             what == IF Called(p) \in above THEN "cycle"
                     ELSE IF There(tree, p) = Nothing /\ p.globbed THEN "unmatched"
                     ELSE There(tree, p).is
  <2>1. VisitEvent(tree, r) = [Event(p, 0, what) EXCEPT !.deep = Len(r.open) - 1]
    BY DEF VisitEvent
  <2>2. what = VisitSees(tree, r, p)
    BY DEF VisitSees
  <2> HIDE DEF what
  <2>3. /\ VisitEvent(tree, r).file = Called(p) /\ VisitEvent(tree, r).line = 0
        /\ VisitEvent(tree, r).what = what
    BY <2>1 DEF Event
  <2> QED BY <2>2, <2>3
<1>2. Tell(r.told, VisitEvent(tree, r)) = Told(r.told, Called(p), 0, VisitSees(tree, r, p))
  BY <1>1 DEF Tell, Told
<1>3. /\ IsReader(Visit(tree, r)) /\ Visit(tree, r).vars = r.vars
      /\ Visit(tree, r).told = Tell(r.told, VisitEvent(tree, r))
  BY VisitIs
<1>4. Visit(tree, r).open =
        IF VisitEvent(tree, r).what = "file"
        THEN Append(WithInnermost(r, Without(Innermost(r), p)), Opened(p, There(tree, p).text, {}))
        ELSE WithInnermost(r, Without(Innermost(r), p))
  BY VisitIs DEF Without
<1> QED BY <1>1, <1>2, <1>3, <1>4

\* One path less in both, or one less that the copy does not lead to.
LEMMA TwinLess ==
    ASSUME NEW d, NEW fs, NEW todo \in SUBSET LiveReached, NEW left \in SUBSET InCopy,
           TwinTodos(d, fs, todo, left), NEW p \in todo
    PROVE  /\ \A q \in left : Called(q) = Called(p) => TwinTodos(d, fs, todo \ {p}, left \ {q})
           /\ Called(p) \notin CalledAll(left) => TwinTodos(d, fs, todo \ {p}, left)
<1>1. todo \in SUBSET Reached /\ left \in SUBSET Reached /\ Uniform(todo) /\ Uniform(left)
  BY DEF TwinTodos, LiveReached, InCopy
<1>2. CalledAll(todo \ {p}) = CalledAll(todo) \ {Called(p)} /\ Uniform(todo \ {p})
  BY <1>1, CalledLess
<1>3. \A x \in todo \ {p} : Called(x) # Called(p)
  BY <1>1, CalledOnce
<1>4. ASSUME NEW q \in left, Called(q) = Called(p) PROVE TwinTodos(d, fs, todo \ {p}, left \ {q})
  <2>1. CalledAll(left \ {q}) = CalledAll(left) \ {Called(p)} /\ Uniform(left \ {q})
    BY <1>1, <1>4, CalledLess
  <2>2. \A x \in todo \ {p} : Called(x) \in CalledAll(left) => Called(x) \in CalledAll(left \ {q})
    BY <1>3, <2>1
  <2> QED BY <1>2, <2>1, <2>2 DEF TwinTodos
<1>5. ASSUME Called(p) \notin CalledAll(left) PROVE TwinTodos(d, fs, todo \ {p}, left)
  BY <1>1, <1>2, <1>5 DEF TwinTodos
<1> QED BY <1>4, <1>5

\* In the copy every path is at the name it has after the switch.
LEMMA CopyThere ==
    ASSUME NEW d, NEW z, NEW fs, NEW tree, CopyStands(d, z, fs, tree),
           NEW q \in InCopy, q.dir \notin Range(Links)
    PROVE  /\ Called(q) \in Paths
           /\ There(tree, q) = IF Called(q) \in DOMAIN fs THEN File(fs[Called(q)]) ELSE Nothing
<1>1. q.at = "copy" /\ Place(q) \in Paths /\ Called(q) = Place(q)
  BY DEF InCopy, Reached, Place, Called, Virtualize, Paths
<1> QED BY <1>1 DEF There, CopyStands

\* A file of the copy, with one path less to come to.
LEMMA OneLessInCopy ==
    ASSUME NEW f \in CopyFiles, NEW p
    PROVE  /\ Without(f, p) \in CopyFiles /\ Without(f, p).path = f.path
           /\ Without(f, p).text = f.text /\ Without(f, p).line = f.line
           /\ Without(f, p).todo = f.todo \ {p}
<1>1. PICK todo \in SUBSET InCopy : todo = f.todo \ {p}
  BY DEF CopyFiles
<1> QED BY <1>1 DEF CopyFiles, Without

\* The two come to the same path.
LEMMA TwinSees ==
    ASSUME NEW d, NEW z, NEW fs, NEW tree, CopyStands(d, z, fs, tree),
           NEW r, NEW c, Twin(d, fs, r, c), ~Finished(r), Innermost(r).todo # {},
           VisitEvent(LiveOf(d), r) \in z.seen,
           NEW p, p = First(Innermost(r).todo)
    PROVE  /\ p \in Innermost(r).todo /\ p \in LiveReached /\ Called(p) \in Paths
           /\ There(LiveOf(d), p) = After(d, Called(p)) /\ InFiles(d, fs, Called(p))
           /\ VisitSees(LiveOf(d), r, p) =
                IF After(d, Called(p)) = Nothing
                THEN IF p.globbed THEN "unmatched" ELSE "none"
                ELSE "file"
           /\ \A i \in 2..Len(r.open) : Called(r.open[i].path) # Called(p)
<1>1. /\ Innermost(r) \in LiveFiles /\ TwinFile(d, fs, Innermost(r), Innermost(c))
  BY TwinInnermost
<1>2. Innermost(r).todo \in SUBSET LiveReached
  BY <1>1 DEF LiveFiles
<1>3. p \in Innermost(r).todo /\ p \in LiveReached
  <2>1. \A x \in Innermost(r).todo : x.dir \in Dirs /\ x.name \in Names
    BY <1>2 DEF LiveReached, Reached
  <2> QED BY <1>2, <2>1, FirstIn
<1>4. There(LiveOf(d), p) = After(d, Called(p)) /\ Called(p) \in Paths
  BY <1>3, LiveThere
<1>5. InFiles(d, fs, Called(p))
  BY <1>1, <1>3 DEF TwinFile, TwinTodos
<1>6. VisitSees(LiveOf(d), r, p) # "cycle"
  <2>1. UnobjectedEvent(VisitEvent(LiveOf(d), r))
    BY DEF CopyStands, Copied, Unobjected
  <2>2. VisitEvent(LiveOf(d), r).what = VisitSees(LiveOf(d), r, p) /\ IsReader(r)
    BY VisitSeen DEF Twin, LiveReader
  <2> QED BY <2>1, <2>2 DEF UnobjectedEvent
<1>7. \A i \in 2..Len(r.open) : Called(r.open[i].path) # Called(p)
  BY <1>6 DEF VisitSees
<1>8. After(d, Called(p)) # Nothing => After(d, Called(p)).is = "file"
  BY <1>5, CopyText DEF InFiles
<1>9. Nothing.is = "none"
  BY DEF Nothing
<1>10. VisitSees(LiveOf(d), r, p) =
         IF After(d, Called(p)) = Nothing THEN IF p.globbed THEN "unmatched" ELSE "none" ELSE "file"
  BY <1>4, <1>7, <1>8, <1>9 DEF VisitSees
<1> QED BY <1>3, <1>4, <1>5, <1>7, <1>10

\* If the copy leads there too, it is the next path of the copy.
LEMMA TwinComes ==
    ASSUME NEW d, NEW z, NEW fs, NEW tree, CopyStands(d, z, fs, tree),
           NEW r, NEW c, Twin(d, fs, r, c), ~Finished(r), Innermost(r).todo # {},
           VisitEvent(LiveOf(d), r) \in z.seen,
           NEW p, p = First(Innermost(r).todo), Called(p) \in CalledAll(Innermost(c).todo),
           NEW q, q = First(Innermost(c).todo)
    PROVE  /\ q \in Innermost(c).todo /\ q \in InCopy /\ Called(q) = Called(p)
           /\ There(tree, q) = IF Called(p) \in DOMAIN fs THEN File(fs[Called(p)]) ELSE Nothing
           /\ VisitSees(tree, c, q) = VisitSees(LiveOf(d), r, p)
<1>1. /\ Innermost(r) \in LiveFiles /\ Innermost(c) \in CopyFiles
      /\ TwinFile(d, fs, Innermost(r), Innermost(c)) /\ Len(c.open) = Len(r.open)
      /\ Len(r.open) \in Nat
  BY TwinInnermost
<1> DEFINE todo == Innermost(r).todo
           left == Innermost(c).todo
<1>2. todo \in SUBSET Reached /\ left \in SUBSET Reached /\ left \in SUBSET InCopy
  BY <1>1 DEF LiveFiles, CopyFiles, LiveReached, InCopy
<1>3. /\ Uniform(todo) /\ Uniform(left) /\ CalledAll(left) \subseteq CalledAll(todo)
      /\ \A x \in left : x.dir \notin Range(Links) /\ (p \in todo => p.globbed = x.globbed)
  BY <1>1 DEF TwinFile, TwinTodos
<1>4. p \in todo /\ Called(p) \in Paths /\ InFiles(d, fs, Called(p))
  BY TwinSees
<1>5. left # {}
  BY DEF CalledAll
<1>6. CalledAll(todo) \in SUBSET Paths
  <2>1. \A x \in todo : x \in LiveReached
    BY <1>1 DEF LiveFiles
  <2> QED BY <2>1, LiveThere DEF CalledAll
<1>7. Called(p) = First(CalledAll(todo)) /\ Called(q) = First(CalledAll(left))
  BY <1>2, <1>3, <1>5, FirstCalled
<1>8. Called(q) = Called(p)
  BY <1>3, <1>6, <1>7, FirstOfPart
<1>9. q \in left
  <2>1. \A x \in left : x.dir \in Dirs /\ x.name \in Names
    BY <1>2 DEF Reached
  <2> QED BY <1>5, <2>1, FirstIn
<1>10. /\ q \in InCopy
       /\ There(tree, q) = IF Called(p) \in DOMAIN fs THEN File(fs[Called(p)]) ELSE Nothing
  BY <1>2, <1>3, <1>8, <1>9, CopyThere
<1>11. ~\E i \in 2..Len(c.open) : Called(c.open[i].path) = Called(q)
  <2>1. \A i \in 2..Len(r.open) : i \in 1..Len(r.open)
    BY <1>1
  <2>2. \A i \in 2..Len(r.open) : Called(c.open[i].path) = Called(r.open[i].path)
    BY <2>1 DEF Twin, TwinFile
  <2> QED BY <1>1, <1>8, <2>2, TwinSees
<1>12. p.globbed = q.globbed
  BY <1>3, <1>4, <1>9
<1>13. CASE Called(p) \in DOMAIN fs
  <2>1. There(tree, q).is = "file" /\ There(tree, q) # Nothing /\ After(d, Called(p)) # Nothing
    BY <1>10, <1>13, CopyText DEF File, Nothing
  <2> QED BY <1>8, <1>9, <1>10, <1>11, <2>1, TwinSees DEF VisitSees
<1>14. CASE Called(p) \notin DOMAIN fs
  <2>1. There(tree, q).is = "none" /\ There(tree, q) = Nothing /\ After(d, Called(p)) = Nothing
    BY <1>4, <1>10, <1>14 DEF Nothing, InFiles
  <2>2. VisitSees(LiveOf(d), r, p) = IF p.globbed THEN "unmatched" ELSE "none"
    BY <2>1, TwinSees
  <2>3. VisitSees(tree, c, q) = IF q.globbed THEN "unmatched" ELSE "none"
    BY <1>11, <2>1 DEF VisitSees
  <2> QED BY <1>8, <1>9, <1>10, <1>12, <2>2, <2>3
<1> QED BY <1>13, <1>14

\* The files the two open then.
LEMMA TwinNew ==
    ASSUME NEW d, NEW z, NEW fs, NEW tree, CopyStands(d, z, fs, tree),
           NEW p \in LiveReached, NEW q \in InCopy, Called(q) = Called(p), Called(p) \in DOMAIN fs,
           There(LiveOf(d), p) = After(d, Called(p)), There(tree, q) = File(fs[Called(p)])
    PROVE  LET f == Opened(p, There(LiveOf(d), p).text, {})
               g == Opened(q, There(tree, q).text, {})
           IN  /\ f \in LiveFiles /\ g \in CopyFiles
               /\ TwinFile(d, fs, f, g) /\ TwinTexts(d, fs, f, g)
<1> DEFINE f == Opened(p, There(LiveOf(d), p).text, {})
           g == Opened(q, There(tree, q).text, {})
<1>1. After(d, Called(p)) \in [is : {"file"}, text : Seq(UserLines)]
  BY CopyText
<1>2. PICK text \in Seq(UserLines) : After(d, Called(p)) = File(text)
  BY <1>1 DEF File
<1>3. /\ f.path = p /\ f.text = text /\ f.line = 0 /\ f.todo = {} /\ f \in LiveFiles
  <2>1. There(LiveOf(d), p).text = text
    BY <1>2 DEF File
  <2> QED BY <2>1 DEF Opened, LiveFiles
<1>4. tree["copy"][Called(p)] = File(fs[Called(p)]) /\ Called(p) \in Paths
  BY DEF CopyStands
<1>5. fs[Called(p)] \in Seq(CopyLines)
  <2>1. /\ File(fs[Called(p)]).is = "file" /\ File(fs[Called(p)]).text = fs[Called(p)]
        /\ Nothing.is = "none"
    BY DEF File, Nothing
  <2>2. File(fs[Called(p)]) \in {Nothing} \union [is : {"file"}, text : Seq(CopyLines)]
    BY <1>4 DEF CopyStands, CopyTexts
  <2>3. File(fs[Called(p)]) \in [is : {"file"}, text : Seq(CopyLines)]
    BY <2>1, <2>2
  <2> QED BY <2>1, <2>3
<1>6. /\ g.path = q /\ g.text = fs[Called(p)] /\ g.line = 0 /\ g.todo = {} /\ g \in CopyFiles
  <2>1. There(tree, q).text = fs[Called(p)]
    BY DEF File
  <2> QED BY <1>5, <2>1 DEF Opened, CopyFiles
<1>7. TwinTodos(d, fs, {}, {})
  BY DEF TwinTodos, Uniform, CalledAll
<1> HIDE DEF f, g
<1>8. TwinFile(d, fs, f, g) /\ TwinTexts(d, fs, f, g)
  BY <1>2, <1>3, <1>6, <1>7 DEF TwinFile, TwinTexts
<1> QED BY <1>3, <1>6, <1>8 DEF f, g

\* The two files, when the reader has come to p, and the copy's to q if it leads there.
LEMMA TwinRest ==
    ASSUME NEW d, NEW fs, NEW f \in LiveFiles, NEW g \in CopyFiles, TwinFile(d, fs, f, g),
           NEW p \in f.todo
    PROVE  /\ Without(f, p) \in LiveFiles /\ SameText(f, Without(f, p))
           /\ \A q \in g.todo : Called(q) = Called(p) =>
                /\ Without(g, q) \in CopyFiles /\ SameText(g, Without(g, q))
                /\ TwinFile(d, fs, Without(f, p), Without(g, q))
           /\ Called(p) \notin CalledAll(g.todo) => TwinFile(d, fs, Without(f, p), g)
<1>1. /\ Without(f, p) \in LiveFiles /\ Without(f, p).path = f.path /\ Without(f, p).text = f.text
      /\ Without(f, p).line = f.line /\ Without(f, p).todo = f.todo \ {p}
  BY OneLess DEF Without
<1>2. f.todo \in SUBSET LiveReached /\ g.todo \in SUBSET InCopy
  BY DEF LiveFiles, CopyFiles
<1>3. TwinTodos(d, fs, f.todo, g.todo) /\ Called(f.path) = Called(g.path) /\ f.line = g.line
  BY DEF TwinFile
<1>4. ASSUME NEW q \in g.todo, Called(q) = Called(p)
      PROVE  /\ Without(g, q) \in CopyFiles /\ SameText(g, Without(g, q))
             /\ TwinFile(d, fs, Without(f, p), Without(g, q))
  <2>1. TwinTodos(d, fs, f.todo \ {p}, g.todo \ {q})
    BY <1>2, <1>3, <1>4, TwinLess
  <2>2. /\ Without(g, q) \in CopyFiles /\ Without(g, q).path = g.path
        /\ Without(g, q).text = g.text /\ Without(g, q).line = g.line
        /\ Without(g, q).todo = g.todo \ {q}
    BY OneLessInCopy
  <2> QED BY <1>1, <1>3, <2>1, <2>2 DEF TwinFile, SameText
<1>5. ASSUME Called(p) \notin CalledAll(g.todo) PROVE TwinFile(d, fs, Without(f, p), g)
  <2>1. TwinTodos(d, fs, f.todo \ {p}, g.todo)
    BY <1>2, <1>3, <1>5, TwinLess
  <2> QED BY <1>1, <1>3, <2>1 DEF TwinFile
<1> QED BY <1>1, <1>4, <1>5 DEF SameText

\* A reader whose innermost file is f.
WithFile(r, f) ==
    [open |-> WithInnermost(r, f), vars |-> r.vars, seen |-> r.seen, told |-> r.told,
     visits |-> r.visits]

\* The fields of a reader whose innermost file was replaced.
LEMMA WithFileIs ==
    ASSUME NEW r, NEW f
    PROVE  /\ IsReader(WithFile(r, f)) /\ WithFile(r, f).open = WithInnermost(r, f)
           /\ WithFile(r, f).vars = r.vars /\ WithFile(r, f).seen = r.seen
           /\ WithFile(r, f).told = r.told
BY DEF WithFile, IsReader

\* A step to a file opens it.
LEMMA VisitOpens ==
    ASSUME NEW tree, NEW r, IsReader(r), NEW p, p = First(Innermost(r).todo),
           VisitSees(tree, r, p) = "file"
    PROVE  Visit(tree, r).open = Append(WithInnermost(r, Without(Innermost(r), p)),
                                        Opened(p, There(tree, p).text, {}))
BY VisitSeen

\* The two open the same file, and its copy.
LEMMA TwinVisitFile ==
    ASSUME NEW d, NEW z, NEW fs, NEW tree, CopyStands(d, z, fs, tree),
           NEW r, NEW c, Twin(d, fs, r, c), ~Finished(r), Innermost(r).todo # {},
           VisitEvent(LiveOf(d), r) \in z.seen,
           NEW p, p = First(Innermost(r).todo), Called(p) \in CalledAll(Innermost(c).todo),
           VisitSees(LiveOf(d), r, p) = "file",
           LiveReader(Visit(LiveOf(d), r)), CopyReader(Visit(tree, c))
    PROVE  Twin(d, fs, Visit(LiveOf(d), r), Visit(tree, c))
<1> DEFINE q == First(Innermost(c).todo)
           f == Without(Innermost(r), p)
           g == Without(Innermost(c), q)
           f2 == Opened(p, There(LiveOf(d), p).text, {})
           g2 == Opened(q, There(tree, q).text, {})
<1>1. /\ r.open # <<>> /\ c.open # <<>> /\ r.open \in Seq(LiveFiles) /\ c.open \in Seq(CopyFiles)
      /\ Innermost(r) \in LiveFiles /\ Innermost(c) \in CopyFiles
      /\ TwinFile(d, fs, Innermost(r), Innermost(c)) /\ Len(c.open) = Len(r.open)
  BY TwinInnermost
<1>2. /\ LiveReader(r) /\ CopyReader(c) /\ IsReader(r) /\ IsReader(c) /\ c.told = r.told
  BY DEF Twin, LiveReader, CopyReader
<1>3. /\ p \in Innermost(r).todo /\ p \in LiveReached
      /\ There(LiveOf(d), p) = After(d, Called(p)) /\ InFiles(d, fs, Called(p))
      /\ VisitSees(LiveOf(d), r, p) =
           IF After(d, Called(p)) = Nothing THEN IF p.globbed THEN "unmatched" ELSE "none" ELSE "file"
  BY TwinSees
<1>4. Called(p) \in DOMAIN fs
  BY <1>3 DEF InFiles
<1>5. /\ q \in Innermost(c).todo /\ q \in InCopy /\ Called(q) = Called(p)
      /\ There(tree, q) = File(fs[Called(p)])
      /\ VisitSees(tree, c, q) = VisitSees(LiveOf(d), r, p)
  BY <1>4, TwinComes
<1>6. f2 \in LiveFiles /\ g2 \in CopyFiles /\ TwinFile(d, fs, f2, g2) /\ TwinTexts(d, fs, f2, g2)
  BY <1>3, <1>4, <1>5, TwinNew
<1>7. /\ f \in LiveFiles /\ SameText(Innermost(r), f) /\ g \in CopyFiles /\ SameText(Innermost(c), g)
      /\ TwinFile(d, fs, f, g)
  BY <1>1, <1>3, <1>5, TwinRest
<1>8. /\ Visit(LiveOf(d), r).open = Append(WithInnermost(r, f), f2)
      /\ Visit(LiveOf(d), r).told = Told(r.told, Called(p), 0, "file")
  <2>1. Visit(LiveOf(d), r).told = Told(r.told, Called(p), 0, "file")
    BY <1>2, VisitSeen
  <2>2. Visit(LiveOf(d), r).open = Append(WithInnermost(r, Without(Innermost(r), p)),
                                          Opened(p, There(LiveOf(d), p).text, {}))
    BY <1>2, VisitOpens
  <2> QED BY ONLY <2>1, <2>2
<1>9. /\ Visit(tree, c).open = Append(WithInnermost(c, g), g2)
      /\ Visit(tree, c).told = Told(c.told, Called(q), 0, "file")
  <2>1. VisitSees(tree, c, q) = "file"
    BY <1>5
  <2>2. Visit(tree, c).told = Told(c.told, Called(q), 0, "file")
    BY <1>2, <2>1, VisitSeen
  <2>3. Visit(tree, c).open = Append(WithInnermost(c, Without(Innermost(c), q)),
                                     Opened(q, There(tree, q).text, {}))
    BY <1>2, <2>1, VisitOpens
  <2> QED BY ONLY <2>2, <2>3
<1> HIDE DEF f, g, f2, g2, q
<1>10. LiveReader(WithFile(r, f)) /\ CopyReader(WithFile(c, g))
  <2>1. WithInnermost(r, f) \in Seq(LiveFiles) /\ WithInnermost(c, g) \in Seq(CopyFiles)
    BY <1>1, <1>7, LastReplaced DEF WithInnermost
  <2>2. LiveReader(WithFile(r, f))
    BY <1>2, <2>1, WithFileIs DEF LiveReader
  <2>3. CopyReader(WithFile(c, g))
    BY <1>2, <2>1, WithFileIs DEF CopyReader
  <2> QED BY <2>2, <2>3
<1>11. /\ WithFile(r, f).open = WithInnermost(r, f) /\ WithFile(c, g).open = WithInnermost(c, g)
       /\ WithFile(c, g).told = WithFile(r, f).told
  BY <1>2, WithFileIs
<1>12. Twin(d, fs, WithFile(r, f), WithFile(c, g))
  BY <1>7, <1>10, <1>11, TwinTop
<1>13. ~Finished(WithFile(r, f))
  <2>1. WithInnermost(r, f) # <<>>
    BY <1>1, <1>7, LastReplaced DEF WithInnermost
  <2> QED BY <1>11, <2>1 DEF Finished
<1>14. Visit(tree, c).told = Visit(LiveOf(d), r).told
  BY <1>2, <1>5, <1>8, <1>9
<1> QED BY <1>6, <1>8, <1>9, <1>11, <1>12, <1>13, <1>14, TwinOpened

\* The two come to a path, or the config's reader comes to one that a glob of
\* the copy does not find.
LEMMA TwinVisit ==
    ASSUME NEW d, NEW z, NEW fs, NEW tree, CopyStands(d, z, fs, tree),
           NEW r, NEW c, Twin(d, fs, r, c), ~Finished(r), Innermost(r).todo # {},
           VisitEvent(LiveOf(d), r) \in z.seen
    PROVE  \/ Twin(d, fs, Visit(LiveOf(d), r), c)
           \/ Twin(d, fs, Visit(LiveOf(d), r), Step(tree, c))
<1> DEFINE p == First(Innermost(r).todo)
           q == First(Innermost(c).todo)
           f == Without(Innermost(r), p)
           g == Without(Innermost(c), q)
           r2 == Visit(LiveOf(d), r)
<1>1. /\ r.open # <<>> /\ c.open # <<>> /\ r.open \in Seq(LiveFiles) /\ c.open \in Seq(CopyFiles)
      /\ Innermost(r) \in LiveFiles /\ Innermost(c) \in CopyFiles
      /\ TwinFile(d, fs, Innermost(r), Innermost(c)) /\ Len(c.open) = Len(r.open) /\ ~Finished(c)
      /\ Len(r.open) \in Nat /\ Len(r.open) >= 1
  BY TwinInnermost
<1>2. /\ LiveReader(r) /\ CopyReader(c) /\ IsReader(r) /\ IsReader(c) /\ c.told = r.told
  BY DEF Twin, LiveReader, CopyReader
<1>3. LiveReader(r2)
  BY <1>2, LiveVisit DEF CopyStands
<1>4. /\ p \in Innermost(r).todo /\ InFiles(d, fs, Called(p))
      /\ VisitSees(LiveOf(d), r, p) =
           IF After(d, Called(p)) = Nothing THEN IF p.globbed THEN "unmatched" ELSE "none" ELSE "file"
  BY TwinSees
<1>5. f \in LiveFiles /\ SameText(Innermost(r), f)
  BY <1>1, <1>4, TwinRest
<1>6. CASE Called(p) \in CalledAll(Innermost(c).todo)
  <2>1. Innermost(c).todo # {}
    BY <1>6 DEF CalledAll
  <2>2. Step(tree, c) = Visit(tree, c) /\ CopyReader(Visit(tree, c))
    <3>1. Step(tree, c) = Visit(tree, c)
      BY <1>1, <2>1 DEF Step
    <3> QED BY <1>2, <3>1, CopyStep DEF CopyStands
  <2>3. /\ q \in Innermost(c).todo /\ Called(q) = Called(p)
        /\ VisitSees(tree, c, q) = VisitSees(LiveOf(d), r, p)
    BY <1>6, TwinComes
  <2>4. CASE VisitSees(LiveOf(d), r, p) = "file"
    BY <1>3, <1>6, <2>2, <2>4, TwinVisitFile
  <2>5. CASE VisitSees(LiveOf(d), r, p) # "file"
    <3>1. g \in CopyFiles /\ SameText(Innermost(c), g) /\ TwinFile(d, fs, f, g)
      BY <1>1, <1>4, <2>3, TwinRest
    <3>2. /\ r2.open = WithInnermost(r, f)
          /\ r2.told = Told(r.told, Called(p), 0, VisitSees(LiveOf(d), r, p))
      BY <1>2, <2>5, VisitSeen
    <3>3. /\ Visit(tree, c).open = WithInnermost(c, g)
          /\ Visit(tree, c).told = Told(c.told, Called(q), 0, VisitSees(tree, c, q))
      BY <1>2, <2>3, <2>5, VisitSeen
    <3>4. Visit(tree, c).told = r2.told
      BY <1>2, <2>3, <3>2, <3>3
    <3> HIDE DEF f, g, q, p, r2
    <3>5. Twin(d, fs, r2, Visit(tree, c))
      BY <1>3, <1>5, <2>2, <3>1, <3>2, <3>3, <3>4, TwinTop
    <3> QED BY <2>2, <3>5 DEF r2
  <2> QED BY <2>4, <2>5
<1>7. CASE Called(p) \notin CalledAll(Innermost(c).todo)
  <2>1. p.globbed /\ After(d, Called(p)) = Nothing
    BY <1>1, <1>4, <1>7 DEF TwinFile, TwinTodos
  <2>2. VisitSees(LiveOf(d), r, p) = "unmatched"
    BY <1>4, <2>1
  <2>3. r2.open = WithInnermost(r, f) /\ r2.told = Told(r.told, Called(p), 0, "unmatched")
    BY <1>2, <2>2, VisitSeen
  <2>4. r2.told = c.told
    BY <1>2, <2>3 DEF Told, LeavesNoTrace
  <2>5. TwinFile(d, fs, f, Innermost(c)) /\ SameText(Innermost(c), Innermost(c))
    BY <1>1, <1>4, <1>7, TwinRest DEF SameText
  <2>6. c.open = WithInnermost(c, Innermost(c))
    BY <1>1 DEF WithInnermost, Innermost
  <2> HIDE DEF f, p, r2
  <2>7. Twin(d, fs, r2, c)
    BY <1>1, <1>2, <1>3, <1>5, <2>3, <2>4, <2>5, <2>6, TwinTop
  <2> QED BY <2>7 DEF r2
<1> QED BY <1>6, <1>7

\* What a reader sees in a line.
LineSees(r, line) ==
    IF line.is = "source" /\ Meaningless(line.value, r.vars) THEN "meaningless" ELSE line.is

\* What a reader sees in a line, as the event it leaves.
LEMMA LineEventIs ==
    ASSUME NEW tree, NEW r, NEW f, f = Innermost(r), NEW line, line = f.text[f.line + 1]
    PROVE  /\ LineEvent(tree, r).file = Called(f.path) /\ LineEvent(tree, r).line = f.line + 1
           /\ LineEvent(tree, r).what = LineSees(r, line)
           /\ LineSees(r, line) = "source" =>
                LineEvent(tree, r).to = Resolve(line.value, f.path.dir, r.vars)
<1> DEFINE event == Event(f.path, f.line + 1, line.is)
           to == Expand(line.value, r.vars)
<1>1. /\ event.file = Called(f.path) /\ event.line = f.line + 1 /\ event.what = line.is
  BY DEF Event
<1>2. CASE line.is = "define"
  <2>1. LineEvent(tree, r) = [event EXCEPT !.inside = @ /\ Inside(Expand(line.value, r.vars))]
    BY <1>2 DEF LineEvent
  <2>2. /\ LineEvent(tree, r).file = Called(f.path) /\ LineEvent(tree, r).line = f.line + 1
        /\ LineEvent(tree, r).what = line.is
    BY <2>1 DEF Event
  <2> QED BY <1>2, <2>2 DEF LineSees
<1>3. CASE line.is # "source" /\ line.is # "define"
  <2>1. LineEvent(tree, r) = event
    BY <1>3 DEF LineEvent
  <2> QED BY <1>1, <1>3, <2>1 DEF LineSees
<1>4. CASE line.is = "source" /\ Meaningless(line.value, r.vars)
  <2>1. LineEvent(tree, r) = [event EXCEPT !.what = "meaningless"]
    BY <1>4 DEF LineEvent
  <2>2. /\ LineEvent(tree, r).file = Called(f.path) /\ LineEvent(tree, r).line = f.line + 1
        /\ LineEvent(tree, r).what = "meaningless"
    BY <2>1 DEF Event
  <2> QED BY <1>4, <2>2 DEF LineSees
<1>5. CASE line.is = "source" /\ ~Meaningless(line.value, r.vars)
  <2> DEFINE resolved == Resolve(line.value, f.path.dir, r.vars)
             among == IF to.base = "*/" THEN ConfigDirs(tree, to.at) ELSE {}
             matched == IF to.rest = "*" THEN {Called(q) : q \in Leads(tree, line.value, f.path, r.vars)}
                        ELSE {}
  <2>1. LineEvent(tree, r) = [event EXCEPT !.to = resolved, !.among = among, !.matched = matched]
    BY <1>5 DEF LineEvent
  <2> HIDE DEF resolved, among, matched
  <2>2. /\ LineEvent(tree, r).file = Called(f.path) /\ LineEvent(tree, r).line = f.line + 1
        /\ LineEvent(tree, r).what = line.is /\ LineEvent(tree, r).to = resolved
    BY <2>1 DEF Event
  <2> QED BY <1>5, <2>2 DEF LineSees, resolved
<1> QED BY <1>2, <1>3, <1>4, <1>5

\* Where the line leads to.
LineTodo(tree, r, f, line) ==
    IF LineSees(r, line) = "source" THEN Leads(tree, line.value, f.path, r.vars) ELSE {}

\* A step over a line, by what is seen there.
LEMMA ReadSeen ==
    ASSUME NEW tree, NEW r, IsReader(r), NEW f, f = Innermost(r), NEW line, line = f.text[f.line + 1]
    PROVE  /\ ReadNext(tree, r).told = Told(r.told, Called(f.path), f.line + 1, LineSees(r, line))
           /\ ReadNext(tree, r).open = WithInnermost(r, Further(f, LineTodo(tree, r, f, line)))
<1>1. /\ LineEvent(tree, r).file = Called(f.path) /\ LineEvent(tree, r).line = f.line + 1
      /\ LineEvent(tree, r).what = LineSees(r, line)
  BY LineEventIs
<1>2. Tell(r.told, LineEvent(tree, r)) = Told(r.told, Called(f.path), f.line + 1, LineSees(r, line))
  BY <1>1 DEF Tell, Told
<1>3. ReadNext(tree, r).told = Tell(r.told, LineEvent(tree, r))
  BY ReadIs
<1>4. ReadNext(tree, r).open =
        WithInnermost(r, Further(f, IF LineEvent(tree, r).what = "source"
                                    THEN Leads(tree, line.value, f.path, r.vars) ELSE {}))
  BY ReadIs
<1> QED BY <1>1, <1>2, <1>3, <1>4 DEF LineTodo

\* A file of the copy, one line further.
LEMMA OneLineFurtherInCopy ==
    ASSUME NEW f \in CopyFiles, NEW todo \in SUBSET InCopy
    PROVE  /\ Further(f, todo) \in CopyFiles /\ Further(f, todo).path = f.path
           /\ Further(f, todo).text = f.text /\ Further(f, todo).line = f.line + 1
           /\ Further(f, todo).todo = todo
<1> DEFINE next == f.line + 1
<1>1. next \in Nat
  BY DEF CopyFiles
<1> HIDE DEF next
<1>2. /\ f = [path |-> f.path, text |-> f.text, line |-> f.line, todo |-> f.todo]
      /\ f.path \in InCopy /\ f.text \in Seq(CopyLines)
  BY DEF CopyFiles
<1>3. Further(f, todo) = [f EXCEPT !.line = next, !.todo = todo]
  BY DEF Further, next
<1>4. Further(f, todo) = [path |-> f.path, text |-> f.text, line |-> next, todo |-> todo]
  BY <1>2, <1>3
<1>5. /\ Further(f, todo) \in CopyFiles /\ Further(f, todo).path = f.path
      /\ Further(f, todo).text = f.text /\ Further(f, todo).line = next
      /\ Further(f, todo).todo = todo
  BY <1>1, <1>2, <1>4 DEF CopyFiles
<1> QED BY <1>5 DEF next

\* Where a source of the copy leads to.
CopyNamed(tree, to) ==
    [at : {"copy"}, dir : IF to.dir = "*/" THEN ConfigDirs(tree, "copy") ELSE {to.dir},
     name : IF to.rest = "*" THEN Names \ Hidden ELSE {to.rest} \intersect Names,
     globbed : {to.dir = "*/" \/ to.rest = "*"}]

CopyLed(tree, to) ==
    IF to.rest = "*" THEN {q \in CopyNamed(tree, to) : There(tree, q) # Nothing}
    ELSE CopyNamed(tree, to)

\* A source that sanitize made means something, and no variable changes it.
LEMMA SourcingLeads ==
    ASSUME NEW tree, NEW to \in Targets, NEW p, NEW variables, DOMAIN variables \subseteq VarNames
    PROVE  /\ Sourcing(to).is = "source"
           /\ ~Meaningless(Sourcing(to).value, variables)
           /\ Leads(tree, Sourcing(to).value, p, variables) = CopyLed(tree, to)
<1> DEFINE value == [at |-> "copy", base |-> to.dir, rest |-> to.rest]
<1>1. Sourcing(to).is = "source" /\ Sourcing(to).value = value
  BY DEF Sourcing
<1>2. /\ value.at = "copy" /\ value.base = to.dir /\ value.rest = to.rest
      /\ to.dir \in Dirs \union {"*/"}
  BY DEF Targets
<1> HIDE DEF value
<1>3. to.dir \notin VarNames /\ to.dir # "~" /\ to.dir # "here"
  BY <1>2, WordsAssumption
<1>4. Expand(value, variables) = value
  BY <1>2, <1>3 DEF Expand
<1>5. ~Meaningless(value, variables)
  BY <1>2, <1>4 DEF Meaningless
<1>6. DirsNamed(tree, value, p, variables) =
        IF to.dir = "*/" THEN ConfigDirs(tree, "copy") ELSE {to.dir}
  <2>1. CASE to.dir = "*/"
    BY <1>2, <1>3, <1>4, <2>1 DEF DirsNamed
  <2>2. CASE to.dir # "*/"
    <3>1. {to.dir} \intersect Dirs = {to.dir}
      BY <1>2, <2>2
    <3> QED BY <1>2, <1>3, <1>4, <2>2, <3>1 DEF DirsNamed
  <2> QED BY <2>1, <2>2
<1>7. Leads(tree, value, p, variables) = CopyLed(tree, to)
  BY <1>2, <1>3, <1>4, <1>6 DEF Leads, CopyLed, CopyNamed
<1> QED BY <1>1, <1>5, <1>7

\* What a source of the copy leads to is part of what that of the config does.
LEMMA CopyLedIs ==
    ASSUME NEW d, NEW z, NEW fs, NEW tree, CopyStands(d, z, fs, tree),
           NEW to \in Targets, to.dir \notin Range(Links), NEW q \in CopyLed(tree, to)
    PROVE  /\ q \in InCopy /\ q.dir \notin Range(Links) /\ Called(q) \in Matches(d, to)
           /\ q.globbed = (to.dir = "*/" \/ to.rest = "*")
<1>1. q \in CopyNamed(tree, to)
  BY DEF CopyLed
<1>2. to.dir \in Dirs \union {"*/"} /\ to.rest \in Names \union {"*"} /\ "*" \notin Names
  BY WordsAssumption DEF Targets
<1>3. ConfigDirs(tree, "copy") \subseteq Config /\ Config \subseteq Dirs
  BY DirsAssumption DEF ConfigDirs
<1>4. q.dir \in DirsTo(to) /\ q.dir \in Dirs
  BY <1>1, <1>2, <1>3 DEF CopyNamed, DirsTo
<1>5. q.dir \notin Range(Links)
  <2>1. Config \intersect Range(Links) = {}
    BY DirsAssumption
  <2> QED BY <1>4, <2>1 DEF DirsTo
<1>6. /\ q.at = "copy" /\ q.name \in Names
      /\ q.name \in IF to.rest = "*" THEN Names \ Hidden ELSE {to.rest} \intersect Names
      /\ q.globbed = (to.dir = "*/" \/ to.rest = "*")
  BY <1>1 DEF CopyNamed
<1>7. q \in InCopy
  <2>1. (to.dir = "*/" \/ to.rest = "*") \in BOOLEAN
    OBVIOUS
  <2>2. q = [at |-> q.at, dir |-> q.dir, name |-> q.name, globbed |-> q.globbed]
    BY <1>1 DEF CopyNamed
  <2>3. q.at \in Ats
    BY <1>6 DEF Ats
  <2> QED BY <1>4, <1>6, <2>1, <2>2, <2>3 DEF InCopy, Reached
<1>8. Called(q) = Place(q) /\ Called(q).dir = q.dir /\ Called(q).name = q.name
  BY <1>5 DEF Called, Place, Virtualize
<1>9. CASE to.rest = "*"
  <2>1. There(tree, q) # Nothing
    BY <1>9 DEF CopyLed
  <2>2. Called(q) \in DOMAIN fs
    BY <1>5, <1>7, <2>1, CopyThere
  <2>3. After(d, Called(q)) # Nothing
    BY <2>2, CopyText
  <2>4. Called(q) \in [dir : DirsTo(to), name : Names] /\ Called(q).name \notin Hidden
    BY <1>4, <1>6, <1>8, <1>9 DEF Place
  <2> QED BY <1>5, <1>6, <1>7, <1>9, <2>3, <2>4 DEF Matches
<1>10. CASE to.rest # "*"
  <2>1. Called(q) \in [dir : DirsTo(to), name : {to.rest} \intersect Names]
    BY <1>4, <1>6, <1>8, <1>10 DEF Place
  <2> QED BY <1>5, <1>6, <1>7, <1>10, <2>1 DEF Matches
<1> QED BY <1>9, <1>10

\* And what is missing a glob did not find.
LEMMA CopyLedAll ==
    ASSUME NEW d, NEW z, NEW fs, NEW tree, CopyStands(d, z, fs, tree),
           NEW to \in Targets, to.dir \notin Range(Links),
           NEW w \in Matches(d, to), InFiles(d, fs, w)
    PROVE  \/ w \in CalledAll(CopyLed(tree, to))
           \/ (to.dir = "*/" \/ to.rest = "*") /\ After(d, w) = Nothing
<1> DEFINE globbed == to.dir = "*/" \/ to.rest = "*"
           q == [at |-> "copy", dir |-> w.dir, name |-> w.name, globbed |-> globbed]
<1>1. to.dir \in Dirs \union {"*/"} /\ to.rest \in Names \union {"*"} /\ "*" \notin Names
  BY WordsAssumption DEF Targets
<1>2. /\ w = [dir |-> w.dir, name |-> w.name] /\ w.dir \in DirsTo(to) /\ w.name \in Names
      /\ w.name \in IF to.rest = "*" THEN Names \ Hidden ELSE {to.rest} \intersect Names
      /\ to.rest = "*" => After(d, w) # Nothing
  BY <1>1 DEF Matches
<1>3. w.dir \notin Range(Links) /\ w.dir \in Dirs
  <2>1. Config \intersect Range(Links) = {} /\ Config \subseteq Dirs
    BY DirsAssumption
  <2> QED BY <1>1, <1>2, <2>1 DEF DirsTo
<1>4. /\ q.at = "copy" /\ q.dir = w.dir /\ q.name = w.name /\ q.globbed = globbed
      /\ q \in InCopy /\ Called(q) = w /\ w \in Paths
  <2>1. globbed \in BOOLEAN
    OBVIOUS
  <2> HIDE DEF globbed
  <2>2. q.at = "copy" /\ q.dir = w.dir /\ q.name = w.name /\ q.globbed = globbed /\ q \in InCopy
    BY <1>2, <1>3, <2>1 DEF InCopy, Reached, Ats
  <2>3. Called(q) = [dir |-> w.dir, name |-> w.name]
    BY <1>3, <2>2 DEF Called, Virtualize
  <2> QED BY <1>2, <1>3, <2>2, <2>3 DEF Paths
<1> HIDE DEF q
<1>5. There(tree, q) = IF w \in DOMAIN fs THEN File(fs[w]) ELSE Nothing
  BY <1>3, <1>4, CopyThere
<1>6. File(fs[w]) # Nothing
  BY DEF File, Nothing
<1>7. CASE w \notin DOMAIN fs /\ globbed
  BY <1>7 DEF InFiles
<1>8. CASE w \in DOMAIN fs \/ ~globbed
  <2>1. w.dir \in IF to.dir = "*/" THEN ConfigDirs(tree, "copy") ELSE {to.dir}
    <3>1. CASE to.dir # "*/"
      BY <1>2, <3>1 DEF DirsTo
    <3>2. CASE to.dir = "*/"
      <4>1. w \in DOMAIN fs /\ w.dir \in Config
        BY <1>2, <1>8, <3>2 DEF DirsTo
      <4>2. tree["copy"][[dir |-> w.dir, name |-> w.name]] # Nothing
        BY <1>2, <1>4, <1>6, <4>1 DEF CopyStands
      <4>3. w.dir \in ConfigDirs(tree, "copy")
        BY <1>2, <4>1, <4>2 DEF ConfigDirs
      <4> QED BY <3>2, <4>3
    <3> QED BY <3>1, <3>2
  <2>2. q = [at |-> "copy", dir |-> w.dir, name |-> w.name, globbed |-> globbed]
    BY DEF q
  <2> HIDE DEF globbed
  <2>3. q \in CopyNamed(tree, to)
    BY <1>2, <2>1, <2>2 DEF CopyNamed, globbed
  <2>4. to.rest = "*" => There(tree, q) # Nothing
    BY <1>5, <1>6, <1>8 DEF globbed
  <2>5. q \in CopyLed(tree, to)
    BY <2>3, <2>4 DEF CopyLed
  <2> QED BY <1>4, <2>5 DEF CalledAll
<1> QED BY <1>7, <1>8

\* The two follow a source that stands in both.
LEMMA LeadsTwin ==
    ASSUME NEW d, NEW z, NEW fs, NEW tree, CopyStands(d, z, fs, tree),
           NEW to \in Targets, to.dir \notin Range(Links),
           \A w \in Matches(d, to) : InFiles(d, fs, w),
           NEW value, NEW p, NEW variables, LedTo(d, value, p, variables, to)
    PROVE  /\ CopyLed(tree, to) \in SUBSET InCopy
           /\ TwinTodos(d, fs, Leads(LiveOf(d), value, p, variables), CopyLed(tree, to))
<1> DEFINE todo == Leads(LiveOf(d), value, p, variables)
           left == CopyLed(tree, to)
           globbed == to.dir = "*/" \/ to.rest = "*"
<1>1. /\ todo \subseteq LiveReached /\ Uniform(todo) /\ CalledAll(todo) = Matches(d, to)
      /\ \A x \in todo : x.globbed <=> globbed
  BY DEF LedTo
<1>2. \A x \in todo : x.globbed \in BOOLEAN
  BY <1>1 DEF LiveReached, Reached
<1>3. \A q \in left : /\ q \in InCopy /\ q.dir \notin Range(Links) /\ Called(q) \in Matches(d, to)
                      /\ q.globbed = globbed
  BY CopyLedIs
<1>4. \A w \in Matches(d, to) : w \in CalledAll(left) \/ (globbed /\ After(d, w) = Nothing)
  BY CopyLedAll
<1> HIDE DEF todo, left
<1>5. \A x \in todo : x.globbed = globbed
  BY <1>1, <1>2
<1> HIDE DEF globbed
<1>6. left \in SUBSET InCopy
  BY <1>3
<1>7. Uniform(left)
  BY <1>3 DEF Uniform, InCopy
<1>8. CalledAll(left) \subseteq CalledAll(todo)
  BY <1>1, <1>3 DEF CalledAll
<1>9. \A x \in todo : Called(x) \in Matches(d, to)
  BY <1>1 DEF CalledAll
<1>10. TwinTodos(d, fs, todo, left)
  BY <1>1, <1>3, <1>4, <1>5, <1>7, <1>8, <1>9 DEF TwinTodos
<1> QED BY <1>6, <1>10 DEF todo, left

\* A line that is no source tells the same when it is sanitized.
LEMMA SanitizedTold ==
    ASSUME NEW line \in UserLines, line.is # "source", NEW dir
    PROVE  LET s == Sanitized(line, dir, <<>>)
           IN  /\ s.is # "source"
               /\ s.is = line.is \/ (s.is \in LeavesNoTrace /\ line.is \in LeavesNoTrace)
<1>1. CASE Strips(line)
  <2>1. Sanitized(line, dir, <<>>) = Blank
    BY <1>1 DEF Sanitized, Strips
  <2> QED BY <1>1, <2>1 DEF Strips, Blank, LeavesNoTrace
<1>2. CASE ~Strips(line) /\ line.is = "define"
  <2>1. Sanitized(line, dir, <<>>) = [line EXCEPT !.value = Rewritten(@)]
    BY <1>2 DEF Sanitized
  <2>2. Sanitized(line, dir, <<>>).is = line.is
    BY <1>2, <2>1 DEF UserLines, LinesOf
  <2> QED BY <1>2, <2>2
<1>3. CASE ~Strips(line) /\ line.is # "define"
  BY <1>3 DEF Sanitized
<1> QED BY <1>1, <1>2, <1>3

\* The line the two are at.
LEMMA TwinLine ==
    ASSUME NEW d, NEW z, NEW fs, NEW tree, CopyStands(d, z, fs, tree),
           NEW r, NEW c, Twin(d, fs, r, c), ~Finished(r),
           Innermost(r).line < Len(Innermost(r).text),
           NEW j, j = Innermost(r).line + 1,
           NEW line, line = Innermost(r).text[j], NEW v, v = Called(Innermost(r).path)
    PROVE  /\ v \in DOMAIN fs /\ j \in 1..Len(fs[v]) /\ line \in UserLines
           /\ Innermost(c).line + 1 = j /\ Called(Innermost(c).path) = v
           /\ Innermost(c).line < Len(Innermost(c).text)
           /\ Innermost(c).text[j] = fs[v][j]
           /\ ShownLine(z.seen, CopyOf(v, fs[v]), j, line)
<1>1. /\ Innermost(r) \in LiveFiles /\ TwinFile(d, fs, Innermost(r), Innermost(c))
  BY TwinInnermost
<1>2. Innermost(r).text \in Seq(UserLines) /\ Innermost(r).line \in Nat
  BY <1>1 DEF LiveFiles
<1>3. j \in 1..Len(Innermost(r).text)
  BY <1>2
<1>4. line \in UserLines /\ Innermost(r).text # <<>>
  BY <1>2, <1>3
<1>5. /\ TwinTexts(d, fs, Innermost(r), Innermost(c))
      /\ Len(Innermost(c).text) = Len(Innermost(r).text)
  BY <1>4, TwinLength
<1>6. /\ v \in DOMAIN fs /\ Innermost(c).text = fs[v] /\ After(d, v).text = Innermost(r).text
  BY <1>5 DEF TwinTexts, File
<1>7. Called(Innermost(c).path) = v /\ Innermost(c).line = Innermost(r).line
  BY <1>1 DEF TwinFile
<1>8. j \in 1..Len(fs[v])
  BY <1>3, <1>5, <1>6
<1>9. ShownLine(z.seen, CopyOf(v, fs[v]), j, line)
  BY <1>6, <1>8, CopyText
<1> QED BY <1>4, <1>5, <1>6, <1>7, <1>8, <1>9

\* What is told of the line, and where it leads, in the two.
Alike(d, fs, tree, r, c, f, g, line, copied) ==
    /\ \A told, v, j : Told(told, v, j, LineSees(c, copied)) = Told(told, v, j, LineSees(r, line))
    /\ LineTodo(LiveOf(d), r, f, line) \in SUBSET LiveReached
    /\ LineTodo(tree, c, g, copied) \in SUBSET InCopy
    /\ TwinTodos(d, fs, LineTodo(LiveOf(d), r, f, line), LineTodo(tree, c, g, copied))

\* A line that is no source is alike in the two.
LEMMA AlikeOther ==
    ASSUME NEW d, NEW fs, NEW tree, NEW r, NEW c, NEW f, NEW g,
           NEW line \in UserLines, line.is # "source", NEW dir,
           NEW copied, copied = Sanitized(line, dir, <<>>)
    PROVE  Alike(d, fs, tree, r, c, f, g, line, copied)
<1>1. /\ copied.is # "source"
      /\ copied.is = line.is \/ (copied.is \in LeavesNoTrace /\ line.is \in LeavesNoTrace)
  BY SanitizedTold
<1>2. LineSees(c, copied) = copied.is /\ LineSees(r, line) = line.is
  BY <1>1 DEF LineSees
<1>3. \A told, v, j : Told(told, v, j, LineSees(c, copied)) = Told(told, v, j, LineSees(r, line))
  BY <1>1, <1>2 DEF Told
<1>4. LineTodo(LiveOf(d), r, f, line) = {} /\ LineTodo(tree, c, g, copied) = {}
  BY <1>1, <1>2 DEF LineTodo
<1>5. TwinTodos(d, fs, {}, {})
  BY DEF TwinTodos, Uniform, CalledAll
<1> QED BY <1>3, <1>4, <1>5 DEF Alike

\* So is a source.
LEMMA AlikeSource ==
    ASSUME NEW d, NEW z, NEW fs, NEW tree, CopyStands(d, z, fs, tree),
           NEW r, NEW c, DOMAIN c.vars \subseteq VarNames, Known(r.vars),
           NEW f \in LiveFiles, NEW g, NEW line \in UserLines, line.is = "source",
           ~Meaningless(line.value, r.vars),
           NEW to \in Targets, Resolve(line.value, f.path.dir, r.vars) = {to},
           NEW copied, copied = Sourcing(to),
           \A w \in Matches(d, to) : InFiles(d, fs, w)
    PROVE  Alike(d, fs, tree, r, c, f, g, line, copied)
<1>1. SourceValue(line.value) /\ f.path \in LiveReached /\ f.path.dir \in Dirs
  <2>1. f.path \in LiveReached /\ f.path.dir \in Dirs
    BY DEF LiveFiles, LiveReached, Reached
  <2>2. line \in [is : {"source"}, value : [at : {"live"}, base : Bases, rest : Names \union {"*"}]]
    BY DEF UserLines, LinesOf
  <2> QED BY <2>1, <2>2 DEF SourceValue, Values
<1>2. LedTo(d, line.value, f.path, r.vars, to)
  BY <1>1, LiveLeads
<1>3. to.dir \notin Range(Links)
  BY <1>1, Resolved DEF SourceValue, Known
<1>4. /\ copied.is = "source" /\ ~Meaningless(copied.value, c.vars)
      /\ Leads(tree, copied.value, g.path, c.vars) = CopyLed(tree, to)
  BY SourcingLeads
<1>5. LineSees(c, copied) = "source" /\ LineSees(r, line) = "source"
  BY <1>4 DEF LineSees
<1>6. /\ CopyLed(tree, to) \in SUBSET InCopy
      /\ TwinTodos(d, fs, Leads(LiveOf(d), line.value, f.path, r.vars), CopyLed(tree, to))
  BY <1>2, <1>3, LeadsTwin
<1>7. Leads(LiveOf(d), line.value, f.path, r.vars) \in SUBSET LiveReached
  BY <1>2 DEF LedTo
<1> QED BY <1>4, <1>5, <1>6, <1>7 DEF Alike, LineTodo

\* So is whatever line the two are at.
LEMMA TwinAlike ==
    ASSUME NEW d, NEW z, NEW fs, NEW tree, CopyStands(d, z, fs, tree),
           NEW r, NEW c, Twin(d, fs, r, c), ~Finished(r),
           Innermost(r).line < Len(Innermost(r).text),
           LineEvent(LiveOf(d), r) \in z.seen,
           NEW f, f = Innermost(r), NEW g, g = Innermost(c)
    PROVE  Alike(d, fs, tree, r, c, f, g, f.text[f.line + 1], g.text[g.line + 1])
<1> DEFINE j == f.line + 1
           line == f.text[j]
           copied == g.text[g.line + 1]
           v == Called(f.path)
           e == LineEvent(LiveOf(d), r)
<1>1. /\ v \in DOMAIN fs /\ j \in 1..Len(fs[v]) /\ line \in UserLines
      /\ copied = fs[v][j] /\ ShownLine(z.seen, CopyOf(v, fs[v]), j, line)
  BY TwinLine
<1>2. /\ e.file = v /\ e.line = j /\ e.what = LineSees(r, line)
      /\ LineSees(r, line) = "source" => e.to = Resolve(line.value, f.path.dir, r.vars)
  BY LineEventIs
<1>3. UnobjectedEvent(e)
  BY DEF CopyStands, Copied, Unobjected
<1>4. LineSees(r, line) # "meaningless"
  BY <1>2, <1>3 DEF UnobjectedEvent
<1>5. f \in LiveFiles
  BY TwinInnermost
<1> HIDE DEF j, line, copied, v, e
<1>6. CASE line.is # "source"
  <2>1. copied = Sanitized(line, v.dir, <<>>)
    BY <1>1, <1>6, CopyIs DEF ShownLine
  <2>2. Alike(d, fs, tree, r, c, f, g, line, copied)
    BY <1>1, <1>6, <2>1, AlikeOther
  <2> QED BY <2>2 DEF line, copied, j
<1>7. CASE line.is = "source"
  <2>1. ~Meaningless(line.value, r.vars) /\ LineSees(r, line) = "source"
    BY <1>4, <1>7 DEF LineSees
  <2>2. e \in z.seen
    BY DEF e
  <2>3. PICK to \in Targets : e.to = {to} /\ fs[v][j] = Sourcing(to)
    BY <1>2, <2>1, <2>2, CopySource
  <2>4. Resolve(line.value, f.path.dir, r.vars) = {to} /\ copied = Sourcing(to)
    BY <1>1, <1>2, <2>1, <2>3
  <2>5. \A w \in Matches(d, to) : InFiles(d, fs, w)
    BY <1>1, <2>3, CopyClosed
  <2>6. DOMAIN c.vars \subseteq VarNames /\ Known(r.vars)
    BY DEF Twin, CopyReader, LiveReader
  <2>7. Alike(d, fs, tree, r, c, f, g, line, copied)
    BY <1>1, <1>5, <1>7, <2>1, <2>4, <2>5, <2>6, AlikeSource
  <2> QED BY <2>7 DEF line, copied, j
<1> QED BY <1>6, <1>7

\* The two read the next line.
LEMMA TwinRead ==
    ASSUME NEW d, NEW z, NEW fs, NEW tree, CopyStands(d, z, fs, tree),
           NEW r, NEW c, Twin(d, fs, r, c), ~Finished(r), Innermost(r).todo = {},
           Innermost(r).line < Len(Innermost(r).text),
           LineEvent(LiveOf(d), r) \in z.seen
    PROVE  Twin(d, fs, ReadNext(LiveOf(d), r), Step(tree, c))
<1> DEFINE f == Innermost(r)
           g == Innermost(c)
           line == f.text[f.line + 1]
           copied == g.text[g.line + 1]
           f2 == Further(f, LineTodo(LiveOf(d), r, f, line))
           g2 == Further(g, LineTodo(tree, c, g, copied))
           r2 == ReadNext(LiveOf(d), r)
           c2 == ReadNext(tree, c)
<1>1. /\ ~Finished(c) /\ f \in LiveFiles /\ g \in CopyFiles /\ TwinFile(d, fs, f, g)
  BY TwinInnermost
<1>2. /\ LiveReader(r) /\ CopyReader(c) /\ IsReader(r) /\ IsReader(c) /\ c.told = r.told
  BY DEF Twin, LiveReader, CopyReader
<1>3. g.todo = {}
  BY <1>1 DEF TwinFile, TwinTodos, CalledAll
<1>4. /\ g.line + 1 = f.line + 1 /\ Called(g.path) = Called(f.path) /\ g.line < Len(g.text)
  BY TwinLine
<1>5. Step(tree, c) = c2
  BY <1>1, <1>3, <1>4 DEF Step
<1>6. CopyReader(c2) /\ LiveReader(r2)
  <2>1. CopyReader(c2)
    BY <1>2, <1>5, CopyStep DEF CopyStands
  <2>2. LiveReader(r2)
    BY <1>2, LiveLine
  <2> QED BY <2>1, <2>2
<1>7. Alike(d, fs, tree, r, c, f, g, line, copied)
  BY TwinAlike
<1>8. /\ r2.open = WithInnermost(r, f2)
      /\ r2.told = Told(r.told, Called(f.path), f.line + 1, LineSees(r, line))
  BY <1>2, ReadSeen
<1>9. /\ c2.open = WithInnermost(c, g2)
      /\ c2.told = Told(c.told, Called(g.path), g.line + 1, LineSees(c, copied))
  BY <1>2, ReadSeen
<1> HIDE DEF line, copied
<1>10. c2.told = r2.told
  BY <1>2, <1>4, <1>7, <1>8, <1>9 DEF Alike
<1>11. /\ f2 \in LiveFiles /\ f2.path = f.path /\ f2.text = f.text /\ f2.line = f.line + 1
       /\ f2.todo = LineTodo(LiveOf(d), r, f, line)
  BY <1>1, <1>7, OneLineFurther DEF Alike
<1>12. /\ g2 \in CopyFiles /\ g2.path = g.path /\ g2.text = g.text /\ g2.line = g.line + 1
       /\ g2.todo = LineTodo(tree, c, g, copied)
  BY <1>1, <1>7, OneLineFurtherInCopy DEF Alike
<1> HIDE DEF f2, g2, r2, c2
<1>13. TwinFile(d, fs, f2, g2)
  BY <1>4, <1>7, <1>11, <1>12 DEF TwinFile, Alike
<1>14. SameText(f, f2) /\ SameText(g, g2)
  BY <1>11, <1>12 DEF SameText
<1>15. Twin(d, fs, r2, c2)
  BY <1>6, <1>8, <1>9, <1>10, <1>11, <1>12, <1>13, <1>14, TwinTop
<1> QED BY <1>5, <1>15 DEF r2

\* A step of the config's reader is one of the copy's, or none.
LEMMA TwinStep ==
    ASSUME NEW d, NEW z, NEW fs, NEW tree, CopyStands(d, z, fs, tree),
           NEW r, NEW c, Twin(d, fs, r, c), Step(LiveOf(d), r).seen \subseteq z.seen
    PROVE  \/ Twin(d, fs, Step(LiveOf(d), r), c)
           \/ Twin(d, fs, Step(LiveOf(d), r), Step(tree, c))
<1>1. IsReader(r)
  BY DEF Twin, LiveReader
<1>2. CASE Finished(r)
  BY <1>2 DEF Step
<1>3. CASE ~Finished(r) /\ Innermost(r).todo # {}
  <2>1. Step(LiveOf(d), r) = Visit(LiveOf(d), r)
    BY <1>3 DEF Step
  <2>2. VisitEvent(LiveOf(d), r) \in Visit(LiveOf(d), r).seen
    BY <1>1, VisitIs
  <2>3. VisitEvent(LiveOf(d), r) \in z.seen
    BY <2>1, <2>2
  <2> QED BY <1>3, <2>1, <2>3, TwinVisit
<1>4. CASE ~Finished(r) /\ Innermost(r).todo = {} /\ Innermost(r).line < Len(Innermost(r).text)
  <2>1. Step(LiveOf(d), r) = ReadNext(LiveOf(d), r)
    BY <1>4 DEF Step
  <2>2. LineEvent(LiveOf(d), r) \in ReadNext(LiveOf(d), r).seen
    BY <1>1, ReadIs
  <2>3. LineEvent(LiveOf(d), r) \in z.seen
    BY <2>1, <2>2
  <2> QED BY <1>4, <2>1, <2>3, TwinRead
<1>5. CASE ~Finished(r) /\ Innermost(r).todo = {} /\ ~(Innermost(r).line < Len(Innermost(r).text))
  <2>1. Step(LiveOf(d), r) = Close(r)
    BY <1>5 DEF Step
  <2> QED BY <1>5, <2>1, TwinClose
<1> QED BY <1>2, <1>3, <1>4, <1>5

\* The fields of a reader that begins.
LEMMA BeginIs ==
    ASSUME NEW p
    PROVE  /\ IsReader(Begin(p)) /\ Begin(p).open = <<Opened(p, <<>>, {p})>>
           /\ Begin(p).vars = <<>> /\ Begin(p).seen = {} /\ Begin(p).told = <<>>
BY DEF Begin, IsReader

\* The two begin together.
LEMMA TwinBegins ==
    ASSUME NEW d, NEW z, NEW fs, NEW tree, CopyStands(d, z, fs, tree)
    PROVE  Twin(d, fs, Begin(EntryAt("live")), Begin(EntryAt("copy")))
<1> DEFINE p == EntryAt("live")
           q == EntryAt("copy")
           f == Opened(p, <<>>, {p})
           g == Opened(q, <<>>, {q})
           r == Begin(p)
           c == Begin(q)
<1>1. /\ p.at = "live" /\ q.at = "copy" /\ p.dir = Entry /\ q.dir = Entry
      /\ p.name = Conf /\ q.name = Conf /\ p.globbed = FALSE /\ q.globbed = FALSE
  BY DEF EntryAt
<1>2. Entry \notin Range(Links) /\ Entry \in Dirs /\ Conf \in Names
  BY EntryAssumption, DirsAssumption
<1>3. Called(p) = EntryFile /\ Called(q) = EntryFile
  BY <1>1, <1>2 DEF Called, Virtualize, EntryFile
<1>4. p \in LiveReached /\ q \in InCopy
  BY <1>1, <1>2 DEF EntryAt, LiveReached, InCopy, Reached, Ats
<1>5. InFiles(d, fs, EntryFile)
  BY CopyClosed
<1> HIDE DEF p, q
<1>6. TwinTodos(d, fs, {p}, {q})
  BY <1>1, <1>2, <1>3, <1>5 DEF TwinTodos, Uniform, CalledAll
<1>7. /\ f.path = p /\ f.text = <<>> /\ f.line = 0 /\ f.todo = {p} /\ f \in LiveFiles
      /\ g.path = q /\ g.text = <<>> /\ g.line = 0 /\ g.todo = {q} /\ g \in CopyFiles
  BY <1>4 DEF Opened, LiveFiles, CopyFiles
<1> HIDE DEF f, g
<1>8. TwinFile(d, fs, f, g)
  BY <1>3, <1>6, <1>7 DEF TwinFile
<1>9. /\ IsReader(r) /\ r.open = <<f>> /\ r.vars = <<>> /\ r.told = <<>>
      /\ IsReader(c) /\ c.open = <<g>> /\ c.vars = <<>> /\ c.seen = {} /\ c.told = <<>>
  BY BeginIs DEF f, g
<1> HIDE DEF r, c
<1>10. LiveReader(r) /\ CopyReader(c)
  <2>1. DOMAIN <<>> = {}
    OBVIOUS
  <2> QED BY <1>7, <1>9, <2>1 DEF LiveReader, CopyReader, Known
<1>11. /\ Len(r.open) = 1 /\ Len(c.open) = 1 /\ r.open[1] = f /\ c.open[1] = g
  BY <1>9
<1>12. 2..1 = {} /\ \A i \in 1..1 : i = 1
  OBVIOUS
<1>13. Twin(d, fs, r, c)
  BY <1>7, <1>8, <1>9, <1>10, <1>11, <1>12 DEF Twin
<1> QED BY <1>13 DEF r, c, p, q

\* When the config's reader is done, so is the copy's, and they have said the same.
LEMMA TwinRuns ==
    ASSUME NEW d, NEW z, NEW fs, NEW tree, CopyStands(d, z, fs, tree),
           z = ReadingOf(LiveOf(d), EntryAt("live")), Finished(z)
    PROVE  /\ Finished(ReadingOf(tree, EntryAt("copy")))
           /\ ReadingOf(tree, EntryAt("copy")).told = z.told
<1> DEFINE C == Run(tree, EntryAt("copy"))
           S == {n \in 0..MaxReads : \E m \in 0..n : Twin(d, fs, LiveRun(d)[n], C[m])}
<1>1. MaxReads \in Nat /\ 0 \in 0..MaxReads /\ MaxReads \in 0..MaxReads
  BY ReadsAssumption
<1>2. LiveRun(d) = Run(LiveOf(d), EntryAt("live")) /\ z = LiveRun(d)[MaxReads]
  BY DEF LiveRun, ReadingOf
<1>3. 0 \in S
  <2>1. LiveRun(d)[0] = Begin(EntryAt("live")) /\ C[0] = Begin(EntryAt("copy"))
    BY <1>2, RunIsRun
  <2>2. Twin(d, fs, LiveRun(d)[0], C[0])
    BY <2>1, TwinBegins
  <2> QED BY <1>1, <2>2
<1>4. ASSUME NEW n \in Nat, 0 <= n, n < MaxReads, n \in S PROVE n + 1 \in S
  <2>1. PICK m \in 0..n : Twin(d, fs, LiveRun(d)[n], C[m])
    BY <1>4
  <2>2. n \in 0..MaxReads /\ n + 1 \in 0..MaxReads /\ m \in 0..MaxReads /\ m < MaxReads
        /\ m \in 0..(n + 1) /\ m + 1 \in 0..(n + 1) /\ MaxReads \in (n + 1)..MaxReads
    BY <1>1, <1>4
  <2>3. LiveRun(d)[n + 1] = Step(LiveOf(d), LiveRun(d)[n])
    BY <1>2, <1>4, <2>2, RunIsRun
  <2>4. C[m + 1] = Step(tree, C[m])
    BY <2>2, RunIsRun
  <2>5. Step(LiveOf(d), LiveRun(d)[n]).seen \subseteq z.seen
    BY <1>2, <2>2, <2>3, RunGrows
  <2> HIDE DEF C
  <2>6. \/ Twin(d, fs, LiveRun(d)[n + 1], C[m]) \/ Twin(d, fs, LiveRun(d)[n + 1], C[m + 1])
    BY <2>1, <2>3, <2>4, <2>5, TwinStep
  <2> QED BY <2>2, <2>6
<1> HIDE DEF S
<1>5. MaxReads \in S
  <2>1. 0 \in Nat
    OBVIOUS
  <2>2. \A n \in 0..MaxReads : n \in S
    BY <1>1, <1>3, <1>4, <2>1, UpFrom
  <2> QED BY <1>1, <2>2
<1>6. PICK m \in 0..MaxReads : Twin(d, fs, z, C[m])
  BY <1>2, <1>5 DEF S
<1>7. C[m].told = z.told /\ Finished(C[m])
  <2>1. C[m].told = z.told /\ Len(C[m].open) = Len(z.open) /\ C[m].open \in Seq(CopyFiles)
    BY <1>6 DEF Twin, CopyReader
  <2>2. Len(C[m].open) = 0
    BY <2>1 DEF Finished
  <2>3. C[m].open = <<>>
    BY <2>1, <2>2
  <2> QED BY <2>1, <2>3 DEF Finished
<1>8. MaxReads \in m..MaxReads
  BY <1>1, <1>6
<1>9. C[MaxReads] = C[m]
  BY <1>7, <1>8, RunRests
<1> QED BY <1>7, <1>9 DEF ReadingOf

\* A copy that was made of an unedited config reads as the config.
LEMMA VerifiedIsFaithful ==
    ASSUME Kept, Walked
    PROVE  FaithfulCopy
<1> SUFFICES ASSUME pc = "verify", edits = 0, Finished(LiveReading)
             PROVE  /\ Finished(CopyReading) /\ CopyReading.told = LiveReading.told
                    /\ After(disk, [dir |-> Entry, name |-> Lua]) = Nothing
  BY DEF FaithfulCopy
<1>1. /\ Copied(disk, LiveReading, <<>>, files) /\ DOMAIN scratch = DOMAIN files
      /\ Entry \in DOMAIN Links /\ disk[[dir |-> Links[Entry], name |-> Lua]] = Nothing
  BY DEF Walked, Settled
<1>2. LiveReading = ReadingOf(LiveOf(disk), EntryAt("live")) /\ CopyReading = ReadingOf(CopyTree, EntryAt("copy"))
  BY DEF LiveReading, LiveTree, CopyReading
<1>3. Disk(disk) /\ DOMAIN files \subseteq Paths
  BY DEF Kept, TypeOK, Disk
<1>4. \A v \in Paths : CopyTree["copy"][v] = IF v \in DOMAIN files THEN File(files[v]) ELSE Nothing
  <2>1. \A v \in DOMAIN scratch : scratch[v] = files[v]
    BY DEF Kept, Written
  <2>2. \A v \in Paths : CopyTree["copy"][v] = IF v \in DOMAIN scratch THEN File(scratch[v]) ELSE Nothing
    BY DEF CopyTree, LiveTree, LiveOf, Ats
  <2> QED BY <1>1, <2>1, <2>2
<1>5. CopyStands(disk, LiveReading, files, CopyTree)
  BY <1>1, <1>3, <1>4, CopyIsClean DEF CopyStands
<1>6. Finished(CopyReading) /\ CopyReading.told = LiveReading.told
  BY <1>2, <1>5, TwinRuns
<1>7. After(disk, [dir |-> Entry, name |-> Lua]) = Nothing
  BY <1>1, DirsAssumption DEF After
<1> QED BY <1>6, <1>7

\* FaithfulCopy: if nothing was edited meanwhile, the copy that is judged reads
\* as the config will after the switch (hyprverify.rs, sandbox.rs).
THEOREM FaithfulAlways ==
    ASSUME DOMAIN Links \subseteq DOMAIN Leaving PROVE Spec => []FaithfulCopy
<1>1. Kept /\ Walked => FaithfulCopy
  BY VerifiedIsFaithful
<1>2. Spec => []Kept
  BY KeptAlways
<1>3. Spec => []Walked
  BY WalkedAlways
<1> QED BY <1>1, <1>2, <1>3, PTL

=============================================================================
