------------------------------ MODULE Gc_proofs ------------------------------
(***************************************************************************)
(* Proofs about gc, for any entries, records, files, deaths and changes    *)
(* by others: what goes for good was shown, is held elsewhere, and nothing *)
(* leads to it.                                                            *)
(***************************************************************************)
EXTENDS Gc, TLAPS

-----------------------------------------------------------------------------
(***************************************************************************)
(* Trees                                                                   *)
(***************************************************************************)

\* What the members of Tree are.
LEMMA TreeHas ==
    ASSUME NEW t \in Tree
    PROVE  /\ DOMAIN t \subseteq Name
           /\ \A p \in DOMAIN t : t[p] \in Object(p)
           /\ DOMAIN t \intersect File # {} => "dir" \in DOMAIN t
           /\ t # None
           /\ \A p : There(t, p) <=> p \in DOMAIN t
<1>1. PICK D \in SUBSET Name :
        t \in {s \in [D -> UNION {Object(p) : p \in Name}] :
                 /\ \A p \in D : s[p] \in Object(p)
                 /\ D \intersect File # {} => "dir" \in D}
  BY Zenon DEF Tree
<1>2. DOMAIN t = D /\ \A p \in D : t[p] \in Object(p)
  BY <1>1
<1>3. t # None
  BY <1>2, FileAssumption DEF None, Name
<1> QED BY <1>1, <1>2, <1>3 DEF There

\* A function over names is a tree when it has objects at them and no file
\* without the directory.
LEMMA TreeIs ==
    ASSUME NEW D \in SUBSET Name, NEW t,
           t = [p \in D |-> t[p]],
           \A p \in D : t[p] \in Object(p),
           D \intersect File # {} => "dir" \in D
    PROVE  t \in Tree
<1> DEFINE Any == UNION {Object(p) : p \in Name}
<1>1. \A p \in D : t[p] \in Any
  OBVIOUS
<1>2. t \in [D -> Any]
  BY <1>1
<1>3. t \in {s \in [D -> Any] : /\ \A p \in D : s[p] \in Object(p)
                                /\ D \intersect File # {} => "dir" \in D}
  BY <1>2
<1> QED BY <1>3, Zenon DEF Tree

\* The listing nobody has made yet is the empty tree.
LEMMA NothingIsTree == <<>> \in Tree
<1>1. <<>> = [p \in {} |-> <<>>[p]]
  OBVIOUS
<1> QED BY <1>1, TreeIs

\* Nothing is at no name of an entry that is not there.
LEMMA NoneHasNothing == \A p : ~There(None, p)
  BY DEF There

LEMMA WithTree ==
    ASSUME NEW t \in Tree, NEW p \in Name, NEW o \in Object(p),
           p \in File => "dir" \in DOMAIN t
    PROVE  /\ With(t, p, o) \in Tree
           /\ DOMAIN With(t, p, o) = DOMAIN t \union {p}
           /\ With(t, p, o)[p] = o
           /\ \A q \in DOMAIN t : q # p => With(t, p, o)[q] = t[q]
<1> DEFINE W == With(t, p, o)
<1>1. DOMAIN W = DOMAIN t \union {p} /\ W = [q \in DOMAIN t \union {p} |-> W[q]]
  BY DEF With
<1>2. W[p] = o /\ \A q \in DOMAIN t : q # p => W[q] = t[q]
  BY DEF With
<1>3. \A q \in DOMAIN W : W[q] \in Object(q)
  BY <1>1, <1>2, TreeHas
<1>4. "dir" \notin File
  BY FileAssumption
<1>5. DOMAIN W \intersect File # {} => "dir" \in DOMAIN W
  BY <1>1, TreeHas
<1> HIDE DEF W
<1>6. W \in Tree
  BY <1>1, <1>3, <1>5, TreeHas, TreeIs
<1> QED BY <1>1, <1>2, <1>6 DEF W

LEMMA WithoutTree ==
    ASSUME NEW t \in Tree, NEW S, "dir" \in S => File \subseteq S
    PROVE  /\ Without(t, S) \in Tree
           /\ DOMAIN Without(t, S) = DOMAIN t \ S
           /\ \A q \in DOMAIN t \ S : Without(t, S)[q] = t[q]
<1> DEFINE W == Without(t, S)
<1>1. DOMAIN W = DOMAIN t \ S /\ W = [q \in DOMAIN t \ S |-> W[q]]
  BY DEF Without, Restrict
<1>2. \A q \in DOMAIN t \ S : W[q] = t[q]
  BY DEF Without, Restrict
<1> HIDE DEF W
<1>3. DOMAIN W \subseteq Name /\ \A q \in DOMAIN W : W[q] \in Object(q)
  BY <1>1, <1>2, TreeHas
<1>4. DOMAIN W \intersect File # {} => "dir" \in DOMAIN W
  BY <1>1, TreeHas
<1>5. W \in Tree
  BY <1>1, <1>3, <1>4, TreeIs
<1> QED BY <1>1, <1>2, <1>5 DEF W

-----------------------------------------------------------------------------
(***************************************************************************)
(* The invariant                                                           *)
(***************************************************************************)

Busy == phase \notin {"idle", "asking"}

\* What gc has in hand is one entry that is still there, and each entry is
\* asked about once.
Hand ==
    /\ IF Busy THEN item \in Item
               ELSE item = NoItem /\ disturbed = {}
    /\ phase # "erasing" => looked = {}
    /\ \A i \in asked : Holds(i.area, i.entry) # None
    /\ \A i, j \in asked : i.entry = j.entry => i = j
    /\ Busy => \A i \in asked : i.entry # item.entry
    /\ Busy /\ phase # "erasing" => Holds(item.area, item.entry) # None
    /\ phase = "erasing" => tomb[item.entry] # None

\* Only an adopt has displaced a directory.
Directories ==
    \A e \in Entry : There(attic[e], "dir") \/ There(tomb[e], "dir") => Kind[e] = "adopt"

\* What is at a place of e is held elsewhere, or others were there since.
Safe(e, t) ==
    /\ \A f \in File : There(t, f) => copy[e][f] = t[f].is \/ <<e, f>> \in disturbed
    /\ There(t, "dir") => dest[e] = "ours" \/ <<e, "dest">> \in disturbed

\* Nothing that was known when the records were read leads into e.
Pointed(e) == dest[e] = "pointer" => refs.pointed \/ <<e, "dest">> \in disturbed

\* A name of the directory that the walk did not see was made since.
Walked(e) ==
    /\ There(attic[e], "dir") => "dir" \in DOMAIN now
    /\ \A f \in File : There(attic[e], f) => f \in DOMAIN now \/ <<e, f>> \in disturbed

\* What the second look has shown of an entry of the attic.
Judged ==
    item.area = "attic" =>
        /\ phase \in {"loaded", "walked", "accepted"} => Pointed(item.entry)
        /\ phase = "walked" => Walked(item.entry)
        /\ phase = "accepted" => ~refs.pointed /\ Safe(item.entry, attic[item.entry])
        /\ phase = "erasing" => Safe(item.entry, tomb[item.entry])

\* What was looked at and is still there is what was listed.
Shown ==
    phase = "erasing" =>
        /\ looked \subseteq DOMAIN item.listing
        /\ \A p \in looked \ removed :
              There(Stone, p) => p \in raced \/ Stone[p].ino = item.listing[p].ino

GcInv == TypeOK /\ Hand /\ Directories /\ Judged /\ Shown

\* At first there is nothing in hand and nothing in state/gc.
LEMMA InitTrees ==
    ASSUME NEW e \in Entry, NEW t \in Displaced(e)
    PROVE  t \in Tree \union {None} /\ (There(t, "dir") => Kind[e] = "adopt")
<1>1. Kind[e] \in Kinds
  BY EntryAssumption
<1>2. CASE Kind[e] = "rescue"
  <2>1. t = None
    BY <1>2 DEF Displaced
  <2> QED BY <2>1, NoneHasNothing
<1>3. "dir" \notin File /\ "link" \notin File
  BY FileAssumption
<1>4. ASSUME NEW c \in Contents("link"), t = [p \in {"link"} |-> [ino |-> 1, is |-> c]]
      PROVE  t \in Tree /\ ~There(t, "dir")
  <2>1. t = [p \in {"link"} |-> t[p]] /\ \A p \in {"link"} : t[p] \in Object(p)
    BY <1>4 DEF Object, Inode
  <2>2. t \in Tree
    BY <2>1, <1>3, TreeIs DEF Name
  <2> QED BY <2>2, <1>4 DEF There
<1>5. ASSUME NEW F \in SUBSET File,
             t = [p \in {"dir"} \union F |-> [ino |-> 1, is |-> "a"]]
      PROVE  t \in Tree
  <2>1. \A p \in {"dir"} \union F : t[p] \in Object(p)
    BY <1>5, <1>3 DEF Object, Inode, Contents
  <2>2. t = [p \in {"dir"} \union F |-> t[p]]
    BY <1>5
  <2> QED BY <2>1, <2>2, TreeIs DEF Name
<1>6. CASE Kind[e] = "switch"
  BY <1>4, <1>6 DEF Displaced
<1>7. CASE Kind[e] = "adopt"
  BY <1>4, <1>5, <1>7 DEF Displaced
<1> QED BY <1>1, <1>2, <1>6, <1>7 DEF Kinds

LEMMA InitGc == Init => GcInv
<1> SUFFICES ASSUME Init PROVE GcInv
  OBVIOUS
<1>1. attic \in [Entry -> Tree \union {None}]
  BY InitTrees DEF Init
<1>2. Directories
  BY InitTrees, NoneHasNothing DEF Init, Directories
<1>3. TypeOK
  <2>1. copy \in [Entry -> [File -> {"a", "b", "absent"}]]
    BY DEF Init
  <2>2. now \in Tree
    BY NothingIsTree DEF Init
  <2>3. dest \in [Entry -> {"ours", "empty", "pointer", "tombpointer", "foreign", "directory"}]
        /\ tomb \in [Entry -> Tree \union {None}]
    BY DEF Init
  <2>4. looked = {} /\ removed = {} /\ raced = {} /\ disturbed = {} /\ asked = {}
        /\ changes = 0 /\ stops = 0 /\ phase = "idle" /\ inflight = FALSE
        /\ item = NoItem /\ refs \in [pointed : BOOLEAN, pending : BOOLEAN]
    BY DEF Init, NoRefs
  <2>5. item \in Item \union {NoItem} /\ asked \subseteq Item
        /\ disturbed \subseteq Entry \X (Name \union {"dest"})
    BY <2>4
  <2>6. looked \subseteq Name /\ removed \subseteq looked /\ raced \subseteq looked
    BY <2>4
  <2>7. changes \in 0..MaxChanges /\ stops \in 0..MaxStops
    <3>1. 0 \in 0..MaxChanges /\ 0 \in 0..MaxStops
      BY BoundsAssumption
    <3> QED BY <2>4, <3>1
  <2>8. inflight \in BOOLEAN
    BY <2>4, Zenon
  <2>9. phase \in {"idle", "asking", "typed", "loaded", "walked", "accepted", "erasing"}
    BY <2>4
  <2> QED BY <1>1, <2>1, <2>2, <2>3, <2>4, <2>5, <2>6, <2>7, <2>8, <2>9, Zenon DEF TypeOK
<1> QED BY <1>2, <1>3 DEF Init, GcInv, Hand, Busy, Judged, Shown, NoItem

-----------------------------------------------------------------------------
(***************************************************************************)
(* The survey and the question                                             *)
(***************************************************************************)

LEMMA HoldsTyped ==
    ASSUME TypeOK, NEW a, NEW e \in Entry
    PROVE  Holds(a, e) \in Tree \union {None}
  BY DEF TypeOK, Holds

LEMMA SurveyKeeps == GcInv /\ Survey => GcInv'
<1> SUFFICES ASSUME GcInv, Survey PROVE GcInv'
  OBVIOUS
<1>1. ASSUME NEW i \in Candidates
      PROVE  i \in Item /\ Holds(i.area, i.entry) # None
             /\ (i.area = "attic" => tomb[i.entry] = None)
             /\ (i.area = "gc" => tomb[i.entry] # None)
             /\ i = [area |-> i.area, entry |-> i.entry, listing |-> Holds(i.area, i.entry)]
  <2>1. PICK a \in {"attic", "gc"}, e \in Entry :
          /\ i = [area |-> a, entry |-> e, listing |-> Holds(a, e)]
          /\ i.listing # None
          /\ Fit(i.area, i.entry, i.listing, References(i.area, i.entry))
    BY <1>1 DEF Candidates
  <2>2. Holds(a, e) \in Tree
    BY <2>1, HoldsTyped DEF GcInv
  <2> QED BY <2>1, <2>2 DEF Item, Fit, References, Holds
<1>2. \A i, j \in Candidates : i.entry = j.entry => i = j
  <2> SUFFICES ASSUME NEW i \in Candidates, NEW j \in Candidates, i.entry = j.entry
               PROVE  i = j
    OBVIOUS
  <2>1. i.area \in {"attic", "gc"} /\ j.area \in {"attic", "gc"}
    BY <1>1 DEF Item
  <2>2. i.area = j.area
    BY <2>1, <1>1
  <2> QED BY <1>1, <2>2
<1>3. TypeOK'
  BY <1>1 DEF GcInv, TypeOK, Survey, entries, world, judged, progress
<1>4. Hand'
  BY <1>1, <1>2 DEF GcInv, Hand, Busy, Survey, Holds, entries, world, judged, progress
<1>5. Directories'
  BY DEF GcInv, Directories, Survey, entries, There
<1>6. item.area = "none"
  BY DEF GcInv, Hand, Busy, Survey, NoItem
<1>7. Judged' /\ Shown'
  BY <1>6 DEF Judged, Shown, Survey, judged
<1> QED BY <1>3, <1>4, <1>5, <1>7 DEF GcInv

LEMMA TypedKeeps == ASSUME NEW i \in asked PROVE GcInv /\ Typed(i) => GcInv'
<1> SUFFICES ASSUME GcInv, Typed(i) PROVE GcInv'
  OBVIOUS
<1> USE DEF Typed, Asking, entries, world, progress
<1>1. i \in Item
  BY DEF GcInv, TypeOK
<1>2. TypeOK'
  BY <1>1 DEF GcInv, TypeOK
<1>3. Hand'
  BY <1>1 DEF GcInv, Hand, Busy, Holds
<1>4. Directories'
  BY DEF GcInv, Directories, There
<1>5. Judged' /\ Shown'
  BY DEF Judged, Shown
<1> QED BY <1>2, <1>3, <1>4, <1>5 DEF GcInv

LEMMA NotTypedKeeps == ASSUME NEW i \in asked PROVE GcInv /\ NotTyped(i) => GcInv'
<1> SUFFICES ASSUME GcInv, NotTyped(i) PROVE GcInv'
  OBVIOUS
<1> USE DEF NotTyped, Asking, entries, world, judged, progress
<1>1. TypeOK'
  BY DEF GcInv, TypeOK
<1>2. Hand'
  BY DEF GcInv, Hand, Busy, Holds
<1>3. Directories'
  BY DEF GcInv, Directories, There
<1>4. Judged' /\ Shown'
  BY DEF Judged, Shown
<1> QED BY <1>1, <1>2, <1>3, <1>4 DEF GcInv

LEMMA LeavesKeeps == GcInv /\ Leaves => GcInv'
<1> SUFFICES ASSUME GcInv, Leaves PROVE GcInv'
  OBVIOUS
<1> USE DEF Leaves, entries, world, judged, progress
<1>1. TypeOK'
  BY DEF GcInv, TypeOK
<1>2. Hand'
  BY DEF GcInv, Hand, Busy, Holds
<1>3. Directories'
  BY DEF GcInv, Directories, There
<1>4. Judged' /\ Shown'
  BY DEF Judged, Shown
<1> QED BY <1>1, <1>2, <1>3, <1>4 DEF GcInv

-----------------------------------------------------------------------------
(***************************************************************************)
(* The second look                                                         *)
(***************************************************************************)

LEMMA InItem ==
    ASSUME GcInv, Busy
    PROVE  item.area \in {"attic", "gc"} /\ item.entry \in Entry /\ item.listing \in Tree
  BY DEF GcInv, Hand, Item

LEMMA LoadRefsKeeps == GcInv /\ LoadRefs => GcInv'
<1> SUFFICES ASSUME GcInv, LoadRefs PROVE GcInv'
  OBVIOUS
<1> USE DEF LoadRefs, entries, world, progress
<1>1. TypeOK'
  BY InItem DEF GcInv, TypeOK, Busy, References
<1>2. Hand'
  BY DEF GcInv, Hand, Busy, Holds
<1>3. Directories'
  BY DEF GcInv, Directories, There
<1>4. Judged'
  BY DEF Judged, Pointed, References, Pointer
<1>5. Shown'
  BY DEF Shown
<1> QED BY <1>1, <1>2, <1>3, <1>4, <1>5 DEF GcInv

LEMMA WalkKeeps == GcInv /\ Walk => GcInv'
<1> SUFFICES ASSUME GcInv, Walk PROVE GcInv'
  OBVIOUS
<1> USE DEF Walk, entries, world, progress
<1>1. now' \in Tree
  BY InItem, HoldsTyped DEF GcInv, Hand, Busy
<1>2. TypeOK'
  BY <1>1 DEF GcInv, TypeOK
<1>3. Hand'
  BY DEF GcInv, Hand, Busy, Holds
<1>4. Directories'
  BY DEF GcInv, Directories, There
<1>5. Judged'
  <2>1. item.area = "attic" => now' = attic[item.entry]
    BY DEF Holds
  <2> QED BY <2>1 DEF GcInv, Judged, Pointed, Walked, There
<1>6. Shown'
  BY DEF Shown
<1> QED BY <1>2, <1>3, <1>4, <1>5, <1>6 DEF GcInv

LEMMA AcceptKeeps == GcInv /\ Accept => GcInv'
<1> SUFFICES ASSUME GcInv, Accept PROVE GcInv'
  OBVIOUS
<1> USE DEF Accept, entries, world, judged, progress
<1>1. TypeOK'
  BY DEF GcInv, TypeOK
<1>2. Hand'
  BY DEF GcInv, Hand, Busy, Holds
<1>3. Directories'
  BY DEF GcInv, Directories, There
<1>4. Judged'
  <2> SUFFICES ASSUME item.area = "attic"
               PROVE  /\ Pointed(item.entry)
                      /\ ~refs.pointed
                      /\ Safe(item.entry, attic[item.entry])
    BY DEF Judged, Pointed, Safe, There
  <2> DEFINE e == item.entry
  <2>1. e \in Entry /\ Pointed(e) /\ Walked(e)
    BY InItem DEF GcInv, Judged, Busy
  <2>2. ~refs.pointed /\ ("dir" \in DOMAIN now => Held(e))
    BY DEF Acceptable, Fit, Accounted
  <2>3. ~("dir" \in DOMAIN now) => DOMAIN now \intersect File = {}
    BY TreeHas DEF GcInv, TypeOK
  <2>4. Safe(e, attic[e])
    BY <2>1, <2>2, <2>3 DEF Safe, Walked, Held
  <2> QED BY <2>1, <2>2, <2>4
<1>5. Shown'
  BY DEF Shown
<1> QED BY <1>1, <1>2, <1>3, <1>4, <1>5 DEF GcInv

LEMMA BuryKeeps == GcInv /\ Bury => GcInv'
<1> SUFFICES ASSUME GcInv, Bury PROVE GcInv'
  OBVIOUS
<1> USE DEF Bury, world, judged, progress
<1> DEFINE e == item.entry
<1>1. e \in Entry /\ attic \in [Entry -> Tree \union {None}] /\ tomb \in [Entry -> Tree \union {None}]
  BY InItem DEF GcInv, TypeOK, Busy
<1>2. attic' \in [Entry -> Tree \union {None}] /\ tomb' \in [Entry -> Tree \union {None}]
  BY <1>1
<1>3. attic'[e] = None /\ tomb'[e] = attic[e]
      /\ \A d \in Entry : d # e => attic'[d] = attic[d] /\ tomb'[d] = tomb[d]
  BY <1>1
<1>4. TypeOK'
  BY <1>2 DEF GcInv, TypeOK
<1>5. Hand'
  <2>1. attic[e] # None
    BY DEF GcInv, Hand, Busy, Holds
  <2>2. \A i \in asked : i.entry # e /\ i.entry \in Entry
    BY DEF GcInv, Hand, Busy, TypeOK, Item
  <2> QED BY <1>3, <2>1, <2>2 DEF GcInv, Hand, Busy, Holds
<1>6. Directories'
  <2>1. ~There(attic'[e], "dir")
    BY <1>3, NoneHasNothing
  <2> QED BY <1>3, <2>1 DEF GcInv, Directories, There
<1>7. Judged'
  BY <1>3 DEF GcInv, Judged, Safe, There
<1>8. Shown'
  BY DEF GcInv, Hand, Shown
<1> QED BY <1>4, <1>5, <1>6, <1>7, <1>8 DEF GcInv

LEMMA ResumeKeeps == GcInv /\ Resume => GcInv'
<1> SUFFICES ASSUME GcInv, Resume PROVE GcInv'
  OBVIOUS
<1> USE DEF Resume, entries, world, judged, progress
<1>1. TypeOK'
  BY DEF GcInv, TypeOK
<1>2. Hand'
  BY DEF GcInv, Hand, Busy, Holds
<1>3. Directories'
  BY DEF GcInv, Directories, There
<1>4. Judged'
  BY DEF Judged
<1>5. Shown'
  BY DEF GcInv, Hand, Shown
<1> QED BY <1>1, <1>2, <1>3, <1>4, <1>5 DEF GcInv

-----------------------------------------------------------------------------
(***************************************************************************)
(* The removal                                                             *)
(***************************************************************************)

LEMMA LookKeeps == ASSUME NEW p \in Name PROVE GcInv /\ Look(p) => GcInv'
<1> SUFFICES ASSUME GcInv, Look(p) PROVE GcInv'
  OBVIOUS
<1> USE DEF Look, entries, world, judged
<1>1. TypeOK'
  BY DEF GcInv, TypeOK
<1>2. Hand'
  BY DEF GcInv, Hand, Busy, Holds, At
<1>3. Directories'
  BY DEF GcInv, Directories, There
<1>4. Judged'
  BY DEF GcInv, Judged, Safe, At, There
<1>5. Shown'
  <2>1. phase = "erasing" /\ p \in DOMAIN item.listing
    BY DEF At, Left
  <2>2. Stone[p].ino = item.listing[p].ino /\ Stone' = Stone
    BY DEF Same, Stone
  <2> QED BY <2>1, <2>2 DEF GcInv, Shown, There
<1> QED BY <1>1, <1>2, <1>3, <1>4, <1>5 DEF GcInv

\* What an unlink leaves of the tombstone.
LEMMA UnlinkLeaves ==
    ASSUME NEW p \in Name, GcInv, Unlink(p)
    PROVE  /\ tomb'[item.entry] \in Tree
           /\ DOMAIN tomb'[item.entry] = DOMAIN Stone \ {p}
           /\ \A q \in DOMAIN tomb'[item.entry] : tomb'[item.entry][q] = Stone[q]
           /\ \A e \in Entry : e # item.entry => tomb'[e] = tomb[e]
           /\ tomb' \in [Entry -> Tree \union {None}]
<1> DEFINE S == IF p = "dir" THEN {p} \union File ELSE {p}
           e == item.entry
<1>1. phase = "erasing"
  BY DEF Unlink, At
<1>2. e \in Entry /\ Stone # None /\ tomb \in [Entry -> Tree \union {None}]
  BY <1>1, InItem DEF GcInv, TypeOK, Hand, Busy, Stone
<1>3. Stone \in Tree
  BY <1>2 DEF Stone
<1>4. tomb'[e] = Without(Stone, S) /\ \A d \in Entry : d # e => tomb'[d] = tomb[d]
  BY <1>2 DEF Unlink, Without, Stone
<1>5. Without(Stone, S) \in Tree /\ DOMAIN Without(Stone, S) = DOMAIN Stone \ S
      /\ \A q \in DOMAIN Stone \ S : Without(Stone, S)[q] = Stone[q]
  BY <1>3, WithoutTree
<1>6. DOMAIN Stone \ S = DOMAIN Stone \ {p}
  BY DEF Unlink, Emptied
<1>7. tomb' = [tomb EXCEPT ![e] = Without(Stone, S)]
  BY DEF Unlink, Without, Stone
<1>8. tomb' \in [Entry -> Tree \union {None}]
  BY <1>2, <1>5, <1>7
<1> QED BY <1>4, <1>5, <1>6, <1>8

LEMMA UnlinkKeeps == ASSUME NEW p \in Name PROVE GcInv /\ Unlink(p) => GcInv'
<1> SUFFICES ASSUME GcInv, Unlink(p) PROVE GcInv'
  OBVIOUS
<1> DEFINE e == item.entry
           u == tomb'[e]
<1>1. phase = "erasing" /\ p \in looked /\ p \in DOMAIN item.listing
  BY DEF Unlink, At, Left
<1>2. e \in Entry /\ Stone # None /\ Stone \in Tree
  BY <1>1, InItem DEF GcInv, TypeOK, Hand, Busy, Stone
<1>3. u \in Tree /\ (\A q : There(u, q) => There(Stone, q) /\ q # p /\ u[q] = Stone[q])
  <2>1. u \in Tree /\ DOMAIN u = DOMAIN Stone \ {p} /\ \A q \in DOMAIN u : u[q] = Stone[q]
    BY UnlinkLeaves
  <2> HIDE DEF u
  <2>2. \A q : (There(u, q) <=> q \in DOMAIN u) /\ (There(Stone, q) <=> q \in DOMAIN Stone)
    BY <2>1, <1>2, TreeHas
  <2> QED BY <2>1, <2>2
<1>4. \A d \in Entry : d # e => tomb'[d] = tomb[d]
  BY UnlinkLeaves
<1>5. UNCHANGED <<attic, world, phase, asked, judged, looked, raced, disturbed, changes, stops>>
      /\ removed' = removed \union {p}
  BY DEF Unlink
<1> USE DEF world, judged
<1>6. TypeOK'
  <2>1. tomb' \in [Entry -> Tree \union {None}]
    BY UnlinkLeaves
  <2> QED BY <2>1, <1>1, <1>5 DEF GcInv, TypeOK
<1>7. Hand'
  <2>1. u # None
    BY <1>3, TreeHas
  <2>2. \A i \in asked : i.entry \in Entry /\ i.entry # e
    BY <1>1 DEF GcInv, TypeOK, Hand, Busy, Item
  <2> QED BY <1>1, <1>4, <1>5, <2>1, <2>2 DEF GcInv, Hand, Busy, Holds
<1> HIDE DEF u
<1>8. Directories'
  <2>1. There(u, "dir") => There(tomb[e], "dir")
    BY <1>3 DEF Stone
  <2>2. ASSUME NEW d \in Entry, There(tomb'[d], "dir") PROVE There(tomb[d], "dir")
    BY <2>1, <2>2, <1>4 DEF u
  <2>3. \A d \in Entry : There(attic'[d], "dir") <=> There(attic[d], "dir")
    BY <1>5 DEF There
  <2> QED BY <2>2, <2>3 DEF GcInv, Directories
<1>9. Judged'
  <2>1. item.area = "attic" => Safe(e, Stone)
    BY <1>1 DEF GcInv, Judged, Stone
  <2>2. item.area = "attic" => Safe(e, u)
    BY <2>1, <1>3 DEF Safe
  <2>3. item.area = "attic" => Safe(item.entry, tomb[item.entry])'
    BY <2>2, <1>5 DEF Safe, There, u
  <2> QED BY <2>3, <1>1, <1>5 DEF Judged
<1>10. Shown'
  <2>1. Stone' = u
    BY <1>5 DEF Stone, u
  <2>2. ASSUME NEW q \in (looked \ removed)', There(u, q)
        PROVE  q \in raced \/ u[q].ino = item.listing[q].ino
    BY <2>2, <1>1, <1>3, <1>5 DEF GcInv, Shown
  <2>3. \A q : There(Stone', q) => There(u, q)
    BY <2>1 DEF There
  <2> QED BY <2>1, <2>2, <2>3, <1>1, <1>5 DEF GcInv, Shown
<1> QED BY <1>6, <1>7, <1>8, <1>9, <1>10 DEF GcInv

\* With the memory gone there is nothing left to keep but what is on disk.
LEMMA ForgetsKeeps ==
    ASSUME GcInv, Forgets, phase' \in {"idle", "asking"},
           UNCHANGED <<attic, world, changes>>, asked' \subseteq asked,
           stops' \in 0..MaxStops,
           tomb' \in [Entry -> Tree \union {None}],
           \A i \in asked' : tomb'[i.entry] = tomb[i.entry],
           \A e \in Entry : There(tomb'[e], "dir") => There(tomb[e], "dir")
    PROVE  GcInv'
<1> USE DEF Forgets, world
<1>1. TypeOK'
  <2>1. now' \in Tree
    BY NothingIsTree
  <2>2. refs' \in [pointed : BOOLEAN, pending : BOOLEAN]
    BY DEF NoRefs
  <2> QED BY <2>1, <2>2 DEF GcInv, TypeOK
<1>2. Hand'
  BY DEF GcInv, Hand, Busy, Holds
<1>3. Directories'
  <2>1. \A d \in Entry : There(attic'[d], "dir") <=> There(attic[d], "dir")
    BY DEF There
  <2> QED BY <2>1 DEF GcInv, Directories
<1>4. Judged' /\ Shown'
  BY DEF Judged, Shown, NoItem
<1> QED BY <1>1, <1>2, <1>3, <1>4 DEF GcInv

LEMMA FinishKeeps == GcInv /\ Finish => GcInv'
<1> SUFFICES ASSUME GcInv, Finish PROVE GcInv'
  OBVIOUS
<1> DEFINE e == item.entry
<1>1. phase = "erasing" /\ e \in Entry
  BY InItem DEF Finish, Busy
<1>2. tomb \in [Entry -> Tree \union {None}] /\ tomb' = [tomb EXCEPT ![e] = None]
  BY DEF GcInv, TypeOK, Finish
<1>3. \A i \in asked : i.entry \in Entry /\ i.entry # e
  BY <1>1 DEF GcInv, TypeOK, Hand, Busy, Item
<1>4. \A i \in asked : tomb'[i.entry] = tomb[i.entry]
  BY <1>1, <1>2, <1>3
<1>5. \A d \in Entry : There(tomb'[d], "dir") => There(tomb[d], "dir")
  BY <1>1, <1>2, NoneHasNothing
<1>6. tomb' \in [Entry -> Tree \union {None}]
  BY <1>2
<1>7. Forgets /\ phase' \in {"idle", "asking"} /\ UNCHANGED <<attic, world, changes>>
      /\ asked' \subseteq asked /\ asked' = asked /\ stops' \in 0..MaxStops
  BY DEF GcInv, TypeOK, Finish
<1> QED BY <1>4, <1>5, <1>6, <1>7, ForgetsKeeps

LEMMA RefuseKeeps == GcInv /\ Refuse => GcInv'
<1> SUFFICES ASSUME GcInv, Refuse PROVE GcInv'
  OBVIOUS
<1>1. Forgets /\ phase' \in {"idle", "asking"} /\ UNCHANGED <<attic, world, changes>>
      /\ asked' \subseteq asked /\ stops' \in 0..MaxStops /\ tomb' = tomb
  BY DEF GcInv, TypeOK, Refuse, entries
<1>2. tomb' \in [Entry -> Tree \union {None}] /\ \A i \in asked' : tomb'[i.entry] = tomb[i.entry]
  BY <1>1 DEF GcInv, TypeOK
<1>3. \A d \in Entry : There(tomb'[d], "dir") => There(tomb[d], "dir")
  BY <1>1 DEF There
<1> QED BY <1>1, <1>2, <1>3, ForgetsKeeps

LEMMA StopKeeps == GcInv /\ Stop => GcInv'
<1> SUFFICES ASSUME GcInv, Stop PROVE GcInv'
  OBVIOUS
<1>1. Forgets /\ phase' \in {"idle", "asking"} /\ UNCHANGED <<attic, world, changes>>
      /\ asked' \subseteq asked /\ tomb' = tomb
  BY DEF Stop, entries
<1>2. stops' \in 0..MaxStops
  BY BoundsAssumption DEF GcInv, TypeOK, Stop
<1>3. tomb' \in [Entry -> Tree \union {None}] /\ \A i \in asked' : tomb'[i.entry] = tomb[i.entry]
  BY <1>1 DEF GcInv, TypeOK
<1>4. \A d \in Entry : There(tomb'[d], "dir") => There(tomb[d], "dir")
  BY <1>1 DEF There
<1> QED BY <1>1, <1>2, <1>3, <1>4, ForgetsKeeps

-----------------------------------------------------------------------------
(***************************************************************************)
(* Everybody else                                                          *)
(***************************************************************************)

\* What is listed about an entry is listed once, so that an inode is left that
\* is neither in the tree nor in a listing.
LEMMA FreshInode ==
    ASSUME GcInv, NEW e \in Entry, NEW p \in Name, NEW t
    PROVE  Fresh(e, p, t) \in Inode
<1> DEFINE New(n) ==
        /\ There(t, p) => n # t[p].ino
        /\ \A i \in asked \union {item} :
              i.area # "none" /\ i.entry = e /\ p \in DOMAIN i.listing
                  => n # i.listing[p].ino
<1>1. \A i, j \in asked \union {item} :
        i.area # "none" /\ j.area # "none" /\ i.entry = e /\ j.entry = e => i = j
  BY DEF GcInv, Hand, NoItem
<1>2. PICK b : \A i \in asked \union {item} :
        i.area # "none" /\ i.entry = e => i.listing[p].ino = b
  BY <1>1
<1>3. PICK n \in Inode : n # t[p].ino /\ n # b
  BY DEF Inode
<1>4. New(n)
  BY <1>2, <1>3
<1>5. \E m \in Inode : New(m)
  BY <1>3, <1>4
<1>6. Fresh(e, p, t) = CHOOSE m \in Inode : New(m)
  BY Zenon DEF Fresh
<1> HIDE DEF New
<1>7. (CHOOSE m \in Inode : New(m)) \in Inode
  BY <1>5, Zenon
<1> QED BY <1>6, <1>7

\* What others leave of an entry they change at p.
LEMMA MeddleLeaves ==
    ASSUME GcInv, NEW a \in {"attic", "gc"}, NEW e \in Entry, NEW p \in Name \ {"dir"},
           Meddle(a, e, p)
    PROVE  \E u \in Tree :
              /\ \A q \in Name \ {p} :
                    /\ There(u, q) <=> There(Holds(a, e), q)
                    /\ There(u, q) => u[q] = Holds(a, e)[q]
              /\ Holds(a, e) \in Tree
              /\ IF a = "gc" THEN tomb' = [tomb EXCEPT ![e] = u] /\ attic' = attic
                             ELSE attic' = [attic EXCEPT ![e] = u] /\ tomb' = tomb
<1> DEFINE t == Holds(a, e)
           F == Fresh(e, p, t)
           Put == {With(t, p, [ino |-> F, is |-> c]) : c \in Contents(p)}
           Take == IF p \in DOMAIN t THEN {Without(t, {p})} ELSE {}
           Write == IF p \in DOMAIN t /\ p \in File
                    THEN {With(t, p, [ino |-> t[p].ino, is |-> c]) : c \in Contents(p) \ {t[p].is}}
                    ELSE {}
<1>1. t \in Tree /\ (p \in File => "dir" \in DOMAIN t)
  BY HoldsTyped DEF Meddle, GcInv
<1>2. F \in Inode
  BY FreshInode
<1>3. PICK u \in Put \union Take \union Write :
        IF a = "gc" THEN tomb' = [tomb EXCEPT ![e] = u] /\ attic' = attic
                    ELSE attic' = [attic EXCEPT ![e] = u] /\ tomb' = tomb
  BY Zenon DEF Meddle
<1> HIDE DEF t, F
<1> DEFINE Alike(v) == /\ v \in Tree
                      /\ \A q \in Name \ {p} :
                            /\ q \in DOMAIN v <=> q \in DOMAIN t
                            /\ q \in DOMAIN v => v[q] = t[q]
<1>4. ASSUME NEW o \in Object(p) PROVE Alike(With(t, p, o))
  <2> DEFINE W == With(t, p, o)
  <2>1. p \in Name
    OBVIOUS
  <2>2. /\ W \in Tree
        /\ DOMAIN W = DOMAIN t \union {p}
        /\ \A q \in DOMAIN t : q # p => W[q] = t[q]
    BY <1>1, <2>1, WithTree
  <2> HIDE DEF W
  <2>3. Alike(W)
    BY <2>2
  <2> QED BY <2>3 DEF W
<1>5. ASSUME u \in Put PROVE Alike(u)
  <2>1. PICK c \in Contents(p) : u = With(t, p, [ino |-> F, is |-> c])
    BY <1>5
  <2>2. [ino |-> F, is |-> c] \in Object(p)
    BY <1>2 DEF Object
  <2> HIDE DEF Alike
  <2> QED BY <2>1, <2>2, <1>4
<1>6. ASSUME u \in Take PROVE Alike(u)
  <2>1. u = Without(t, {p}) /\ "dir" \notin {p}
    BY <1>6
  <2> QED BY <2>1, <1>1, WithoutTree
<1>7. ASSUME u \in Write PROVE Alike(u)
  <2>1. PICK c \in Contents(p) : u = With(t, p, [ino |-> t[p].ino, is |-> c])
    BY <1>7
  <2>2. t[p] \in Object(p)
    BY <1>1, <1>7, TreeHas
  <2>3. [ino |-> t[p].ino, is |-> c] \in Object(p)
    BY <2>2 DEF Object
  <2> HIDE DEF Alike
  <2> QED BY <2>1, <2>3, <1>4
<1>8. Alike(u)
  BY <1>3, <1>5, <1>6, <1>7, Zenon
<1>9. \A q : (There(u, q) <=> q \in DOMAIN u) /\ (There(t, q) <=> q \in DOMAIN t)
  BY <1>1, <1>8, TreeHas
<1> QED BY <1>1, <1>3, <1>8, <1>9 DEF t

\* What is disturbed stays disturbed while the entry is in hand.
LEMMA DisturbsMore ==
    ASSUME GcInv, NEW e \in Entry, NEW p \in Name \union {"dest"}, Disturbs(e, p)
    PROVE  /\ disturbed \subseteq disturbed'
           /\ disturbed' \subseteq Entry \X (Name \union {"dest"})
           /\ ~Busy => disturbed' = {}
           /\ item.area # "none" /\ item.entry = e => <<e, p>> \in disturbed'
<1>1. ~Busy => item.area = "none" /\ disturbed = {}
  BY DEF GcInv, Hand, NoItem
<1> QED BY <1>1 DEF GcInv, TypeOK, Disturbs

LEMMA ChangesCount == ASSUME GcInv, Changes PROVE changes' \in 0..MaxChanges /\ changes' # changes
  BY BoundsAssumption DEF GcInv, TypeOK, Changes

LEMMA MeddleKeeps ==
    ASSUME NEW a \in {"attic", "gc"}, NEW e \in Entry, NEW p \in Name \ {"dir"}
    PROVE  GcInv /\ Meddle(a, e, p) => GcInv'
<1> SUFFICES ASSUME GcInv, Meddle(a, e, p) PROVE GcInv'
  OBVIOUS
<1>1. PICK u \in Tree :
        /\ \A q \in Name \ {p} :
              /\ There(u, q) <=> There(Holds(a, e), q)
              /\ There(u, q) => u[q] = Holds(a, e)[q]
        /\ Holds(a, e) \in Tree
        /\ IF a = "gc" THEN tomb' = [tomb EXCEPT ![e] = u] /\ attic' = attic
                       ELSE attic' = [attic EXCEPT ![e] = u] /\ tomb' = tomb
  BY MeddleLeaves
<1>2. UNCHANGED <<world, phase, asked, judged, looked, removed, stops>>
      /\ Disturbs(e, p) /\ Changes
      /\ raced' = IF a = "gc" /\ item.area # "none" /\ item.entry = e /\ p \in looked \ removed
                  THEN raced \union {p} ELSE raced
  BY DEF Meddle
<1>3. /\ disturbed \subseteq disturbed'
      /\ disturbed' \subseteq Entry \X (Name \union {"dest"})
      /\ ~Busy => disturbed' = {}
      /\ item.area # "none" /\ item.entry = e => <<e, p>> \in disturbed'
  BY <1>2, DisturbsMore
<1>4. attic \in [Entry -> Tree \union {None}] /\ tomb \in [Entry -> Tree \union {None}]
  BY DEF GcInv, TypeOK
<1>5. /\ attic' \in [Entry -> Tree \union {None}] /\ tomb' \in [Entry -> Tree \union {None}]
      /\ \A d \in Entry : d # e => attic'[d] = attic[d] /\ tomb'[d] = tomb[d]
      /\ a = "gc" => attic'[e] = attic[e] /\ tomb'[e] = u
      /\ a = "attic" => tomb'[e] = tomb[e] /\ attic'[e] = u
  BY <1>1, <1>4
<1>6. u # None /\ (Holds("gc", e) = tomb[e]) /\ (Holds("attic", e) = attic[e])
  BY TreeHas DEF Holds
<1>7. /\ a = "gc" => \A q \in Name \ {p} :
            /\ There(u, q) <=> There(tomb[e], q)
            /\ There(u, q) => u[q] = tomb[e][q]
      /\ a = "attic" => \A q \in Name \ {p} :
            /\ There(u, q) <=> There(attic[e], q)
            /\ There(u, q) => u[q] = attic[e][q]
  BY <1>1, <1>6
<1>8. ASSUME NEW d \in Entry, NEW q \in Name, d # e \/ q # p
      PROVE  /\ There(attic'[d], q) => There(attic[d], q) /\ attic'[d][q] = attic[d][q]
             /\ There(tomb'[d], q) => There(tomb[d], q) /\ tomb'[d][q] = tomb[d][q]
  <2>1. CASE d # e
    <3>1. attic'[d] = attic[d] /\ tomb'[d] = tomb[d]
      BY <2>1, <1>5
    <3> QED BY <3>1
  <2>2. CASE d = e /\ a = "gc"
    <3>1. attic'[d] = attic[d] /\ tomb'[d] = u /\ q \in Name \ {p}
      BY <2>2, <1>5, <1>8
    <3>2. There(u, q) => There(tomb[e], q) /\ u[q] = tomb[e][q]
      BY <3>1, <2>2, <1>7
    <3> QED BY <3>1, <3>2, <2>2
  <2>3. CASE d = e /\ a = "attic"
    <3>1. attic'[d] = u /\ tomb'[d] = tomb[d] /\ q \in Name \ {p}
      BY <2>3, <1>5, <1>8
    <3>2. There(u, q) => There(attic[e], q) /\ u[q] = attic[e][q]
      BY <3>1, <2>3, <1>7
    <3> QED BY <3>1, <3>2, <2>3
  <2> QED BY <2>1, <2>2, <2>3
<1> USE DEF world, judged
<1>9. TypeOK'
  <2>1. changes' \in 0..MaxChanges
    BY <1>2, ChangesCount
  <2> QED BY <1>2, <1>3, <1>5, <2>1 DEF GcInv, TypeOK
<1>10. Hand'
  <2>1. \A i \in asked : i.entry \in Entry
    BY DEF GcInv, TypeOK, Item
  <2>2. \A d \in Entry : (tomb[d] # None => tomb'[d] # None) /\ (attic[d] # None => attic'[d] # None)
    BY <1>5, <1>6
  <2>3. \A d \in Entry : \A b : Holds(b, d) # None => Holds(b, d)' # None
    BY <2>2 DEF Holds
  <2>4. Busy => item.entry \in Entry
    BY InItem
  <2> QED BY <1>2, <1>3, <2>1, <2>2, <2>3, <2>4 DEF GcInv, Hand, Busy
<1>11. Directories'
  <2>1. "dir" \in Name \ {p}
    BY DEF Name
  <2>2. \A d \in Entry :
          /\ There(tomb'[d], "dir") => There(tomb[d], "dir")
          /\ There(attic'[d], "dir") => There(attic[d], "dir")
    BY <1>8, <2>1
  <2>3. ASSUME NEW d \in Entry, There(attic'[d], "dir") \/ There(tomb'[d], "dir")
        PROVE  Kind[d] = "adopt"
    BY <2>2, <2>3 DEF GcInv, Directories
  <2> QED BY <2>3 DEF Directories, There
<1>12. Judged'
  <2> SUFFICES ASSUME item.area = "attic"
               PROVE  Judged'
    BY <1>2 DEF Judged
  <2> DEFINE d == item.entry
  <2>1. CASE ~Busy
    BY <2>1, <1>2 DEF Busy, Judged
  <2>2. CASE Busy
    <3>1. d \in Entry /\ (d = e => <<e, p>> \in disturbed')
      BY <2>2, InItem, <1>3
    <3>2. "dir" \in Name \ {p} /\ \A f \in File : f \in Name /\ f # "dir"
      BY FileAssumption DEF Name
    <3>3. phase \in {"loaded", "walked", "accepted"} => Pointed(d)'
      BY <1>2, <1>3 DEF GcInv, Judged, Pointed
    <3>4. /\ There(attic'[d], "dir") => There(attic[d], "dir")
          /\ There(tomb'[d], "dir") => There(tomb[d], "dir")
      BY <1>8, <3>1, <3>2
    <3>5. \A f \in File : There(attic'[d], f) =>
            \/ <<d, f>> \in disturbed'
            \/ There(attic[d], f) /\ attic'[d][f] = attic[d][f]
      BY <1>8, <3>1, <3>2
    <3>6. \A f \in File : There(tomb'[d], f) =>
            \/ <<d, f>> \in disturbed'
            \/ There(tomb[d], f) /\ tomb'[d][f] = tomb[d][f]
      BY <1>8, <3>1, <3>2
    <3>7. phase = "walked" => Walked(d)'
      <4>1. phase = "walked" => Walked(d)
        BY DEF GcInv, Judged
      <4> QED BY <4>1, <1>2, <1>3, <3>4, <3>5 DEF Walked, There
    <3>8. Safe(d, attic[d]) => Safe(d, attic[d])'
      BY <1>2, <1>3, <3>4, <3>5 DEF Safe, There
    <3>9. Safe(d, tomb[d]) => Safe(d, tomb[d])'
      BY <1>2, <1>3, <3>4, <3>6 DEF Safe, There
    <3> QED BY <3>3, <3>7, <3>8, <3>9, <1>2 DEF GcInv, Judged
  <2> QED BY <2>1, <2>2
<1>13. Shown'
  <2> SUFFICES ASSUME phase = "erasing"
               PROVE  Shown'
    BY <1>2 DEF Shown
  <2> DEFINE d == item.entry
  <2>1. d \in Entry /\ item.area # "none"
    BY InItem DEF Busy
  <2>2. \A q \in looked \ removed : There(tomb'[d], q) =>
          \/ q \in raced'
          \/ There(tomb[d], q) /\ tomb'[d][q] = tomb[d][q]
    <3>1. looked \subseteq Name
      BY DEF GcInv, TypeOK
    <3>2. ASSUME NEW q \in looked \ removed, There(tomb'[d], q)
          PROVE  \/ q \in raced'
                 \/ There(tomb[d], q) /\ tomb'[d][q] = tomb[d][q]
      <4>1. CASE d # e \/ q # p
        BY <4>1, <3>1, <3>2, <2>1, <1>8
      <4>2. CASE d = e /\ q = p /\ a = "gc"
        BY <4>2, <1>2, <2>1
      <4>3. CASE d = e /\ a = "attic"
        <5>1. tomb'[d] = tomb[d]
          BY <4>3, <1>5
        <5> QED BY <5>1, <3>2
      <4> QED BY <4>1, <4>2, <4>3
    <3> QED BY <3>2
  <2>3. raced \subseteq raced'
    BY <1>2
  <2>4. \A q \in looked \ removed : There(tomb'[d], q) =>
          \/ q \in raced'
          \/ tomb'[d][q].ino = item.listing[q].ino
    BY <2>2, <2>3 DEF GcInv, Shown, Stone
  <2> QED BY <2>4, <1>2 DEF GcInv, Shown, Stone, There
<1> QED BY <1>9, <1>10, <1>11, <1>12, <1>13 DEF GcInv

\* While the entries stay, what is judged of the one in hand depends on the
\* copy and the destination.
LEMMA AroundJudged ==
    ASSUME GcInv, UNCHANGED <<phase, item, refs, now>>, disturbed \subseteq disturbed',
           item.area = "attic" =>
              LET d == item.entry IN
              /\ \A q \in File \union {"dir"} :
                    /\ There(attic'[d], q) => There(attic[d], q) /\ attic'[d][q] = attic[d][q]
                    /\ There(tomb'[d], q) => There(tomb[d], q) /\ tomb'[d][q] = tomb[d][q]
              /\ \A f \in File : copy'[d][f] = copy[d][f] \/ <<d, f>> \in disturbed'
              /\ dest'[d] = "pointer" => dest[d] = "pointer" \/ <<d, "dest">> \in disturbed'
              /\ dest[d] = "ours" /\ (There(attic'[d], "dir") \/ There(tomb'[d], "dir"))
                    => dest'[d] = "ours" \/ <<d, "dest">> \in disturbed'
    PROVE  Judged'
<1> SUFFICES ASSUME item.area = "attic" PROVE Judged'
  BY DEF Judged
<1> DEFINE d == item.entry
<1>1. phase \in {"loaded", "walked", "accepted"} => Pointed(d)'
  BY DEF GcInv, Judged, Pointed
<1>2. phase = "walked" => Walked(d)'
  <2>1. phase = "walked" => Walked(d)
    BY DEF GcInv, Judged
  <2> QED BY <2>1 DEF Walked, There
<1>3. Safe(d, attic[d]) => Safe(d, attic[d])'
  BY DEF Safe, There
<1>4. Safe(d, tomb[d]) => Safe(d, tomb[d])'
  BY DEF Safe, There
<1> QED BY <1>1, <1>2, <1>3, <1>4 DEF GcInv, Judged

LEMMA CopyDriftsKeeps ==
    ASSUME NEW e \in Entry, NEW f \in File
    PROVE  GcInv /\ CopyDrifts(e, f) => GcInv'
<1> SUFFICES ASSUME GcInv, CopyDrifts(e, f) PROVE GcInv'
  OBVIOUS
<1>1. UNCHANGED <<entries, dest, inflight, phase, asked, judged, progress, stops>>
      /\ Disturbs(e, f) /\ Changes
  BY DEF CopyDrifts
<1>2. f \in Name
  BY DEF Name
<1>3. /\ disturbed \subseteq disturbed'
      /\ disturbed' \subseteq Entry \X (Name \union {"dest"})
      /\ ~Busy => disturbed' = {}
      /\ item.area # "none" /\ item.entry = e => <<e, f>> \in disturbed'
  BY <1>1, <1>2, DisturbsMore
<1>4. PICK c \in {"a", "b", "absent"} : copy' = [copy EXCEPT ![e][f] = c]
  BY DEF CopyDrifts
<1>5. copy \in [Entry -> [File -> {"a", "b", "absent"}]]
  BY DEF GcInv, TypeOK
<1>6. /\ copy' \in [Entry -> [File -> {"a", "b", "absent"}]]
      /\ \A d \in Entry, g \in File : <<d, g>> # <<e, f>> => copy'[d][g] = copy[d][g]
  BY <1>4, <1>5
<1> USE DEF entries, judged, progress
<1>7. TypeOK'
  <2>1. changes' \in 0..MaxChanges
    BY <1>1, ChangesCount
  <2> QED BY <1>1, <1>3, <1>6, <2>1 DEF GcInv, TypeOK
<1>8. Hand'
  BY <1>1, <1>3 DEF GcInv, Hand, Busy, Holds
<1>9. Directories'
  BY <1>1 DEF GcInv, Directories, There
<1>10. Judged'
  <2>1. item.area = "attic" => item.entry \in Entry
    BY InItem DEF GcInv, Hand, NoItem
  <2>2. item.area = "attic" =>
          \A g \in File : copy'[item.entry][g] = copy[item.entry][g] \/ <<item.entry, g>> \in disturbed'
    BY <2>1, <1>3, <1>6
  <2> QED BY <2>2, <1>1, <1>3, AroundJudged DEF There
<1>11. Shown'
  BY <1>1 DEF GcInv, Shown, Stone, There
<1> QED BY <1>7, <1>8, <1>9, <1>10, <1>11 DEF GcInv

LEMMA LinkByHandKeeps == ASSUME NEW e \in Entry PROVE GcInv /\ LinkByHand(e) => GcInv'
<1> SUFFICES ASSUME GcInv, LinkByHand(e) PROVE GcInv'
  OBVIOUS
<1>1. UNCHANGED <<entries, copy, inflight, phase, asked, judged, progress, stops>>
      /\ Disturbs(e, "dest") /\ Changes
  BY DEF LinkByHand
<1>2. /\ disturbed \subseteq disturbed'
      /\ disturbed' \subseteq Entry \X (Name \union {"dest"})
      /\ ~Busy => disturbed' = {}
      /\ item.area # "none" /\ item.entry = e => <<e, "dest">> \in disturbed'
  BY <1>1, DisturbsMore
<1>3. PICK c \in {"pointer", "tombpointer", "foreign", "empty"} : dest' = [dest EXCEPT ![e] = c]
  BY DEF LinkByHand
<1>4. dest \in [Entry -> {"ours", "empty", "pointer", "tombpointer", "foreign", "directory"}]
  BY DEF GcInv, TypeOK
<1>5. /\ dest' \in [Entry -> {"ours", "empty", "pointer", "tombpointer", "foreign", "directory"}]
      /\ \A d \in Entry : d # e => dest'[d] = dest[d]
  BY <1>3, <1>4
<1> USE DEF entries, judged, progress
<1>6. TypeOK'
  <2>1. changes' \in 0..MaxChanges
    BY <1>1, ChangesCount
  <2> QED BY <1>1, <1>2, <1>5, <2>1 DEF GcInv, TypeOK
<1>7. Hand'
  BY <1>1, <1>2 DEF GcInv, Hand, Busy, Holds
<1>8. Directories'
  BY <1>1 DEF GcInv, Directories, There
<1>9. Judged'
  <2>1. item.area = "attic" => item.entry \in Entry
    BY InItem DEF GcInv, Hand, NoItem
  <2>2. item.area = "attic" =>
          dest'[item.entry] = dest[item.entry] \/ <<item.entry, "dest">> \in disturbed'
    BY <2>1, <1>2, <1>5
  <2> QED BY <2>2, <1>1, <1>2, AroundJudged DEF There
<1>10. Shown'
  BY <1>1 DEF GcInv, Shown, Stone, There
<1> QED BY <1>6, <1>7, <1>8, <1>9, <1>10 DEF GcInv

LEMMA WayBackKeeps == ASSUME NEW e \in Entry PROVE GcInv /\ WayBack(e) => GcInv'
<1> SUFFICES ASSUME GcInv, WayBack(e) PROVE GcInv'
  OBVIOUS
<1> DEFINE u == Without(attic[e], {"dir"} \union File)
<1>1. /\ UNCHANGED <<tomb, copy, inflight, phase, asked, judged, progress, stops>>
      /\ Disturbs(e, "dir") /\ Changes
      /\ dest[e] = "empty" /\ There(attic[e], "dir")
      /\ attic' = [attic EXCEPT ![e] = u]
      /\ dest' = [dest EXCEPT ![e] = "directory"]
  BY DEF WayBack
<1>2. /\ disturbed \subseteq disturbed'
      /\ disturbed' \subseteq Entry \X (Name \union {"dest"})
      /\ ~Busy => disturbed' = {}
  BY <1>1, DisturbsMore DEF Name
<1>3. /\ attic \in [Entry -> Tree \union {None}]
      /\ dest \in [Entry -> {"ours", "empty", "pointer", "tombpointer", "foreign", "directory"}]
  BY DEF GcInv, TypeOK
<1>4. attic[e] \in Tree
  BY <1>1, <1>3 DEF There
<1>5. u \in Tree /\ DOMAIN u = DOMAIN attic[e] \ ({"dir"} \union File)
  BY <1>4, WithoutTree
<1> HIDE DEF u
<1>6. u # None /\ \A q \in File \union {"dir"} : ~There(u, q)
  BY <1>5, TreeHas
<1>7. /\ attic' \in [Entry -> Tree \union {None}]
      /\ dest' \in [Entry -> {"ours", "empty", "pointer", "tombpointer", "foreign", "directory"}]
      /\ attic'[e] = u /\ dest'[e] = "directory"
      /\ \A d \in Entry : d # e => attic'[d] = attic[d] /\ dest'[d] = dest[d]
  BY <1>1, <1>3, <1>5
<1> USE DEF judged, progress
<1>8. TypeOK'
  <2>1. changes' \in 0..MaxChanges
    BY <1>1, ChangesCount
  <2> QED BY <1>1, <1>2, <1>7, <2>1 DEF GcInv, TypeOK
<1>9. Hand'
  <2>1. \A i \in asked : i.entry \in Entry
    BY DEF GcInv, TypeOK, Item
  <2>2. \A d \in Entry : attic[d] # None => attic'[d] # None
    BY <1>6, <1>7
  <2>3. \A d \in Entry : \A b : Holds(b, d) # None => Holds(b, d)' # None
    BY <2>2, <1>1 DEF Holds
  <2>4. Busy => item.entry \in Entry
    BY InItem
  <2> QED BY <1>1, <1>2, <2>1, <2>3, <2>4 DEF GcInv, Hand, Busy
<1>10. ASSUME NEW d \in Entry, NEW q \in File \union {"dir"}, There(attic'[d], q)
       PROVE  d # e /\ There(attic[d], q) /\ attic'[d] = attic[d]
  <2>1. CASE d = e
    <3>1. attic'[d] = u
      BY <2>1, <1>7
    <3> QED BY <3>1, <1>6, <1>10
  <2>2. CASE d # e
    <3>1. attic'[d] = attic[d]
      BY <2>2, <1>7
    <3> QED BY <3>1, <2>2, <1>10
  <2> QED BY <2>1, <2>2
<1>11. Directories'
  <2>1. ASSUME NEW d \in Entry, There(attic'[d], "dir") \/ There(tomb'[d], "dir")
        PROVE  Kind[d] = "adopt"
    BY <2>1, <1>1, <1>10 DEF GcInv, Directories
  <2> QED BY <2>1 DEF Directories, There
<1>12. Judged'
  <2>1. ASSUME item.area = "attic"
        PROVE  LET d == item.entry IN
               /\ \A q \in File \union {"dir"} :
                     /\ There(attic'[d], q) => There(attic[d], q) /\ attic'[d][q] = attic[d][q]
                     /\ There(tomb'[d], q) => There(tomb[d], q) /\ tomb'[d][q] = tomb[d][q]
               /\ \A f \in File : copy'[d][f] = copy[d][f] \/ <<d, f>> \in disturbed'
               /\ dest'[d] = "pointer" => dest[d] = "pointer" \/ <<d, "dest">> \in disturbed'
               /\ dest[d] = "ours" => dest'[d] = "ours"
    <3> DEFINE d == item.entry
    <3>1. d \in Entry
      BY <2>1, InItem DEF GcInv, Hand, NoItem
    <3>2. \A q \in File \union {"dir"} :
             There(attic'[d], q) => There(attic[d], q) /\ attic'[d][q] = attic[d][q]
      BY <3>1, <1>10
    <3>3. (dest'[d] = "pointer" => dest[d] = "pointer") /\ (dest[d] = "ours" => dest'[d] = "ours")
      BY <3>1, <1>1, <1>7
    <3> QED BY <3>2, <3>3, <1>1
  <2> QED BY <2>1, <1>1, <1>2, AroundJudged
<1>13. Shown'
  BY <1>1 DEF GcInv, Shown, Stone, There
<1> QED BY <1>8, <1>9, <1>11, <1>12, <1>13 DEF GcInv

LEMMA RescueParksKeeps == ASSUME NEW e \in Entry PROVE GcInv /\ RescueParks(e) => GcInv'
<1> SUFFICES ASSUME GcInv, RescueParks(e) PROVE GcInv'
  OBVIOUS
<1>1. /\ UNCHANGED <<tomb, copy, inflight, phase, asked, judged, progress, stops>>
      /\ Disturbs(e, "link") /\ Changes
      /\ Kind[e] = "rescue"
      /\ dest' = [dest EXCEPT ![e] = "empty"]
  BY DEF RescueParks
<1>2. /\ disturbed \subseteq disturbed'
      /\ disturbed' \subseteq Entry \X (Name \union {"dest"})
      /\ ~Busy => disturbed' = {}
  BY <1>1, DisturbsMore DEF Name
<1>3. /\ attic \in [Entry -> Tree \union {None}]
      /\ dest \in [Entry -> {"ours", "empty", "pointer", "tombpointer", "foreign", "directory"}]
  BY DEF GcInv, TypeOK
<1>4. "link" \in Name /\ "link" # "dir" /\ "link" \notin File
  BY FileAssumption DEF Name
<1>5. PICK o \in Object("link") :
        attic' = [attic EXCEPT ![e] = IF @ = None THEN [p \in {"link"} |-> o] ELSE With(@, "link", o)]
  <2> DEFINE o == [ino |-> Fresh(e, "link", attic[e]),
                   is  |-> IF dest[e] = "ours" THEN "recorded" ELSE "unrecorded"]
  <2>1. Fresh(e, "link", attic[e]) \in Inode
    BY <1>4, FreshInode
  <2>2. o \in Object("link")
    BY <2>1 DEF Object, Contents
  <2>3. attic' = [attic EXCEPT ![e] = IF @ = None THEN [p \in {"link"} |-> o] ELSE With(@, "link", o)]
    BY DEF RescueParks
  <2> QED BY <2>2, <2>3
<1> DEFINE u == IF attic[e] = None THEN [p \in {"link"} |-> o] ELSE With(attic[e], "link", o)
<1>6. u \in Tree /\ \A q \in Name : There(u, q) /\ q # "link" => There(attic[e], q) /\ u[q] = attic[e][q]
  <2>1. CASE attic[e] = None
    <3> DEFINE v == [p \in {"link"} |-> o]
    <3>1. v = [p \in {"link"} |-> v[p]] /\ DOMAIN v = {"link"} /\ \A p \in {"link"} : v[p] \in Object(p)
      OBVIOUS
    <3> HIDE DEF v
    <3>2. v \in Tree
      BY <3>1, <1>4, TreeIs
    <3>3. u = v /\ \A q : There(v, q) => q = "link"
      BY <2>1, <3>1 DEF There, v
    <3> QED BY <3>2, <3>3
  <2>2. CASE attic[e] # None
    <3> DEFINE v == With(attic[e], "link", o)
    <3>1. attic[e] \in Tree
      BY <2>2, <1>3
    <3>2. /\ v \in Tree
          /\ DOMAIN v = DOMAIN attic[e] \union {"link"}
          /\ \A q \in DOMAIN attic[e] : q # "link" => v[q] = attic[e][q]
      BY <3>1, <1>4, WithTree
    <3> HIDE DEF v
    <3>3. \A q : (There(v, q) <=> q \in DOMAIN v) /\ (There(attic[e], q) <=> q \in DOMAIN attic[e])
      BY <3>1, <3>2, TreeHas
    <3>4. u = v
      BY <2>2 DEF v
    <3> QED BY <3>2, <3>3, <3>4
  <2> QED BY <2>1, <2>2
<1>7. attic' = [attic EXCEPT ![e] = u]
  BY <1>5
<1> HIDE DEF u
<1>8. u # None
  BY <1>6, TreeHas
<1>9. /\ attic' \in [Entry -> Tree \union {None}]
      /\ dest' \in [Entry -> {"ours", "empty", "pointer", "tombpointer", "foreign", "directory"}]
      /\ attic'[e] = u /\ dest'[e] = "empty"
      /\ \A d \in Entry : d # e => attic'[d] = attic[d] /\ dest'[d] = dest[d]
  BY <1>1, <1>3, <1>6, <1>7
<1> USE DEF judged, progress
<1>10. TypeOK'
  <2>1. changes' \in 0..MaxChanges
    BY <1>1, ChangesCount
  <2> QED BY <1>1, <1>2, <1>9, <2>1 DEF GcInv, TypeOK
<1>11. Hand'
  <2>1. \A i \in asked : i.entry \in Entry
    BY DEF GcInv, TypeOK, Item
  <2>2. \A d \in Entry : attic[d] # None => attic'[d] # None
    BY <1>8, <1>9
  <2>3. \A d \in Entry : \A b : Holds(b, d) # None => Holds(b, d)' # None
    BY <2>2, <1>1 DEF Holds
  <2>4. Busy => item.entry \in Entry
    BY InItem
  <2> QED BY <1>1, <1>2, <2>1, <2>3, <2>4 DEF GcInv, Hand, Busy
<1>12. ASSUME NEW d \in Entry, NEW q \in File \union {"dir"}, There(attic'[d], q)
       PROVE  There(attic[d], q) /\ attic'[d][q] = attic[d][q]
  <2>1. q \in Name /\ q # "link"
    BY <1>4 DEF Name
  <2>2. CASE d = e
    <3>1. attic'[d] = u
      BY <2>2, <1>9
    <3> QED BY <3>1, <2>1, <2>2, <1>6, <1>12
  <2>3. CASE d # e
    <3>1. attic'[d] = attic[d]
      BY <2>3, <1>9
    <3> QED BY <3>1, <1>12
  <2> QED BY <2>2, <2>3
<1>13. Directories'
  <2>1. ASSUME NEW d \in Entry, There(attic'[d], "dir") \/ There(tomb'[d], "dir")
        PROVE  Kind[d] = "adopt"
    BY <2>1, <1>1, <1>12 DEF GcInv, Directories
  <2> QED BY <2>1 DEF Directories, There
<1>14. Judged'
  <2>1. ASSUME item.area = "attic"
        PROVE  LET d == item.entry IN
               /\ \A q \in File \union {"dir"} :
                     /\ There(attic'[d], q) => There(attic[d], q) /\ attic'[d][q] = attic[d][q]
                     /\ There(tomb'[d], q) => There(tomb[d], q) /\ tomb'[d][q] = tomb[d][q]
               /\ \A f \in File : copy'[d][f] = copy[d][f] \/ <<d, f>> \in disturbed'
               /\ dest'[d] = "pointer" => dest[d] = "pointer" \/ <<d, "dest">> \in disturbed'
               /\ dest[d] = "ours" /\ (There(attic'[d], "dir") \/ There(tomb'[d], "dir"))
                     => dest'[d] = "ours" \/ <<d, "dest">> \in disturbed'
    <3> DEFINE d == item.entry
    <3>1. d \in Entry
      BY <2>1, InItem DEF GcInv, Hand, NoItem
    <3>2. \A q \in File \union {"dir"} :
             There(attic'[d], q) => There(attic[d], q) /\ attic'[d][q] = attic[d][q]
      BY <3>1, <1>12
    <3>3. d = e => ~There(attic'[d], "dir") /\ ~There(tomb'[d], "dir")
      BY <3>2, <1>1 DEF GcInv, Directories
    <3>4. d # e => dest'[d] = dest[d]
      BY <3>1, <1>9
    <3>5. dest'[d] = "pointer" => dest[d] = "pointer"
      BY <3>4, <1>9
    <3> QED BY <3>2, <3>3, <3>4, <3>5, <1>1
  <2> QED BY <2>1, <1>1, <1>2, AroundJudged
<1>15. Shown'
  BY <1>1 DEF GcInv, Shown, Stone, There
<1> QED BY <1>10, <1>11, <1>13, <1>14, <1>15 DEF GcInv

LEMMA OperatesKeeps == ASSUME NEW e \in Entry PROVE GcInv /\ Operates(e) => GcInv'
<1> SUFFICES ASSUME GcInv, Operates(e) PROVE GcInv'
  OBVIOUS
<1> USE DEF Operates, entries, judged, progress
<1>1. dest' \in [Entry -> {"ours", "empty", "pointer", "tombpointer", "foreign", "directory"}]
  BY DEF GcInv, TypeOK
<1>2. changes' \in 0..MaxChanges
  BY ChangesCount
<1>3. TypeOK'
  BY <1>1, <1>2 DEF GcInv, TypeOK
<1>4. Hand'
  BY DEF GcInv, Hand, Busy, Holds
<1>5. Directories'
  BY DEF GcInv, Directories, There
<1>6. item.area = "none"
  BY DEF GcInv, Hand, Busy, NoItem
<1>7. Judged' /\ Shown'
  BY <1>6 DEF Judged, Shown
<1> QED BY <1>3, <1>4, <1>5, <1>7 DEF GcInv

LEMMA RecoverKeeps == GcInv /\ Recover => GcInv'
<1> SUFFICES ASSUME GcInv, Recover PROVE GcInv'
  OBVIOUS
<1> USE DEF Recover, entries, judged, progress
<1>1. TypeOK'
  BY DEF GcInv, TypeOK
<1>2. Hand'
  BY DEF GcInv, Hand, Busy, Holds
<1>3. Directories'
  BY DEF GcInv, Directories, There
<1>4. Judged' /\ Shown'
  BY DEF Judged, Shown, GcInv, Hand, Busy, NoItem
<1> QED BY <1>1, <1>2, <1>3, <1>4 DEF GcInv

-----------------------------------------------------------------------------
(***************************************************************************)
(* Every step, and what follows                                            *)
(***************************************************************************)

LEMMA Keeps == GcInv /\ [Next]_vars => GcInv'
<1> SUFFICES ASSUME GcInv, [Next]_vars PROVE GcInv'
  OBVIOUS
<1>1. CASE Survey
  BY <1>1, SurveyKeeps
<1>2. CASE \E i \in asked : Typed(i) \/ NotTyped(i)
  BY <1>2, TypedKeeps, NotTypedKeeps
<1>3. CASE Leaves \/ LoadRefs \/ Walk \/ Accept \/ Bury \/ Resume
  BY <1>3, LeavesKeeps, LoadRefsKeeps, WalkKeeps, AcceptKeeps, BuryKeeps, ResumeKeeps
<1>4. CASE \E p \in Name : Look(p) \/ Unlink(p)
  BY <1>4, LookKeeps, UnlinkKeeps
<1>5. CASE Finish \/ Refuse \/ Stop
  BY <1>5, FinishKeeps, RefuseKeeps, StopKeeps
<1>6. CASE \E a \in {"attic", "gc"}, e \in Entry, p \in Name \ {"dir"} : Meddle(a, e, p)
  BY <1>6, MeddleKeeps
<1>7. CASE \E e \in Entry, f \in File : CopyDrifts(e, f)
  BY <1>7, CopyDriftsKeeps
<1>8. CASE \E e \in Entry : LinkByHand(e) \/ WayBack(e) \/ RescueParks(e) \/ Operates(e)
  BY <1>8, LinkByHandKeeps, WayBackKeeps, RescueParksKeeps, OperatesKeeps
<1>9. CASE Recover
  BY <1>9, RecoverKeeps
<1>10. CASE UNCHANGED vars
  <2>1. UNCHANGED <<attic, tomb, copy, dest, inflight, phase, asked, item, refs, now>>
        /\ UNCHANGED <<looked, removed, raced, disturbed, changes, stops>>
    BY <1>10 DEF vars, entries, world, judged, progress
  <2>2. TypeOK' /\ Hand'
    BY <2>1 DEF GcInv, TypeOK, Hand, Busy, Holds
  <2>3. Directories' /\ Shown'
    BY <2>1 DEF GcInv, Directories, Shown, Stone, There
  <2>4. Judged'
    BY <2>1 DEF GcInv, Judged, Pointed, Walked, Safe, There
  <2> QED BY <2>2, <2>3, <2>4 DEF GcInv
<1> QED BY <1>1, <1>2, <1>3, <1>4, <1>5, <1>6, <1>7, <1>8, <1>9, <1>10 DEF Next, Removes, Others

\* Nothing but an unlink takes an object of the entry in hand away.
LEMMA OnlyUnlinkTakes ==
    ASSUME GcInv, [Next]_vars, NEW p \in Name, Takes(p)
    PROVE  Unlink(p)
<1>1. There(Stone, p) /\ ~There(tomb'[item.entry], p) /\ changes' = changes
  BY DEF Takes
<1>2. tomb' # tomb
  BY <1>1 DEF Stone
<1>3. ~Changes
  BY <1>1, ChangesCount DEF GcInv
<1>4. ~Bury
  BY <1>1, NoneHasNothing DEF Bury, Stone
<1>5. ~Finish
  BY <1>1 DEF Finish, There
<1>6. ASSUME NEW q \in Name, Unlink(q) PROVE q = p
  <2>1. phase = "erasing"
    BY <1>6 DEF Unlink, At
  <2>2. Stone \in Tree
    BY <2>1, InItem DEF GcInv, TypeOK, Hand, Busy, Stone
  <2>3. tomb'[item.entry] \in Tree /\ DOMAIN tomb'[item.entry] = DOMAIN Stone \ {q}
    BY <1>6, UnlinkLeaves
  <2>4. p \in DOMAIN Stone
    BY <1>1, <2>2, TreeHas
  <2>5. p \notin DOMAIN tomb'[item.entry]
    BY <1>1, <2>3, TreeHas
  <2> QED BY <2>3, <2>4, <2>5
<1>7. ~UNCHANGED vars /\ ~Survey /\ ~Leaves /\ ~LoadRefs /\ ~Walk /\ ~Accept /\ ~Resume
      /\ ~Refuse /\ ~Stop /\ ~Recover
  BY <1>2 DEF vars, entries, Survey, Leaves, LoadRefs, Walk, Accept, Resume, Refuse, Stop, Recover
<1>8. \A i \in asked : ~Typed(i) /\ ~NotTyped(i)
  BY <1>2 DEF entries, Typed, NotTyped
<1>9. \A q \in Name : ~Look(q)
  BY <1>2 DEF entries, Look
<1>10. /\ \A a \in {"attic", "gc"}, e \in Entry, q \in Name \ {"dir"} : ~Meddle(a, e, q)
       /\ \A e \in Entry, f \in File : ~CopyDrifts(e, f)
       /\ \A e \in Entry : ~LinkByHand(e) /\ ~WayBack(e) /\ ~RescueParks(e) /\ ~Operates(e)
  BY <1>3 DEF Meddle, CopyDrifts, LinkByHand, WayBack, RescueParks, Operates
<1> QED BY <1>4, <1>5, <1>6, <1>7, <1>8, <1>9, <1>10 DEF Next, Removes, Others

\* What an unlink takes was judged when the second look was accepted.
LEMMA UnlinkIsJudged ==
    ASSUME GcInv, NEW p \in Name, Unlink(p)
    PROVE  /\ item.area = "attic" => Safe(item.entry, Stone)
           /\ There(Stone, p) /\ p \in DOMAIN item.listing
           /\ p \in raced \/ Stone[p].ino = item.listing[p].ino
<1>1. phase = "erasing" /\ p \in looked \ removed /\ There(Stone, p) /\ p \in DOMAIN item.listing
  BY DEF Unlink, At, Left
<1> QED BY <1>1 DEF GcInv, Judged, Shown, Stone

\* The inductive invariant: what is in hand is still there and asked about once,
\* what the second look has accepted is held elsewhere unless others came since,
\* and what was looked at is what was listed.
THEOREM GcIsCareful == Spec => []GcInv
<1>1. Init => GcInv
  BY InitGc
<1>2. GcInv /\ [Next]_vars => GcInv'
  BY Keeps
<1> QED BY <1>1, <1>2, PTL DEF Spec

\* Every variable keeps its type, and there is always an inode nobody has seen.
THEOREM GcIsTyped == Spec => []TypeOK
<1>1. GcInv => TypeOK
  BY DEF GcInv
<1> QED BY <1>1, GcIsCareful, PTL

\* A file of an adopted directory goes for good only while the profile holds
\* it as it is (D61), however collect is interleaved with what others do.
THEOREM OnlyWhatIsHeld == Spec => TakesOnlyWhatIsHeld
<1>1. ASSUME GcInv, [Next]_vars, NEW f \in File, Takes(f), item.area = "attic"
      PROVE  copy[item.entry][f] = Stone[f].is \/ ~Untouched(f)
  <2>1. Unlink(f)
    BY <1>1, OnlyUnlinkTakes DEF Name
  <2>2. Safe(item.entry, Stone) /\ There(Stone, f)
    BY <1>1, <2>1, UnlinkIsJudged DEF Name
  <2> QED BY <2>2 DEF Safe, Untouched
<1>2. GcInv /\ [Next]_vars =>
        [\A f \in File : Takes(f) /\ item.area = "attic" =>
              \/ copy[item.entry][f] = Stone[f].is
              \/ ~Untouched(f)]_vars
  BY <1>1
<1> QED BY <1>2, GcIsCareful, PTL DEF Spec, TakesOnlyWhatIsHeld

\* An adopted directory goes for good only while ricepilot's link is in its
\* place: the way back of a rolled back adopt is kept (D49).
THEOREM TheWayBackStays == Spec => WayBackIsKept
<1>1. ASSUME GcInv, [Next]_vars, Takes("dir"), item.area = "attic"
      PROVE  dest[item.entry] = "ours" \/ ~Untouched("dest")
  <2>1. Unlink("dir")
    BY <1>1, OnlyUnlinkTakes DEF Name
  <2>2. Safe(item.entry, Stone) /\ There(Stone, "dir")
    BY <1>1, <2>1, UnlinkIsJudged DEF Name
  <2> QED BY <2>2 DEF Safe, Untouched
<1>2. GcInv /\ [Next]_vars =>
        [Takes("dir") /\ item.area = "attic" =>
              dest[item.entry] = "ours" \/ ~Untouched("dest")]_vars
  BY <1>1
<1> QED BY <1>2, GcIsCareful, PTL DEF Spec, WayBackIsKept

\* What goes for good is the very object the operator was shown (D62).
THEOREM OnlyWhatWasShown == Spec => TakesOnlyWhatWasShown
<1>1. ASSUME GcInv, [Next]_vars, NEW p \in Name, Takes(p)
      PROVE  \/ p \in DOMAIN item.listing /\ Stone[p].ino = item.listing[p].ino
             \/ p \in raced
  <2>1. Unlink(p)
    BY <1>1, OnlyUnlinkTakes
  <2> QED BY <1>1, <2>1, UnlinkIsJudged
<1>2. GcInv /\ [Next]_vars =>
        [\A p \in Name : Takes(p) =>
              \/ p \in DOMAIN item.listing /\ Stone[p].ino = item.listing[p].ino
              \/ p \in raced]_vars
  BY <1>1
<1> QED BY <1>2, GcIsCareful, PTL DEF Spec, TakesOnlyWhatWasShown

\* What was known to lead into an interrupted removal when the records were
\* read, and that nothing did when it was accepted, unless others came since.
TombPointed(e) == dest[e] = "tombpointer" => refs.pointed \/ <<e, "dest">> \in disturbed
Resumed ==
    item.area = "gc" =>
        /\ phase \in {"loaded", "walked", "accepted", "erasing"} => TombPointed(item.entry)
        /\ phase \in {"accepted", "erasing"} => ~refs.pointed

\* Whoever changes what is at a destination comes to be known to have.
LEMMA DestinationChanges ==
    ASSUME GcInv, [Next]_vars, Busy, item' = item, refs' = refs
    PROVE  /\ disturbed \subseteq disturbed'
           /\ dest'[item.entry] = "tombpointer" =>
                dest[item.entry] = "tombpointer" \/ <<item.entry, "dest">> \in disturbed'
<1> DEFINE E == item.entry
<1>1. E \in Entry /\ item.area # "none" /\ Busy
  BY InItem
<1> DEFINE Goal == /\ disturbed \subseteq disturbed'
                   /\ dest'[E] = "tombpointer" => dest[E] = "tombpointer" \/ <<E, "dest">> \in disturbed'
<1>2. ASSUME disturbed' = disturbed, dest' = dest PROVE Goal
  BY <1>2
<1>3. ASSUME Forgets PROVE FALSE
  BY <1>1, <1>3 DEF Forgets, NoItem
<1>4. ASSUME UNCHANGED vars \/ Survey \/ Leaves \/ LoadRefs \/ Walk \/ Accept \/ Bury \/ Resume \/ Recover
      PROVE  Goal
  <2>1. disturbed' = disturbed /\ dest' = dest
    BY <1>4 DEF vars, world, Survey, Leaves, LoadRefs, Walk, Accept, Bury, Resume, Recover
  <2> QED BY <2>1, <1>2
<1>14. ASSUME \E p \in Name : Look(p) \/ Unlink(p) PROVE Goal
  <2>1. disturbed' = disturbed /\ dest' = dest
    BY <1>14 DEF world, Look, Unlink
  <2> QED BY <2>1, <1>2
<1>15. ASSUME \E i \in asked : Typed(i) \/ NotTyped(i) PROVE Goal
  <2>1. disturbed' = disturbed /\ dest' = dest
    BY <1>15 DEF world, Typed, NotTyped
  <2> QED BY <2>1, <1>2
<1>5. ASSUME Finish \/ Refuse \/ Stop PROVE Goal
  BY <1>3, <1>5 DEF Finish, Refuse, Stop
<1>6. ASSUME \E a \in {"attic", "gc"}, e \in Entry, p \in Name \ {"dir"} : Meddle(a, e, p)
      PROVE  Goal
  <2>1. PICK a \in {"attic", "gc"}, e \in Entry, p \in Name \ {"dir"} : Meddle(a, e, p)
    BY <1>6
  <2>2. dest' = dest /\ Disturbs(e, p)
    BY <2>1 DEF Meddle, world
  <2> QED BY <2>2, DisturbsMore
<1>7. ASSUME \E e \in Entry, f \in File : CopyDrifts(e, f)
      PROVE  Goal
  <2>1. PICK e \in Entry, f \in File : CopyDrifts(e, f)
    BY <1>7
  <2>2. dest' = dest /\ Disturbs(e, f)
    BY <2>1 DEF CopyDrifts
  <2> QED BY <2>2, DisturbsMore DEF Name
<1>8. ASSUME NEW e \in Entry, NEW p \in {"dest", "dir", "link"}, Disturbs(e, p),
             NEW d, dest' = [dest EXCEPT ![e] = d], d = "tombpointer" => p = "dest"
      PROVE  Goal
  <2>1. /\ disturbed \subseteq disturbed'
        /\ item.entry = e => <<e, p>> \in disturbed'
    BY <1>1, <1>8, DisturbsMore DEF Name
  <2>2. dest \in [Entry -> {"ours", "empty", "pointer", "tombpointer", "foreign", "directory"}]
    BY DEF GcInv, TypeOK
  <2>3. IF E = e THEN dest'[E] = d ELSE dest'[E] = dest[E]
    BY <1>1, <1>8, <2>2
  <2> QED BY <1>8, <2>1, <2>3
<1>9. ASSUME \E e \in Entry : LinkByHand(e) PROVE Goal
  BY <1>8, <1>9 DEF LinkByHand
<1>10. ASSUME \E e \in Entry : WayBack(e) PROVE Goal
  BY <1>8, <1>10 DEF WayBack
<1>11. ASSUME \E e \in Entry : RescueParks(e) PROVE Goal
  BY <1>8, <1>11 DEF RescueParks
<1>12. ASSUME \E e \in Entry : Operates(e) PROVE Goal
  BY <1>1, <1>12 DEF Operates, Busy
<1> HIDE DEF Goal
<1>13. Goal
  BY <1>4, <1>5, <1>6, <1>7, <1>9, <1>10, <1>11, <1>12, <1>14, <1>15 DEF Next, Removes, Others
<1> QED BY <1>13 DEF Goal

\* A step that leaves what is in hand as it is leaves it judged, too.
LEMMA ResumedStays ==
    ASSUME GcInv, Resumed, [Next]_vars, item' = item, refs' = refs,
           phase' # phase => /\ phase' \in {"walked", "erasing"}
                             /\ phase = "loaded" \/ phase = "accepted"
                             /\ phase' = "erasing" => phase = "accepted"
    PROVE  Resumed'
<1> SUFFICES ASSUME item.area = "gc"
             PROVE  /\ phase' \in {"loaded", "walked", "accepted", "erasing"} =>
                          TombPointed(item.entry)'
                    /\ phase' \in {"accepted", "erasing"} => ~refs.pointed
  BY DEF Resumed, TombPointed
<1>1. Busy
  BY DEF GcInv, Hand, NoItem
<1> QED BY <1>1, DestinationChanges DEF Resumed, TombPointed

LEMMA ResumedKeeps == GcInv /\ Resumed /\ [Next]_vars => Resumed'
<1> SUFFICES ASSUME GcInv, Resumed, [Next]_vars PROVE Resumed'
  OBVIOUS
<1>1. ASSUME Forgets PROVE Resumed'
  BY <1>1 DEF Forgets, Resumed, NoItem
<1>2. CASE Finish \/ Refuse \/ Stop
  BY <1>1, <1>2 DEF Finish, Refuse, Stop
<1>3. CASE \E i \in asked : Typed(i)
  BY <1>3 DEF Typed, Resumed
<1>4. CASE Survey \/ Leaves \/ \E i \in asked : NotTyped(i)
  <2>1. item.area = "none"
    BY <1>4 DEF Survey, Leaves, NotTyped, Asking, GcInv, Hand, Busy, NoItem
  <2> QED BY <2>1, <1>4 DEF Survey, Leaves, NotTyped, Asking, judged, Resumed
<1>5. CASE LoadRefs
  BY <1>5 DEF LoadRefs, world, Resumed, TombPointed, References, Pointer
<1>6. CASE Accept
  <2>1. item.area = "gc" => TombPointed(item.entry) /\ ~refs.pointed
    BY <1>6 DEF Accept, Acceptable, Fit, Resumed
  <2> QED BY <2>1, <1>6 DEF Accept, world, judged, Resumed, TombPointed
<1>7. CASE Walk
  BY <1>7, ResumedStays DEF Walk
<1>8. CASE Bury \/ Resume
  BY <1>8, ResumedStays DEF Bury, Resume, judged
<1>9. CASE \/ UNCHANGED vars
           \/ \E p \in Name : Look(p) \/ Unlink(p)
           \/ Others
  <2>1. UNCHANGED <<item, refs, phase>>
    BY <1>9 DEF vars, judged, Look, Unlink, Others, Meddle, CopyDrifts, LinkByHand, WayBack,
                RescueParks, Operates, Recover
  <2> QED BY <2>1, ResumedStays
<1> QED BY <1>2, <1>3, <1>4, <1>5, <1>6, <1>7, <1>8, <1>9 DEF Next, Removes

\* Nothing a known link leads into is moved away from under it, or taken out of
\* an interrupted removal (D61).
THEOREM PointedAtIsKept == Spec => PointedAtStays
<1>1. ASSUME GcInv, [Next]_vars, NEW e \in Entry, tomb[e] = None, tomb'[e] # None
      PROVE  dest[e] # "pointer" \/ <<e, "dest">> \in disturbed
  <2>1. tomb' # tomb
    BY <1>1
  <2>2. ASSUME NEW q \in Name, Unlink(q) PROVE FALSE
    <3>1. phase = "erasing"
      BY <2>2 DEF Unlink, At
    <3>2. item.entry # e /\ tomb'[e] = tomb[e]
      BY <3>1, <1>1, <2>2, UnlinkLeaves DEF GcInv, Hand
    <3> QED BY <3>2, <1>1
  <2>3. ASSUME NEW a \in {"attic", "gc"}, NEW d \in Entry, NEW q \in Name \ {"dir"}, Meddle(a, d, q)
        PROVE  FALSE
    <3>1. a = "gc" /\ d = e
      BY <1>1, <2>3 DEF Meddle, GcInv, TypeOK
    <3> QED BY <1>1, <2>3, <3>1 DEF Meddle, Holds
  <2>4. ~Finish
    BY <1>1 DEF Finish, GcInv, TypeOK
  <2>5. CASE Bury
    <3>1. item.entry = e /\ phase = "accepted" /\ item.area = "attic"
      BY <1>1, <2>5 DEF Bury, GcInv, TypeOK
    <3> QED BY <3>1, <1>1 DEF GcInv, Judged, Pointed
  <2>6. ~UNCHANGED vars /\ ~Survey /\ ~Leaves /\ ~LoadRefs /\ ~Walk /\ ~Accept /\ ~Resume
        /\ ~Refuse /\ ~Stop /\ ~Recover
    BY <2>1 DEF vars, entries, Survey, Leaves, LoadRefs, Walk, Accept, Resume, Refuse, Stop, Recover
  <2>7. \A i \in asked : ~Typed(i) /\ ~NotTyped(i)
    BY <2>1 DEF entries, Typed, NotTyped
  <2>8. \A q \in Name : ~Look(q)
    BY <2>1 DEF entries, Look
  <2>9. /\ \A d \in Entry, f \in File : ~CopyDrifts(d, f)
        /\ \A d \in Entry : ~LinkByHand(d) /\ ~WayBack(d) /\ ~RescueParks(d) /\ ~Operates(d)
    BY <2>1 DEF entries, CopyDrifts, LinkByHand, WayBack, RescueParks, Operates
  <2> QED BY <1>1, <2>2, <2>3, <2>4, <2>5, <2>6, <2>7, <2>8, <2>9 DEF Next, Removes, Others
<1>2. ASSUME GcInv, Resumed, [Next]_vars, NEW p \in Name, Takes(p), item.area = "gc"
      PROVE  dest[item.entry] # "tombpointer" \/ ~Untouched("dest")
  <2>1. Unlink(p)
    BY <1>2, OnlyUnlinkTakes
  <2> QED BY <1>2, <2>1 DEF Unlink, At, Resumed, TombPointed, Untouched
<1>3. GcInv /\ Resumed /\ [Next]_vars =>
        [/\ \A e \in Entry :
               tomb[e] = None /\ tomb'[e] # None =>
                   dest[e] # "pointer" \/ <<e, "dest">> \in disturbed
         /\ \A p \in Name :
               Takes(p) /\ item.area = "gc" =>
                   dest[item.entry] # "tombpointer" \/ ~Untouched("dest")]_vars
  BY <1>1, <1>2
<1>4. Init => Resumed
  BY DEF Init, Resumed, NoItem
<1> QED BY <1>3, <1>4, ResumedKeeps, GcIsCareful, PTL DEF Spec, PointedAtStays

=============================================================================
