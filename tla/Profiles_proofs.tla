-------------------------- MODULE Profiles_proofs --------------------------
(***************************************************************************)
(* Proofs about the copies that profiles are made of, for any directories, *)
(* names, commands, deaths and changes by other programs: a copy that is   *)
(* accepted is the directory as it was at one moment, only what was copied *)
(* is declared and displaced, and what is reported as drift is what others *)
(* have changed (D80): the history variables `before` and `excused`        *)
(* account for every difference between the record and the profile.        *)
(*                                                                         *)
(* Source: src/src/cli/capture.rs, src/src/cli/adopt.rs,                   *)
(* src/src/cli/switch.rs, src/src/verify.rs.                               *)
(***************************************************************************)
EXTENDS Profiles, TLAPS

-----------------------------------------------------------------------------
(***************************************************************************)
(* Trees                                                                   *)
(***************************************************************************)

\* A tree is a function from names to files.
LEMMA TreeElim ==
    ASSUME NEW t \in Tree
    PROVE  /\ DOMAIN t \subseteq Name
           /\ t \in [DOMAIN t -> File]
           /\ \A n \in DOMAIN t : t[n] \in File
<1>1. PICK N \in SUBSET Name : t \in [N -> File]
  BY Zenon DEF Tree
<1> QED BY <1>1

\* A function from names to files is a tree.
LEMMA TreeIntro ==
    ASSUME NEW N \in SUBSET Name, NEW t \in [N -> File]
    PROVE  t \in Tree
  BY Zenon DEF Tree

\* Every file is a content and a time.
LEMMA FileIs ==
    ASSUME NEW f \in File
    PROVE  /\ f.at \in Int /\ 0 <= f.at
           /\ f.text \in Text
           /\ f = [text |-> f.text, at |-> f.at]
  BY DEF File

\* What Put and Without do to a tree.
LEMMA PutTree ==
    ASSUME NEW t \in Tree, NEW n \in Name, NEW f \in File
    PROVE  /\ Put(t, n, f) \in Tree
           /\ DOMAIN Put(t, n, f) = DOMAIN t \union {n}
           /\ Put(t, n, f)[n] = f
           /\ \A m \in DOMAIN t \ {n} : Put(t, n, f)[m] = t[m]
<1>1. /\ DOMAIN t \union {n} \in SUBSET Name
      /\ Put(t, n, f) \in [DOMAIN t \union {n} -> File]
      /\ DOMAIN Put(t, n, f) = DOMAIN t \union {n}
      /\ Put(t, n, f)[n] = f
      /\ \A m \in DOMAIN t \ {n} : Put(t, n, f)[m] = t[m]
  BY TreeElim DEF Put
<1> QED BY <1>1, TreeIntro

\* What Without does to a tree.
LEMMA WithoutTree ==
    ASSUME NEW t \in Tree, NEW n \in Name
    PROVE  /\ Without(t, n) \in Tree
           /\ DOMAIN Without(t, n) = DOMAIN t \ {n}
           /\ \A m \in DOMAIN t \ {n} : Without(t, n)[m] = t[m]
<1>1. /\ DOMAIN t \ {n} \in SUBSET Name
      /\ Without(t, n) \in [DOMAIN t \ {n} -> File]
      /\ DOMAIN Without(t, n) = DOMAIN t \ {n}
      /\ \A m \in DOMAIN t \ {n} : Without(t, n)[m] = t[m]
  BY TreeElim DEF Without
<1> QED BY <1>1, TreeIntro

\* The empty directory is a tree.
LEMMA EmptyTree == Empty \in Tree /\ DOMAIN Empty = {}
<1>1. Empty \in [{} -> File] /\ {} \in SUBSET Name /\ DOMAIN Empty = {}
  BY DEF Empty
<1> QED BY <1>1, TreeIntro

\* A payload has a tree for each of its directories.
LEMMA PayloadElim ==
    ASSUME NEW p \in Payload
    PROVE  DOMAIN p \subseteq Dir /\ p \in [DOMAIN p -> Tree]
<1>1. PICK D \in SUBSET Dir : p \in [D -> Tree]
  BY Zenon DEF Payload
<1> QED BY <1>1

\* Trees for some of the directories are a payload.
LEMMA PayloadIntro ==
    ASSUME NEW D \in SUBSET Dir, NEW p \in [D -> Tree]
    PROVE  p \in Payload
  BY Zenon DEF Payload

\* A directory added to a payload.
LEMMA PutPayload ==
    ASSUME NEW p \in Payload, NEW d \in Dir, NEW t \in Tree
    PROVE  /\ Put(p, d, t) \in Payload
           /\ DOMAIN Put(p, d, t) = DOMAIN p \union {d}
           /\ Put(p, d, t)[d] = t
           /\ \A e \in DOMAIN p \ {d} : Put(p, d, t)[e] = p[e]
<1>1. /\ DOMAIN p \union {d} \in SUBSET Dir
      /\ Put(p, d, t) \in [DOMAIN p \union {d} -> Tree]
      /\ DOMAIN Put(p, d, t) = DOMAIN p \union {d}
      /\ Put(p, d, t)[d] = t
      /\ \A e \in DOMAIN p \ {d} : Put(p, d, t)[e] = p[e]
  BY PayloadElim DEF Put
<1> QED BY <1>1, PayloadIntro

\* A directory of a payload with other files.
LEMMA ReplacePayload ==
    ASSUME NEW p \in Payload, NEW d \in DOMAIN p, NEW t \in Tree
    PROVE  /\ [p EXCEPT ![d] = t] \in Payload
           /\ DOMAIN [p EXCEPT ![d] = t] = DOMAIN p
           /\ [p EXCEPT ![d] = t][d] = t
           /\ \A e \in DOMAIN p \ {d} : [p EXCEPT ![d] = t][e] = p[e]
<1>1. /\ DOMAIN p \in SUBSET Dir
      /\ [p EXCEPT ![d] = t] \in [DOMAIN p -> Tree]
  BY PayloadElim
<1> QED BY <1>1, PayloadIntro

-----------------------------------------------------------------------------
(***************************************************************************)
(* Types, as far as the proofs need them                                   *)
(***************************************************************************)

LiveType == [is : {"dir", "link"}, ino : Int, files : Tree]

ProfileType ==
    [there : BOOLEAN, root : Dir \union {Nowhere}, volatile : SUBSET Name,
     payload : Payload, toml : [declares : SUBSET Dir, notes : Int]]

WalkType ==
    [at : Nat \ {0}, listed : SUBSET Group, names : SUBSET Name, seen : -1..MaxEdits,
     out : Tree]

CaptureJob ==
    [kind : {"capture"}, from : SUBSET Dir, todo : SUBSET Dir, dir : Dir \union {Nowhere}]
InitJob == [kind : {"init"}, dir : Dir, volatile : SUBSET Name]
AdoptJob == [kind : {"adopt"}, dir : Dir, ino : Int]

\* What each step has in its memory.
JobTypes ==
    /\ step = "next" => job \in CaptureJob
    /\ step = "copy" => job \in CaptureJob \union InitJob \union AdoptJob /\ job.dir \in Dir
    /\ step = "compare" => job \in CaptureJob \union AdoptJob /\ job.dir \in Dir
    /\ step = "appear" => job \in CaptureJob \union InitJob
    /\ step = "register" => job \in InitJob
    /\ step \in {"declare", "journal", "exchange"} => job \in AdoptJob
    /\ step = "exchange" => journal # NoJournal

Types ==
    /\ live \in [Dir -> LiveType]
    /\ profile \in ProfileType
    /\ staging \in ProfileType
    /\ accepted \subseteq Dir
    /\ edits \in Nat
    /\ InWalk => walk \in WalkType
    /\ step = "compare" => image \in Tree
    /\ JobTypes

\* The values a walk and a profile begin with, and the order of the names.
LEMMA ConstantTypes ==
    /\ NoProfile \in ProfileType
    /\ NewWalk \in WalkType
    /\ NewWalk.out = Empty /\ NewWalk.seen = Unseen /\ NewWalk.listed = {}
    /\ NewWalk.names = {} /\ NewWalk.at = 1
    /\ Len(Order) \in Nat /\ \A i \in 1..Len(Order) : Order[i] \in Name /\ In[Order[i]] \in Group
<1>1. Empty \in [{} -> Tree] /\ {} \in SUBSET Dir
  BY DEF Empty
<1>2. Empty \in Payload
  BY <1>1, PayloadIntro
<1>3. NoProfile \in ProfileType
  BY <1>2 DEF NoProfile, ProfileType, NoToml
<1>4. NewWalk \in WalkType
  BY EmptyTree, BoundsAssumption DEF NewWalk, WalkType, Unseen
<1>5. /\ Len(Order) \in Nat /\ \A i \in 1..Len(Order) : Order[i] \in Name
  BY SetsAssumption
<1>6. \A i \in 1..Len(Order) : In[Order[i]] \in Group
  BY <1>5 DEF Group
<1> QED BY <1>3, <1>4, <1>5, <1>6 DEF NewWalk

\* The directory that is walked over, and the copy, are trees.
LEMMA SourceType ==
    ASSUME Types, InWalk
    PROVE  /\ job.dir \in Dir
           /\ Source \in Tree /\ DOMAIN Source \subseteq Name
           /\ \A n \in DOMAIN Source : Source[n] \in File
           /\ walk.at \in Nat \ {0} /\ walk.listed \subseteq Group /\ walk.names \subseteq Name
           /\ walk.seen \in Int /\ walk.seen \in -1..MaxEdits /\ walk.out \in Tree
           /\ walk = [at |-> walk.at, listed |-> walk.listed, names |-> walk.names,
                      seen |-> walk.seen, out |-> walk.out]
<1>1. job.dir \in Dir /\ walk \in WalkType
  BY DEF Types, JobTypes, InWalk
<1>2. Source \in Tree
  BY <1>1 DEF Types, LiveType, Source
<1> QED BY <1>1, <1>2, TreeElim, BoundsAssumption DEF WalkType

\* A walk that is not done is at a name.
LEMMA WalkingHere ==
    ASSUME Types, Walking
    PROVE  walk.at \in 1..Len(Order) /\ Here \in Name /\ In[Here] \in Group
  BY ConstantTypes, SourceType DEF Walking, Here

-----------------------------------------------------------------------------
(***************************************************************************)
(* What is declared                                                        *)
(***************************************************************************)

\* The directory a capture is at, while it is not accepted yet.
AtWork == IF InWalk THEN {job.dir} ELSE {}

Capturing ==
    step \in {"next", "copy", "compare", "appear"} /\ job.kind = "capture" =>
        /\ staging.root = Nowhere
        /\ job.from \ (job.todo \union AtWork) \subseteq accepted
        /\ job.from \ job.todo \subseteq DOMAIN staging.payload
        /\ InWalk => job.dir \in DOMAIN staging.payload
        /\ step = "appear" => job.todo = {} /\ staging.toml.declares = job.from

Adopting ==
    step \in {"copy", "compare", "declare", "journal", "exchange"} /\ job.kind = "adopt" =>
        /\ profile.there /\ ~ByReference
        /\ job.dir \in DOMAIN profile.payload
        /\ ~InWalk => job.dir \in accepted
        /\ step \in {"journal", "exchange"} => job.dir \in profile.toml.declares

DeclaredInv ==
    /\ DeclaredIsCopied
    /\ ~profile.there => DOMAIN attic = {} /\ ~registered
    /\ step = "register" => profile.there /\ ByReference
    /\ Capturing
    /\ Adopting

-----------------------------------------------------------------------------
(***************************************************************************)
(* One moment.  Every write takes a new time, so a file that was read      *)
(* after a later write than the look that gave its time is never again     *)
(* found with that time.                                                   *)
(***************************************************************************)

\* The name has been written to, or has gone, since a file of that time.
Newer(n, at) == n \notin DOMAIN Source \/ Source[n].at > at

\* No file has a time that is still to come.
Timely ==
    /\ \A d \in Dir : \A n \in DOMAIN live[d].files : live[d].files[n].at <= edits
    /\ InWalk => walk.seen <= edits /\ \A n \in DOMAIN walk.out : walk.out[n].at <= edits
    /\ step = "compare" => \A n \in DOMAIN Copy : Copy[n].at <= edits

\* The copy that is being made: what it holds is what the directory holds, or
\* has been overtaken.
Making ==
    step = "copy" =>
        /\ job.kind # "init" => Copy = walk.out
        /\ \A n \in DOMAIN walk.out :
              \/ n \in DOMAIN Source /\ Source[n] = walk.out[n]
              \/ Newer(n, walk.out[n].at)
        /\ walk.seen # Unseen => Newer(Here, walk.seen) \/ Source[Here].at = walk.seen

\* The comparison: what was overtaken before the copy's end is found newer
\* than it was copied.
Overtaken(n) ==
    /\ Newer(n, Copy[n].at)
    /\ n \in DOMAIN walk.out => walk.out[n].at > Copy[n].at
    /\ walk.seen # Unseen /\ Here = n => walk.seen > Copy[n].at

Comparing ==
    step = "compare" =>
        /\ Copy \in Tree
        /\ \A n \in DOMAIN Copy : (n \in DOMAIN image /\ image[n] = Copy[n]) \/ Overtaken(n)
        /\ \A n \in Name \ moved : n \in DOMAIN image <=> n \in DOMAIN Source
        /\ \A n \in DOMAIN image \ moved : In[n] \in walk.listed => n \in walk.names
        /\ \A i \in 1..Len(Order) :
              i < walk.at /\ Order[i] \in DOMAIN image \ moved => Order[i] \in DOMAIN walk.out

MomentInv == Timely /\ Making /\ Comparing

-----------------------------------------------------------------------------
(***************************************************************************)
(* Changes by others                                                       *)
(***************************************************************************)

ProfilesInv == Types /\ DeclaredInv /\ MomentInv

\* What a change in a live directory does to it.
LEMMA EditLiveDoes ==
    ASSUME Types, NEW d \in Dir, NEW n \in Name, EditLive(d, n)
    PROVE  /\ live'[d].files \in Tree
           /\ \A m \in Name \ {n} : /\ m \in DOMAIN live'[d].files <=> m \in DOMAIN live[d].files
                                    /\ m \in DOMAIN live[d].files =>
                                          live'[d].files[m] = live[d].files[m]
           /\ n \in DOMAIN live'[d].files => live'[d].files[n].at = edits + 1
           /\ live'[d].is = live[d].is /\ live'[d].ino = live[d].ino
           /\ live' \in [Dir -> LiveType]
           /\ \A e \in Dir \ {d} : live'[e] = live[e]
           /\ edits' = edits + 1 /\ edits' \in Nat
           /\ moved' = moved \union (IF InWalk /\ job.dir = d THEN {n} ELSE {})
           /\ UNCHANGED <<attic, staging, profile, registered, journal, step, job, walk,
                          accepted, image>>
<1>. DEFINE old == live[d].files
<1>1. PICK files \in Edited(old, n) : live' = [live EXCEPT ![d].files = files]
  BY Zenon DEF EditLive
<1>2. old \in Tree /\ edits \in Nat /\ edits < MaxEdits /\ MaxEdits \in Nat
      /\ edits' = edits + 1
  BY BoundsAssumption DEF Types, LiveType, EditLive, Edits
<1>3. \A t \in Text : [text |-> t, at |-> edits + 1] \in File
  BY <1>2 DEF File
<1>4. /\ files \in Tree
      /\ \A m \in Name \ {n} : (m \in DOMAIN files <=> m \in DOMAIN old)
                               /\ (m \in DOMAIN old => files[m] = old[m])
      /\ n \in DOMAIN files => files[n].at = edits + 1
  <2>1. CASE \E t \in Text : files = Put(old, n, [text |-> t, at |-> edits + 1])
    <3>1. PICK f \in File : files = Put(old, n, f) /\ f.at = edits + 1
      BY <1>3, <2>1
    <3>2. /\ Put(old, n, f) \in Tree
          /\ DOMAIN Put(old, n, f) = DOMAIN old \union {n}
          /\ Put(old, n, f)[n] = f
          /\ \A m \in DOMAIN old \ {n} : Put(old, n, f)[m] = old[m]
      BY <1>2, PutTree
    <3> QED BY <1>2, <3>1, <3>2
  <2>2. CASE files = Without(old, n)
    <3>1. /\ Without(old, n) \in Tree
          /\ DOMAIN Without(old, n) = DOMAIN old \ {n}
          /\ \A m \in DOMAIN old \ {n} : Without(old, n)[m] = old[m]
      BY <1>2, WithoutTree
    <3> QED BY <2>2, <3>1
  <2>3. \/ files \in {Put(old, n, [text |-> t, at |-> edits + 1]) : t \in Text}
        \/ files = Without(old, n)
    BY <1>1, Zenon DEF Edited, Written
  <2> QED BY <2>1, <2>2, <2>3
<1>5. /\ live'[d].files = files /\ live'[d].is = live[d].is /\ live'[d].ino = live[d].ino
      /\ \A e \in Dir \ {d} : live'[e] = live[e]
      /\ live' \in [Dir -> LiveType]
  BY <1>1, <1>4 DEF Types, LiveType
<1> QED BY <1>2, <1>4, <1>5 DEF EditLive, Edits, process

\* A program that writes into a live directory overtakes what was copied of it.
LEMMA EditLiveStep ==
    ASSUME ProfilesInv, NEW d \in Dir, NEW n \in Name, EditLive(d, n)
    PROVE  ProfilesInv'
<1>. USE DEF ProfilesInv
<1>1. Types'
  BY EditLiveDoes DEF Types, JobTypes, InWalk
<1>2. DeclaredInv'
  <2>1. \A e \in Dir : live'[e].ino = live[e].ino
    BY EditLiveDoes
  <2>2. step = "exchange" => job.dir \in Dir
    BY DEF Types, JobTypes, AdoptJob
  <2> QED BY <2>1, <2>2, EditLiveDoes
          DEF DeclaredInv, DeclaredIsCopied, ByReference, Capturing, Adopting, InWalk, AtWork
<1>3. Timely'
  <2>1. /\ edits' = edits + 1 /\ edits \in Int
        /\ UNCHANGED <<step, job, walk, staging, profile>>
    BY EditLiveDoes DEF Types
  <2>a. \A e \in Dir : live'[e].files \in Tree
    BY EditLiveDoes DEF LiveType
  <2>b. \A t \in Tree : \A m \in DOMAIN t : m \in Name /\ t[m].at \in Int
    BY TreeElim, FileIs
  <2>2. \A e \in Dir : \A m \in DOMAIN live'[e].files :
           /\ m \in Name
           /\ live'[e].files[m].at \in Int
    BY <2>a, <2>b
  <2>3. \A e \in Dir : \A m \in DOMAIN live'[e].files :
           \/ live'[e].files[m].at = edits + 1
           \/ m \in DOMAIN live[e].files /\ live'[e].files[m].at = live[e].files[m].at
    BY <2>2, EditLiveDoes
  <2>4. \A e \in Dir : \A m \in DOMAIN live'[e].files : live'[e].files[m].at <= edits'
    BY <2>1, <2>2, <2>3 DEF MomentInv, Timely
  <2>5. InWalk => walk.seen \in Int /\ \A m \in DOMAIN walk.out : walk.out[m].at \in Int
    BY SourceType, TreeElim, FileIs
  <2>6. step = "compare" => \A m \in DOMAIN Copy : Copy[m].at \in Int
    BY TreeElim, FileIs DEF MomentInv, Comparing
  <2> QED BY <2>1, <2>4, <2>5, <2>6 DEF MomentInv, Timely, Copy, InWalk
<1>4. CASE InWalk /\ job.dir = d
  <2>1. /\ UNCHANGED <<step, job, walk, staging, profile, image>>
        /\ moved' = moved \union {n} /\ edits' = edits + 1 /\ edits \in Int
    BY <1>4, EditLiveDoes DEF Types
  <2>2. /\ Source \in Tree /\ Source' = live'[d].files
        /\ \A m \in Name \ {n} : m \in DOMAIN Source' <=> m \in DOMAIN Source
        /\ \A m \in DOMAIN Source \ {n} : m \in Name /\ Source'[m] = Source[m]
        /\ n \in DOMAIN Source' => Source'[n].at = edits + 1
    BY <1>4, <2>1, EditLiveDoes, SourceType DEF Source
  <2>3. \A m \in Name : \A at \in Int : Newer(m, at) /\ at <= edits => Newer(m, at)'
    BY <2>1, <2>2 DEF Newer
  <2>4. \A at \in Int : at <= edits => Newer(n, at)'
    BY <2>1, <2>2 DEF Newer
  <2>5. walk.seen \in Int /\ walk.out \in Tree
    BY <1>4, SourceType
  <2>6. \A m \in DOMAIN walk.out : m \in Name /\ walk.out[m].at \in Int
    BY <2>5, TreeElim, FileIs
  <2>7. Making'
    <3> SUFFICES ASSUME step = "copy" PROVE Making'
      BY <2>1 DEF Making
    <3>1. \A m \in DOMAIN walk.out :
             \/ m \in DOMAIN Source' /\ Source'[m] = walk.out[m]
             \/ Newer(m, walk.out[m].at)'
      <4> SUFFICES ASSUME NEW m \in DOMAIN walk.out
                   PROVE  \/ m \in DOMAIN Source' /\ Source'[m] = walk.out[m]
                          \/ Newer(m, walk.out[m].at)'
        OBVIOUS
      <4>1. walk.out[m].at <= edits /\ m \in Name /\ walk.out[m].at \in Int
        BY <1>4, <2>6 DEF MomentInv, Timely
      <4>2. CASE m = n
        BY <2>1, <2>4, <4>1, <4>2
      <4>3. CASE m # n
        <5>1. CASE Newer(m, walk.out[m].at)
          BY <2>1, <2>3, <4>1, <5>1
        <5>2. CASE m \in DOMAIN Source /\ Source[m] = walk.out[m]
          BY <2>2, <4>1, <4>3, <5>2
        <5> QED BY <5>1, <5>2 DEF MomentInv, Making
      <4> QED BY <4>2, <4>3
    <3>2. walk.seen # Unseen => Newer(Here, walk.seen)' \/ Source'[Here].at = walk.seen
      <4> SUFFICES ASSUME walk.seen # Unseen
                   PROVE  Newer(Here, walk.seen)' \/ Source'[Here].at = walk.seen
        OBVIOUS
      <4>1. walk.seen <= edits /\ Here' = Here
        BY <1>4, <2>1 DEF MomentInv, Timely, Here
      <4>2. CASE Here = n
        BY <2>1, <2>4, <2>5, <4>1, <4>2
      <4>3. CASE Here # n /\ Here \in DOMAIN Source /\ Source[Here].at = walk.seen
        BY <2>2, <4>3
      <4>4. CASE Here # n /\ Here \in DOMAIN Source /\ Newer(Here, walk.seen)
        BY <2>1, <2>2, <4>1, <4>4 DEF Newer
      <4>5. CASE Here # n /\ Here \notin DOMAIN Source
        <5>1. Here \notin DOMAIN Source'
          BY <1>1, <2>1, <2>2, <4>5, <1>4, EditLiveDoes, TreeElim
        <5> QED BY <2>1, <4>1, <5>1 DEF Newer
      <4> QED BY <4>2, <4>3, <4>4, <4>5 DEF MomentInv, Making, Newer
    <3> QED BY <2>1, <3>1, <3>2 DEF MomentInv, Making, Copy, Here
  <2>8. Comparing'
    <3> SUFFICES ASSUME step = "compare" PROVE Comparing'
      BY <2>1 DEF Comparing
    <3>1. Copy' = Copy /\ Copy \in Tree
      BY <2>1 DEF Copy, MomentInv, Comparing
    <3>2. \A m \in DOMAIN Copy : Overtaken(m) => Overtaken(m)'
      <4> SUFFICES ASSUME NEW m \in DOMAIN Copy, Overtaken(m) PROVE Overtaken(m)'
        OBVIOUS
      <4>1. m \in Name /\ Copy[m].at \in Int /\ Copy[m].at <= edits
        BY <3>1, TreeElim, FileIs DEF MomentInv, Timely
      <4>2. Newer(m, Copy[m].at)'
        BY <2>3, <3>1, <4>1 DEF Overtaken
      <4> QED BY <2>1, <3>1, <4>2 DEF Overtaken, Here
    <3>3. \A m \in Name \ moved' : m \in DOMAIN image <=> m \in DOMAIN Source'
      BY <2>1, <2>2 DEF MomentInv, Comparing
    <3> QED BY <2>1, <3>1, <3>2, <3>3 DEF MomentInv, Comparing
  <2> QED BY <1>1, <1>2, <1>3, <2>7, <2>8 DEF MomentInv
<1>5. CASE InWalk /\ job.dir # d
  <2>1. Source' = Source /\ moved' = moved
    BY <1>5, EditLiveDoes, SourceType DEF Source
  <2> QED BY <2>1, <1>1, <1>2, <1>3, <1>5, EditLiveDoes
          DEF MomentInv, Making, Comparing, Overtaken, Newer, Copy, Here
<1>6. CASE ~InWalk
  BY <1>1, <1>2, <1>3, <1>6, EditLiveDoes DEF MomentInv, Making, Comparing, InWalk
<1> QED BY <1>4, <1>5, <1>6

\* A change that no walk sees.
LEMMA QuietMoment ==
    ASSUME Types, MomentInv, \A d \in Dir : live'[d].files = live[d].files,
           edits' \in Nat, edits <= edits', UNCHANGED <<step, job, walk, image, moved>>,
           InWalk /\ job.kind # "init" => Copy' = Copy
    PROVE  MomentInv'
<1>1. \A t \in Tree : \A m \in DOMAIN t : m \in Name /\ t[m].at \in Int
  BY TreeElim, FileIs
<1>2. /\ edits \in Int /\ edits' \in Int
      /\ \A d \in Dir : live[d].files \in Tree
      /\ InWalk => walk.seen \in Int /\ walk.out \in Tree /\ Source' = Source /\ InWalk'
      /\ InWalk' => InWalk
  BY SourceType DEF Types, LiveType, InWalk, Source
<1>3. step = "compare" => InWalk /\ job.kind # "init" /\ Copy \in Tree /\ Copy' = Copy
  BY DEF MomentInv, Comparing, Types, JobTypes, CaptureJob, AdoptJob, InWalk
<1>4. Timely'
  <2>1. \A d \in Dir : \A n \in DOMAIN live'[d].files : live'[d].files[n].at <= edits'
    BY <1>1, <1>2 DEF MomentInv, Timely
  <2>2. InWalk' => walk'.seen <= edits' /\ \A n \in DOMAIN walk'.out : walk'.out[n].at <= edits'
    BY <1>1, <1>2 DEF MomentInv, Timely
  <2>3. step' = "compare" => \A n \in DOMAIN Copy' : Copy'[n].at <= edits'
    BY <1>1, <1>2, <1>3 DEF MomentInv, Timely
  <2> QED BY <2>1, <2>2, <2>3 DEF Timely
<1>5. Making'
  BY <1>2 DEF MomentInv, Making, Newer, Here, InWalk
<1>6. Comparing'
  BY <1>2, <1>3 DEF MomentInv, Comparing, Overtaken, Newer, Here
<1> QED BY <1>4, <1>5, <1>6 DEF MomentInv

\* No walk is under way any more.
LEMMA IdleMoment ==
    ASSUME MomentInv, ~InWalk', edits' = edits,
           \A d \in Dir : live'[d].files = live[d].files \/ live'[d].files = Empty
    PROVE  MomentInv'
<1>1. \A d \in Dir : \A n \in DOMAIN live'[d].files : live'[d].files[n].at <= edits'
  BY EmptyTree DEF MomentInv, Timely
<1>2. step' # "copy" /\ step' # "compare"
  BY DEF InWalk
<1> QED BY <1>1, <1>2 DEF MomentInv, Timely, Making, Comparing, InWalk

\* A copy begins.
LEMMA FreshMoment ==
    ASSUME Types, MomentInv, step' = "copy", walk' = NewWalk, UNCHANGED <<live, edits>>,
           job'.kind # "init" => Copy' = Empty
    PROVE  MomentInv'
<1>1. edits \in Nat
  BY DEF Types
<1>2. Timely'
  BY <1>1, ConstantTypes, EmptyTree DEF MomentInv, Timely, InWalk, Unseen
<1>3. Making'
  BY ConstantTypes, EmptyTree DEF Making
<1> QED BY <1>2, <1>3 DEF MomentInv, Comparing

\* A change in the profile is never to the copy that is being made.
LEMMA EditProfileStep ==
    ASSUME ProfilesInv, NEW d \in Dir, NEW n \in Name, EditProfile(d, n)
    PROVE  ProfilesInv'
<1>. USE DEF ProfilesInv
<1>. DEFINE old == profile.payload[d]
<1>1. PICK files \in Edited(old, n) : profile' = [profile EXCEPT !.payload[d] = files]
  BY Zenon DEF EditProfile
<1>2. /\ edits \in Nat /\ edits < MaxEdits /\ MaxEdits \in Nat /\ edits' = edits + 1
      /\ profile \in ProfileType /\ d \in DOMAIN profile.payload
      /\ ~(InWalk /\ job.dir = d) /\ profile.there
      /\ UNCHANGED <<live, attic, staging, registered, journal, step, job, walk, accepted,
                     image, moved>>
  BY BoundsAssumption DEF Types, EditProfile, Edits, process
<1>3. profile.payload \in Payload
  BY <1>2 DEF ProfileType
<1>4. old \in Tree
  BY <1>2, <1>3, PayloadElim
<1>5. \A t \in Text : [text |-> t, at |-> edits + 1] \in File
  BY <1>2 DEF File
<1>6. files \in Tree
  <2>1. CASE \E t \in Text : files = Put(old, n, [text |-> t, at |-> edits + 1])
    <3>1. PICK f \in File : files = Put(old, n, f)
      BY <1>5, <2>1
    <3> QED BY <1>4, <3>1, PutTree
  <2>2. CASE files = Without(old, n)
    BY <1>4, <2>2, WithoutTree
  <2>3. \/ files \in {Put(old, n, [text |-> t, at |-> edits + 1]) : t \in Text}
        \/ files = Without(old, n)
    BY <1>1, Zenon DEF Edited, Written
  <2> QED BY <2>1, <2>2, <2>3
<1>7. /\ profile'.payload \in Payload
      /\ DOMAIN profile'.payload = DOMAIN profile.payload
      /\ \A e \in DOMAIN profile.payload \ {d} : profile'.payload[e] = profile.payload[e]
  <2>1. profile'.payload = [profile.payload EXCEPT ![d] = files]
    BY <1>1, <1>2 DEF ProfileType
  <2> QED BY <1>2, <1>3, <1>6, <2>1, ReplacePayload
<1>8. /\ profile' \in ProfileType
      /\ UNCHANGED <<profile.there, profile.root, profile.toml>>
  BY <1>1, <1>2, <1>7 DEF ProfileType
<1>9. Types'
  BY <1>2, <1>8 DEF Types, JobTypes, InWalk
<1>10. DeclaredInv'
  BY <1>2, <1>7, <1>8 DEF DeclaredInv, DeclaredIsCopied, ByReference, Capturing, Adopting, InWalk, AtWork
<1>11. InWalk /\ job.kind # "init" => Copy' = Copy
  BY <1>2, <1>7 DEF DeclaredInv, Adopting, Types, JobTypes, CaptureJob, InitJob, AdoptJob, InWalk, Copy
<1> QED BY <1>2, <1>9, <1>10, <1>11, QuietMoment

\* The user's own changes to profile.toml keep what it declares.
LEMMA EditTomlStep ==
    ASSUME ProfilesInv, EditToml
    PROVE  ProfilesInv'
<1>. USE DEF ProfilesInv
<1>1. /\ edits \in Nat /\ edits' = edits + 1
      /\ profile \in ProfileType
      /\ UNCHANGED <<live, attic, staging, registered, journal, step, job, walk, accepted,
                     image, moved>>
  BY DEF Types, EditToml, Edits, process
<1>2. /\ profile' \in ProfileType
      /\ UNCHANGED <<profile.there, profile.root, profile.payload, profile.toml.declares>>
  <2>1. /\ profile' = [profile EXCEPT !.toml = [profile.toml EXCEPT !.notes = edits + 1]]
        /\ profile.toml \in [declares : SUBSET Dir, notes : Int]
    BY <1>1 DEF ProfileType, EditToml
  <2>2. [profile.toml EXCEPT !.notes = edits + 1] = [declares |-> profile.toml.declares, notes |-> edits + 1]
    BY <2>1
  <2> QED BY <1>1, <2>1, <2>2 DEF ProfileType
<1>3. Types'
  BY <1>1, <1>2 DEF Types, JobTypes, InWalk
<1>4. DeclaredInv'
  BY <1>1, <1>2 DEF DeclaredInv, DeclaredIsCopied, ByReference, Capturing, Adopting, InWalk, AtWork
<1>5. Copy' = Copy
  BY <1>1, <1>2 DEF Copy
<1> QED BY <1>1, <1>3, <1>4, <1>5, QuietMoment

\* A directory is replaced by another with the same files: no walk notices, and
\* an adopt with its journal written is past it.
LEMMA ReplaceStep ==
    ASSUME ProfilesInv, NEW d \in Dir, Replace(d)
    PROVE  ProfilesInv'
<1>. USE DEF ProfilesInv
<1>1. /\ edits \in Nat /\ edits' = edits + 1
      /\ live' \in [Dir -> LiveType]
      /\ \A e \in Dir : live'[e].files = live[e].files /\ live'[e].is = live[e].is
      /\ journal = NoJournal
      /\ UNCHANGED <<attic, staging, profile, registered, journal, step, job, walk, accepted,
                     image, moved>>
  BY DEF Types, LiveType, Replace, Edits, process
<1>2. step # "exchange"
  BY <1>1 DEF Types, JobTypes
<1>3. Types'
  BY <1>1 DEF Types, JobTypes, InWalk
<1>4. DeclaredInv'
  BY <1>1, <1>2 DEF DeclaredInv, DeclaredIsCopied, ByReference, Capturing, Adopting, InWalk, AtWork
<1>5. Copy' = Copy
  BY <1>1 DEF Copy
<1> QED BY <1>1, <1>3, <1>4, <1>5, QuietMoment

-----------------------------------------------------------------------------
(***************************************************************************)
(* The walk                                                                *)
(***************************************************************************)

\* A step of the walk that writes nothing.
LEMMA WalkOnly ==
    ASSUME ProfilesInv, Walking, walk' \in WalkType,
           UNCHANGED <<step, job, disk, copying, drifting, bounds>>
    PROVE  Types' /\ DeclaredInv'
<1>1. Types'
  BY DEF ProfilesInv, Types, JobTypes, InWalk, disk, copying, bounds
<1>2. DeclaredInv'
  BY DEF ProfilesInv, DeclaredInv, DeclaredIsCopied, ByReference, Capturing, Adopting, InWalk, AtWork,
         disk, copying, bounds
<1> QED BY <1>1, <1>2

\* What is listed late still has every name that is not touched any more.
LEMMA ListStep ==
    ASSUME ProfilesInv, List
    PROVE  ProfilesInv'
<1>. USE DEF ProfilesInv
<1>. DEFINE found == {n \in DOMAIN Source : In[n] = In[Here]}
<1>1. /\ Walking /\ InWalk
      /\ In[Here] \notin walk.listed
      /\ walk' = [walk EXCEPT !.listed = @ \union {In[Here]}, !.names = @ \union found]
      /\ UNCHANGED <<step, job, disk, copying, drifting, bounds>>
  BY Zenon DEF List, Goes, Walking
<1>2. /\ walk'.at = walk.at /\ walk'.seen = walk.seen /\ walk'.out = walk.out
      /\ walk'.listed = walk.listed \union {In[Here]}
      /\ walk'.names = walk.names \union found
      /\ walk' \in WalkType
  BY <1>1, SourceType, WalkingHere DEF WalkType
<1>3. Types' /\ DeclaredInv'
  BY <1>1, <1>2, WalkOnly
<1>4. Source' = Source /\ Here' = Here /\ Copy' = Copy
  BY <1>1, <1>2 DEF Source, Here, Copy, disk
<1>5. Timely' /\ Making'
  BY <1>1, <1>2, <1>4 DEF MomentInv, Timely, Making, Newer, InWalk, disk, bounds
<1>6. ASSUME step = "compare" PROVE Comparing'
  <2>1. \A n \in DOMAIN Copy' : (n \in DOMAIN image' /\ image'[n] = Copy'[n]) \/ Overtaken(n)'
    BY <1>1, <1>2, <1>4, <1>6 DEF MomentInv, Comparing, Overtaken, Newer, copying
  <2>2. \A n \in DOMAIN image \ moved : In[n] \in walk'.listed => n \in walk'.names
    BY <1>2, <1>6, TreeElim DEF MomentInv, Comparing, Types
  <2> QED BY <1>1, <1>2, <1>4, <1>6, <2>1, <2>2 DEF MomentInv, Comparing, copying
<1> QED BY <1>1, <1>3, <1>5, <1>6 DEF MomentInv, Comparing

\* A look at a name: its time, or that it is not there.
LEMMA LookStep ==
    ASSUME ProfilesInv, Look
    PROVE  ProfilesInv'
<1>. USE DEF ProfilesInv
<1>1. /\ Walking /\ InWalk
      /\ In[Here] \in walk.listed
      /\ walk.seen = Unseen
      /\ UNCHANGED <<step, job, disk, copying, drifting, bounds>>
  BY Zenon DEF Look, Goes, Walking
<1>2. Copy' = Copy /\ Source' = Source
  BY <1>1 DEF Copy, Source, disk
<1>3. CASE /\ Here \in walk.names \intersect DOMAIN Source
           /\ walk' = [walk EXCEPT !.seen = Source[Here].at]
  <2>1. Source[Here] \in File /\ Source[Here].at \in 0..MaxEdits /\ Source[Here].at <= edits
    <3>1. Source[Here] \in File
      BY <1>1, <1>3, SourceType
    <3>2. Source[Here].at <= edits
      BY <1>1, <1>3, SourceType DEF MomentInv, Timely, Source
    <3> QED BY <3>1, <3>2 DEF File
  <2>2. /\ walk'.at = walk.at /\ walk'.out = walk.out /\ walk'.listed = walk.listed
        /\ walk'.names = walk.names /\ walk'.seen = Source[Here].at
        /\ walk' \in WalkType
    BY <1>1, <1>3, <2>1, SourceType, BoundsAssumption DEF WalkType
  <2>3. Types' /\ DeclaredInv'
    BY <1>1, <2>2, WalkOnly
  <2>4. Here' = Here
    BY <2>2 DEF Here
  <2>5. Timely'
    BY <1>1, <1>2, <2>1, <2>2 DEF MomentInv, Timely, InWalk, disk, bounds
  <2>6. Making'
    BY <1>1, <1>2, <2>2, <2>4 DEF MomentInv, Making, Newer
  <2>7. ASSUME step = "compare" PROVE Comparing'
    <3>1. \A n \in DOMAIN Copy : Overtaken(n) => Overtaken(n)'
      BY <1>1, <1>2, <1>3, <2>2, <2>4 DEF Overtaken, Newer
    <3> QED BY <1>1, <1>2, <2>2, <2>7, <3>1 DEF MomentInv, Comparing, copying
  <2> QED BY <1>1, <2>3, <2>5, <2>6, <2>7 DEF MomentInv, Comparing
<1>4. CASE /\ \/ Here \notin walk.names
              \/ Here \notin DOMAIN Source /\ step = "compare"
           /\ walk' = [walk EXCEPT !.at = @ + 1]
  <2>1. /\ walk'.at = walk.at + 1 /\ walk'.out = walk.out /\ walk'.listed = walk.listed
        /\ walk'.names = walk.names /\ walk'.seen = Unseen /\ walk.at \in Nat
        /\ walk' \in WalkType
    BY <1>1, <1>4, SourceType DEF WalkType
  <2>2. Types' /\ DeclaredInv'
    BY <1>1, <2>1, WalkOnly
  <2>3. Timely'
    BY <1>1, <1>2, <2>1 DEF MomentInv, Timely, InWalk, disk, bounds
  <2>4. Making'
    BY <1>1, <1>2, <2>1 DEF MomentInv, Making, Newer
  <2>5. ASSUME step = "compare" PROVE Comparing'
    <3>1. \A n \in DOMAIN Copy : Overtaken(n) => Overtaken(n)'
      BY <1>1, <1>2, <2>1 DEF Overtaken, Newer
    <3>2. Here \notin DOMAIN image \ moved
      BY <1>1, <1>4, <2>5, WalkingHere DEF MomentInv, Comparing
    <3>3. \A j \in 1..Len(Order) :
             j < walk'.at /\ Order[j] \in DOMAIN image \ moved => Order[j] \in DOMAIN walk'.out
      BY <2>1, <2>5, <3>2, ConstantTypes DEF MomentInv, Comparing, Here
    <3> QED BY <1>1, <1>2, <2>1, <2>5, <3>1, <3>3 DEF MomentInv, Comparing, copying
  <2> QED BY <1>1, <2>2, <2>3, <2>4, <2>5 DEF MomentInv, Comparing
<1> QED BY <1>3, <1>4, Zenon DEF Look, Goes

\* What a file that is read does to the copy that is made.
LEMMA WritesDoes ==
    ASSUME Types, DeclaredInv, InWalk, UNCHANGED <<step, job>>,
           NEW tree \in Tree, Writes(tree)
    PROVE  /\ profile' \in ProfileType /\ staging' \in ProfileType
           /\ UNCHANGED <<profile.there, profile.root, profile.toml, staging.root, staging.toml>>
           /\ DOMAIN profile'.payload = DOMAIN profile.payload
           /\ DOMAIN staging'.payload = DOMAIN staging.payload
           /\ step = "compare" => Copy' = Copy
           /\ step = "copy" /\ job.kind # "init" => Copy' = tree
<1>1. /\ profile \in ProfileType /\ profile.payload \in Payload
      /\ staging \in ProfileType /\ staging.payload \in Payload
  BY DEF Types, ProfileType
<1>2. job.kind \in {"capture", "init", "adopt"} /\ (step = "compare" => job.kind # "init")
  BY DEF Types, JobTypes, InWalk, CaptureJob, InitJob, AdoptJob
<1>3. CASE step = "compare" \/ job.kind = "init"
  <2>1. UNCHANGED <<profile, staging>>
    BY <1>3 DEF Writes
  <2> QED BY <1>1, <1>2, <1>3, <2>1 DEF Copy, InWalk
<1>4. CASE step = "copy" /\ job.kind = "capture"
  <2>1. staging' = [staging EXCEPT !.payload[job.dir] = tree] /\ UNCHANGED profile
    BY <1>4 DEF Writes
  <2>2. job.dir \in DOMAIN staging.payload
    BY <1>4 DEF DeclaredInv, Capturing, InWalk
  <2>3. /\ [staging.payload EXCEPT ![job.dir] = tree] \in Payload
        /\ DOMAIN [staging.payload EXCEPT ![job.dir] = tree] = DOMAIN staging.payload
        /\ [staging.payload EXCEPT ![job.dir] = tree][job.dir] = tree
    BY <1>1, <2>2, ReplacePayload
  <2>4. /\ staging'.payload = [staging.payload EXCEPT ![job.dir] = tree]
        /\ staging' \in ProfileType /\ UNCHANGED <<staging.root, staging.toml>>
    BY <1>1, <2>1, <2>3 DEF ProfileType
  <2> QED BY <1>1, <1>4, <2>1, <2>3, <2>4 DEF Copy
<1>5. CASE step = "copy" /\ job.kind = "adopt"
  <2>1. profile' = [profile EXCEPT !.payload[job.dir] = tree] /\ UNCHANGED staging
    BY <1>5 DEF Writes
  <2>2. job.dir \in DOMAIN profile.payload
    BY <1>5 DEF DeclaredInv, Adopting
  <2>3. /\ [profile.payload EXCEPT ![job.dir] = tree] \in Payload
        /\ DOMAIN [profile.payload EXCEPT ![job.dir] = tree] = DOMAIN profile.payload
        /\ [profile.payload EXCEPT ![job.dir] = tree][job.dir] = tree
    BY <1>1, <2>2, ReplacePayload
  <2>4. /\ profile'.payload = [profile.payload EXCEPT ![job.dir] = tree]
        /\ profile' \in ProfileType /\ UNCHANGED <<profile.there, profile.root, profile.toml>>
    BY <1>1, <2>1, <2>3 DEF ProfileType
  <2> QED BY <1>1, <1>5, <2>1, <2>3, <2>4 DEF Copy
<1> QED BY <1>2, <1>3, <1>4, <1>5 DEF InWalk

\* A file goes into the copy, or into what the comparison knows, under the time
\* of its look.
LEMMA ReadStep ==
    ASSUME ProfilesInv, Read
    PROVE  ProfilesInv'
<1>. USE DEF ProfilesInv
<1>. DEFINE file == [text |-> Source[Here].text, at |-> walk.seen]
            tree == Put(walk.out, Here, file)
<1>1. /\ Walking /\ InWalk
      /\ walk.seen # Unseen
      /\ Here \in DOMAIN Source
      /\ walk' = [walk EXCEPT !.at = @ + 1, !.seen = Unseen, !.out = tree]
      /\ Writes(tree)
      /\ UNCHANGED <<step, job, live, attic, registered, journal, copying, bounds>>
  BY Zenon DEF Read, Goes, Walking
<1>2. /\ Source[Here] = [text |-> Source[Here].text, at |-> Source[Here].at]
      /\ file \in File /\ file.at = walk.seen
      /\ Here \in Name /\ walk.out \in Tree
  <2>1. Source[Here] \in File
    BY <1>1, SourceType
  <2>2. walk.seen \in 0..MaxEdits
    BY <1>1, SourceType, BoundsAssumption DEF Unseen
  <2> QED BY <1>1, <2>1, <2>2, FileIs, SourceType, WalkingHere DEF File
<1>3. /\ tree \in Tree /\ DOMAIN tree = DOMAIN walk.out \union {Here}
      /\ tree[Here] = file
      /\ \A m \in DOMAIN walk.out \ {Here} : tree[m] = walk.out[m]
  BY <1>2, PutTree
<1>4. /\ walk'.at = walk.at + 1 /\ walk'.out = tree /\ walk'.listed = walk.listed
      /\ walk'.names = walk.names /\ walk'.seen = Unseen /\ walk.at \in Nat
      /\ walk' \in WalkType
  <2>. HIDE DEF tree
  <2>1. walk \in WalkType /\ -1 \in -1..MaxEdits
    BY <1>1, BoundsAssumption DEF Types
  <2>2. /\ walk'.at = walk.at + 1 /\ walk'.out = tree /\ walk'.listed = walk.listed
        /\ walk'.names = walk.names /\ walk'.seen = Unseen /\ walk.at \in Nat
        /\ walk' = [at |-> walk.at + 1, listed |-> walk.listed, names |-> walk.names,
                    seen |-> Unseen, out |-> tree]
    BY <1>1, <2>1 DEF WalkType
  <2>3. walk.at + 1 \in Nat \ {0} /\ walk.listed \in SUBSET Group /\ walk.names \in SUBSET Name
    BY <2>1 DEF WalkType
  <2>4. walk' \in WalkType
    BY <1>3, <2>1, <2>2, <2>3 DEF WalkType, Unseen
  <2> QED BY <2>2, <2>4
<1>5. Source' = Source
  BY <1>1 DEF Source
<1>6. /\ profile' \in ProfileType /\ staging' \in ProfileType
      /\ UNCHANGED <<profile.there, profile.root, profile.toml, staging.root, staging.toml>>
      /\ DOMAIN profile'.payload = DOMAIN profile.payload
      /\ DOMAIN staging'.payload = DOMAIN staging.payload
      /\ step = "compare" => Copy' = Copy
      /\ step = "copy" /\ job.kind # "init" => Copy' = tree
  <2>. HIDE DEF tree
  <2> QED BY <1>1, <1>3, WritesDoes
<1>. HIDE DEF tree
<1>7. Types'
  BY <1>1, <1>4, <1>6 DEF Types, JobTypes, InWalk, copying, bounds
<1>8. DeclaredInv'
  BY <1>1, <1>6 DEF DeclaredInv, DeclaredIsCopied, ByReference, Capturing, Adopting, InWalk, AtWork, copying
<1>9. walk.seen <= edits /\ edits \in Nat /\ walk.seen \in Int
  BY <1>1, SourceType DEF MomentInv, Timely, Types
<1>10. Timely'
  <2>1. \A n \in DOMAIN tree : tree[n].at <= edits
    BY <1>1, <1>2, <1>3, <1>9 DEF MomentInv, Timely
  <2> QED BY <1>1, <1>4, <1>6, <1>9, <2>1 DEF MomentInv, Timely, InWalk, bounds, Unseen
<1>11. Making'
  <2> SUFFICES ASSUME step = "copy" PROVE Making'
    BY <1>1 DEF Making
  <2>1. \A n \in DOMAIN tree : \/ n \in DOMAIN Source /\ Source[n] = tree[n]
                               \/ Newer(n, tree[n].at)
    <3>1. \/ Here \in DOMAIN Source /\ Source[Here] = tree[Here]
          \/ Newer(Here, tree[Here].at)
      BY <1>1, <1>2, <1>3 DEF MomentInv, Making
    <3> QED BY <1>3, <3>1 DEF MomentInv, Making
  <2> QED BY <1>1, <1>4, <1>5, <1>6, <2>1 DEF Making, Newer
<1>12. Comparing'
  <2> SUFFICES ASSUME step = "compare" PROVE Comparing'
    BY <1>1 DEF Comparing
  <2>1. Copy' = Copy /\ Copy \in Tree /\ \A n \in DOMAIN Copy : Copy[n].at \in Int
    BY <1>6, TreeElim, FileIs DEF MomentInv, Comparing
  <2>2. \A n \in DOMAIN Copy : Overtaken(n) => Overtaken(n)'
    BY <1>1, <1>2, <1>3, <1>4, <1>5, <2>1 DEF Overtaken, Newer
  <2>3. \A j \in 1..Len(Order) :
           j < walk'.at /\ Order[j] \in DOMAIN image \ moved => Order[j] \in DOMAIN walk'.out
    BY <1>3, <1>4, ConstantTypes DEF MomentInv, Comparing, Here
  <2> QED BY <1>1, <1>4, <1>5, <2>1, <2>2, <2>3 DEF MomentInv, Comparing, copying
<1> QED BY <1>7, <1>8, <1>10, <1>11, <1>12 DEF MomentInv

\* A step that leaves the profile alone, towards one of the last writes.
LEMMA LateStep ==
    ASSUME ProfilesInv, step' \in {"free", "apply", "rerecord", "record", "finish"},
           UNCHANGED <<live, attic, profile, staging, registered, accepted, edits>>
    PROVE  ProfilesInv'
<1>. USE DEF ProfilesInv
<1>1. Types'
  BY DEF Types, JobTypes, InWalk
<1>2. DeclaredInv'
  BY DEF DeclaredInv, DeclaredIsCopied, ByReference, Capturing, Adopting
<1>3. MomentInv'
  BY IdleMoment DEF InWalk
<1> QED BY <1>1, <1>2, <1>3

\* Errors, refusals, deaths and the end of a command.
LEMMA WalkFailsStep ==
    ASSUME ProfilesInv, WalkFails
    PROVE  ProfilesInv'
  BY LateStep DEF WalkFails, Releases, disk, bounds

LEMMA RefuseStep ==
    ASSUME ProfilesInv, Refuse
    PROVE  ProfilesInv'
  BY LateStep DEF Refuse, Releases, disk, bounds

LEMMA StopStep ==
    ASSUME ProfilesInv, Stop
    PROVE  ProfilesInv'
  BY LateStep DEF Stop, Releases, disk

LEMMA FinishStep ==
    ASSUME ProfilesInv, Finish
    PROVE  ProfilesInv'
  BY LateStep DEF Finish, Releases, bounds

\* The copy ends and the comparison begins: what was overtaken is so already.
LEMMA CopyEndsStep ==
    ASSUME ProfilesInv, CopyEnds
    PROVE  ProfilesInv'
<1>. USE DEF ProfilesInv
<1>1. /\ step = "copy" /\ InWalk
      /\ image' = Source /\ moved' = {}
      /\ UNCHANGED <<live, attic, profile, staging, registered, journal, job, accepted, bounds>>
  BY DEF CopyEnds, InWalk
<1>2. CASE job.kind = "init"
  <2>1. step' = "appear"
    BY <1>2 DEF CopyEnds
  <2>2. job \in InitJob
    BY <1>1, <1>2 DEF Types, JobTypes, CaptureJob, AdoptJob
  <2>3. Types'
    BY <1>1, <2>1, <2>2 DEF Types, JobTypes, InWalk, bounds
  <2>4. DeclaredInv'
    BY <1>1, <1>2, <2>1 DEF DeclaredInv, DeclaredIsCopied, ByReference, Capturing, Adopting
  <2>5. MomentInv'
    BY <1>1, <2>1, IdleMoment DEF InWalk, bounds
  <2> QED BY <2>3, <2>4, <2>5
<1>3. CASE job.kind # "init"
  <2>1. step' = "compare" /\ walk' = NewWalk /\ InWalk'
    BY <1>3 DEF CopyEnds, InWalk
  <2>2. Source \in Tree /\ Source' = Source /\ Copy' = Copy /\ walk.out \in Tree
    BY <1>1, SourceType DEF Source, Copy
  <2>3. job \in CaptureJob \union AdoptJob /\ job.dir \in Dir
    BY <1>1, <1>3 DEF Types, JobTypes, InitJob
  <2>4. Types'
    BY <1>1, <2>1, <2>2, <2>3, ConstantTypes DEF Types, JobTypes, InWalk, bounds
  <2>5. DeclaredInv'
    BY <1>1, <2>1 DEF DeclaredInv, DeclaredIsCopied, ByReference, Capturing, Adopting, InWalk, AtWork
  <2>6. Copy = walk.out
    BY <1>1, <1>3 DEF MomentInv, Making
  <2>7. Timely'
    BY <1>1, <2>1, <2>2, <2>6, ConstantTypes, EmptyTree DEF MomentInv, Timely, InWalk, Unseen, bounds, Types
  <2>8. Making'
    BY <2>1 DEF Making
  <2>9. Comparing'
    <3>1. \A n \in DOMAIN Copy : (n \in DOMAIN image' /\ image'[n] = Copy[n]) \/ Overtaken(n)'
      <4> SUFFICES ASSUME NEW n \in DOMAIN Copy
                   PROVE  (n \in DOMAIN image' /\ image'[n] = Copy[n]) \/ Overtaken(n)'
        OBVIOUS
      <4>1. \/ n \in DOMAIN Source /\ Source[n] = Copy[n]
            \/ Newer(n, Copy[n].at)
        BY <1>1, <2>6 DEF MomentInv, Making
      <4>2. CASE Newer(n, Copy[n].at)
        BY <2>1, <2>2, <4>2, ConstantTypes, EmptyTree DEF Overtaken, Newer
      <4> QED BY <1>1, <4>1, <4>2
    <3> QED BY <1>1, <2>1, <2>2, <2>6, <3>1, ConstantTypes DEF Comparing
  <2> QED BY <2>4, <2>5, <2>7, <2>8, <2>9 DEF MomentInv
<1> QED BY <1>2, <1>3

\* The comparison found no difference.
LEMMA AcceptStep ==
    ASSUME ProfilesInv, Accept
    PROVE  ProfilesInv'
<1>. USE DEF ProfilesInv
<1>1. /\ step = "compare" /\ InWalk
      /\ accepted' = accepted \union {job.dir}
      /\ step' = IF job.kind = "capture" THEN "next" ELSE "declare"
      /\ UNCHANGED <<live, attic, profile, staging, registered, journal, job, bounds>>
  BY DEF Accept, Compared, InWalk, disk
<1>2. job \in CaptureJob \union AdoptJob /\ job.dir \in Dir
  BY <1>1 DEF Types, JobTypes
<1>3. ~InWalk'
  BY <1>1 DEF InWalk
<1>4. Types'
  BY <1>1, <1>2, <1>3 DEF Types, JobTypes, CaptureJob, AdoptJob, bounds
<1>5. DeclaredInv'
  <2>1. DeclaredIsCopied' /\ (~profile.there => DOMAIN attic = {} /\ ~registered)
    BY <1>1 DEF DeclaredInv, DeclaredIsCopied, ByReference
  <2>2. Capturing'
    BY <1>1, <1>2, <1>3 DEF DeclaredInv, Capturing, AtWork, AdoptJob
  <2>3. Adopting'
    BY <1>1, <1>2, <1>3 DEF DeclaredInv, Adopting, ByReference, CaptureJob
  <2> QED BY <1>1, <2>1, <2>2, <2>3 DEF DeclaredInv, ByReference
<1>6. MomentInv'
  BY <1>1, <1>3, IdleMoment DEF bounds
<1> QED BY <1>4, <1>5, <1>6

-----------------------------------------------------------------------------
(***************************************************************************)
(* The other steps                                                         *)
(***************************************************************************)

\* The last writes.
LEMMA RerecordStep ==
    ASSUME ProfilesInv, Rerecord
    PROVE  ProfilesInv'
  BY LateStep DEF Rerecord, copying, bounds

LEMMA ApplyStep ==
    ASSUME ProfilesInv, Apply
    PROVE  ProfilesInv'
  BY LateStep DEF Apply, copying, bounds

LEMMA RecordStep ==
    ASSUME ProfilesInv, Record
    PROVE  ProfilesInv'
  BY LateStep DEF Record, Releases, bounds

\* Commands begin.
LEMMA StartSwitchStep ==
    ASSUME ProfilesInv, NEW strict \in BOOLEAN, StartSwitch(strict)
    PROVE  ProfilesInv'
  BY LateStep DEF StartSwitch, Begins, copying

LEMMA StartRecoverStep ==
    ASSUME ProfilesInv, StartRecover
    PROVE  ProfilesInv'
<1>1. step' \in {"finish", "rerecord", "record"}
  BY DEF StartRecover
<1>2. UNCHANGED <<live, attic, profile, staging, registered, accepted, edits>>
  BY DEF StartRecover, disk, copying, bounds
<1> QED BY <1>1, <1>2, LateStep

LEMMA StartCaptureStep ==
    ASSUME ProfilesInv, NEW from \in SUBSET Dir, StartCapture(from)
    PROVE  ProfilesInv'
<1>. USE DEF ProfilesInv
<1>1. /\ step' = "next" /\ staging' = NoProfile
      /\ job' = [kind |-> "capture", from |-> from, todo |-> from, dir |-> Nowhere]
      /\ UNCHANGED <<live, attic, profile, registered, journal, accepted, edits>>
  BY DEF StartCapture, Begins, copying
<1>2. Types'
  BY <1>1, ConstantTypes DEF Types, JobTypes, CaptureJob, InWalk
<1>3. DeclaredInv'
  BY <1>1 DEF DeclaredInv, DeclaredIsCopied, ByReference, Capturing, Adopting, InWalk, AtWork, NoProfile
<1>4. MomentInv'
  BY <1>1, IdleMoment DEF InWalk
<1> QED BY <1>2, <1>3, <1>4

LEMMA StartInitStep ==
    ASSUME ProfilesInv, NEW d \in Dir, NEW volatile \in {{}, Volatile}, StartInit(d, volatile)
    PROVE  ProfilesInv'
<1>. USE DEF ProfilesInv
<1>1. /\ step' = "copy" /\ walk' = NewWalk
      /\ job' = [kind |-> "init", dir |-> d, volatile |-> volatile]
      /\ UNCHANGED <<live, attic, profile, staging, registered, journal, accepted, edits>>
  BY DEF StartInit, Begins, copying
<1>2. job' \in InitJob /\ volatile \in SUBSET Name
  BY <1>1, SetsAssumption DEF InitJob
<1>3. Types'
  BY <1>1, <1>2, ConstantTypes DEF Types, JobTypes, InitJob, InWalk
<1>4. DeclaredInv'
  BY <1>1 DEF DeclaredInv, DeclaredIsCopied, ByReference, Capturing, Adopting
<1>5. MomentInv'
  BY <1>1, FreshMoment
<1> QED BY <1>3, <1>4, <1>5

LEMMA StartAdoptStep ==
    ASSUME ProfilesInv, NEW d \in Dir, StartAdopt(d)
    PROVE  ProfilesInv'
<1>. USE DEF ProfilesInv
<1>1. /\ step' = "copy" /\ walk' = NewWalk
      /\ profile.there /\ ~ByReference
      /\ job' = [kind |-> "adopt", dir |-> d, ino |-> live[d].ino]
      /\ profile' = [profile EXCEPT !.payload = Put(@, d, Empty)]
      /\ d \notin DOMAIN profile.payload
      /\ UNCHANGED <<live, attic, staging, registered, journal, accepted, edits>>
  BY DEF StartAdopt, Begins, copying
<1>2. profile \in ProfileType /\ profile.payload \in Payload
  BY DEF Types, ProfileType
<1>3. /\ Put(profile.payload, d, Empty) \in Payload
      /\ DOMAIN Put(profile.payload, d, Empty) = DOMAIN profile.payload \union {d}
      /\ Put(profile.payload, d, Empty)[d] = Empty
  BY <1>2, EmptyTree, PutPayload
<1>4. /\ profile' \in ProfileType /\ profile'.payload = Put(profile.payload, d, Empty)
      /\ UNCHANGED <<profile.there, profile.root, profile.toml>>
  BY <1>1, <1>2, <1>3 DEF ProfileType
<1>5. job' \in AdoptJob
  BY <1>1 DEF AdoptJob, Types, LiveType
<1>6. Types'
  BY <1>1, <1>4, <1>5, ConstantTypes DEF Types, JobTypes, AdoptJob, InWalk
<1>7. DeclaredInv'
  BY <1>1, <1>3, <1>4 DEF DeclaredInv, DeclaredIsCopied, ByReference, Capturing, Adopting, InWalk
<1>8. Copy' = Empty
  BY <1>1, <1>3, <1>4 DEF Copy
<1>9. MomentInv'
  BY <1>1, <1>8, FreshMoment
<1> QED BY <1>6, <1>7, <1>9

\* capture takes its next source.
LEMMA NextSourceStep ==
    ASSUME ProfilesInv, NEW d \in Dir, NextSource(d)
    PROVE  ProfilesInv'
<1>. USE DEF ProfilesInv
<1>1. /\ step = "next" /\ step' = "copy" /\ walk' = NewWalk
      /\ d \in job.todo
      /\ staging' = [staging EXCEPT !.payload = Put(@, d, Empty)]
      /\ job' = [job EXCEPT !.todo = @ \ {d}, !.dir = d]
      /\ UNCHANGED <<live, attic, profile, registered, journal, accepted, edits>>
  BY DEF NextSource, copying, bounds
<1>2. staging \in ProfileType /\ staging.payload \in Payload /\ job \in CaptureJob
  BY <1>1 DEF Types, ProfileType, JobTypes
<1>3. /\ Put(staging.payload, d, Empty) \in Payload
      /\ DOMAIN Put(staging.payload, d, Empty) = DOMAIN staging.payload \union {d}
      /\ Put(staging.payload, d, Empty)[d] = Empty
  BY <1>2, EmptyTree, PutPayload
<1>4. /\ staging' \in ProfileType /\ staging'.payload = Put(staging.payload, d, Empty)
      /\ UNCHANGED <<staging.root, staging.toml>>
  BY <1>1, <1>2, <1>3 DEF ProfileType
<1>5. /\ job' \in CaptureJob /\ job'.kind = "capture" /\ job.kind = "capture"
      /\ job'.from = job.from /\ job'.todo = job.todo \ {d} /\ job'.dir = d
  BY <1>1, <1>2 DEF CaptureJob
<1>6. Types'
  BY <1>1, <1>4, <1>5, ConstantTypes DEF Types, JobTypes, InWalk
<1>7. DeclaredInv'
  <2>1. DeclaredIsCopied' /\ Adopting' /\ (~profile.there => DOMAIN attic = {} /\ ~registered)
    BY <1>1, <1>5 DEF DeclaredInv, DeclaredIsCopied, ByReference, Adopting
  <2>2. Capturing'
    BY <1>1, <1>3, <1>4, <1>5 DEF DeclaredInv, Capturing, InWalk, AtWork
  <2> QED BY <1>1, <2>1, <2>2 DEF DeclaredInv
<1>8. Copy' = Empty
  BY <1>3, <1>4, <1>5 DEF Copy
<1>9. MomentInv'
  BY <1>1, <1>8, FreshMoment
<1> QED BY <1>6, <1>7, <1>9

\* capture's manifest declares all of its sources, each of them accepted.
LEMMA WriteManifestStep ==
    ASSUME ProfilesInv, WriteManifest
    PROVE  ProfilesInv'
<1>. USE DEF ProfilesInv
<1>1. /\ step = "next" /\ step' = "appear" /\ job.todo = {}
      /\ staging' = [staging EXCEPT !.toml = [declares |-> job.from, notes |-> 0]]
      /\ UNCHANGED <<live, attic, profile, registered, journal, accepted, edits, job>>
  BY DEF WriteManifest, copying, bounds
<1>2. staging \in ProfileType /\ job \in CaptureJob
  BY <1>1 DEF Types, JobTypes
<1>3. /\ staging' \in ProfileType /\ staging'.toml.declares = job.from
      /\ UNCHANGED <<staging.root, staging.payload>>
  BY <1>1, <1>2 DEF ProfileType, CaptureJob
<1>4. Types'
  BY <1>1, <1>2, <1>3 DEF Types, JobTypes, InWalk
<1>5. DeclaredInv'
  BY <1>1, <1>2, <1>3
     DEF DeclaredInv, DeclaredIsCopied, ByReference, Capturing, Adopting, InWalk, AtWork
<1>6. MomentInv'
  BY <1>1, IdleMoment DEF InWalk
<1> QED BY <1>4, <1>5, <1>6

\* A profile appears whole.
LEMMA AppearStep ==
    ASSUME ProfilesInv, Appear
    PROVE  ProfilesInv'
<1>. USE DEF ProfilesInv
<1>1. /\ step = "appear" /\ ~profile.there /\ staging' = NoProfile
      /\ job \in CaptureJob \union InitJob
      /\ UNCHANGED <<live, attic, registered, journal, accepted, edits, job>>
  BY DEF Appear, copying, bounds, Types, JobTypes
<1>2. staging \in ProfileType
  BY DEF Types
<1>3. CASE job.kind = "capture"
  <2>1. step' = "record" /\ profile' = [staging EXCEPT !.there = TRUE]
    BY <1>3 DEF Appear
  <2>2. /\ profile' \in ProfileType /\ UNCHANGED <<live, attic>>
        /\ profile'.root = staging.root /\ profile'.payload = staging.payload
        /\ profile'.toml = staging.toml
    BY <1>1, <1>2, <2>1 DEF ProfileType
  <2>3. Types'
    BY <1>1, <2>1, <2>2, ConstantTypes DEF Types, JobTypes, InWalk
  <2>4. /\ staging.root = Nowhere /\ staging.toml.declares = job.from
        /\ job.from \subseteq accepted \intersect DOMAIN staging.payload
    BY <1>1, <1>3 DEF DeclaredInv, Capturing, AtWork, InWalk
  <2>5. DeclaredInv'
    BY <1>1, <2>1, <2>2, <2>4 DEF DeclaredInv, DeclaredIsCopied, ByReference, Capturing, Adopting
  <2>6. MomentInv'
    BY <1>1, <2>1, IdleMoment DEF InWalk
  <2> QED BY <2>3, <2>5, <2>6
<1>4. CASE job.kind # "capture"
  <2>1. /\ step' = "register"
        /\ profile' = [there |-> TRUE, root |-> job.dir, volatile |-> job.volatile,
                       payload |-> Empty,
                       toml |-> [declares |-> {job.dir}, notes |-> 0]]
    BY <1>4 DEF Appear
  <2>2. job \in InitJob
    BY <1>1, <1>4 DEF CaptureJob
  <2>3. Empty \in Payload
    BY ConstantTypes DEF NoProfile, ProfileType
  <2>4. profile' \in ProfileType /\ profile'.there /\ profile'.root # Nowhere
    BY <2>1, <2>2, <2>3, RootAssumption DEF ProfileType, InitJob
  <2>5. Types'
    BY <1>1, <2>1, <2>2, <2>4, ConstantTypes DEF Types, JobTypes, InWalk
  <2>6. DeclaredInv'
    BY <1>1, <2>1, <2>4 DEF DeclaredInv, DeclaredIsCopied, ByReference, Capturing, Adopting
  <2>7. MomentInv'
    BY <1>1, <2>1, IdleMoment DEF InWalk
  <2> QED BY <2>5, <2>6, <2>7
<1> QED BY <1>3, <1>4

\* init's rows come after its profile.
LEMMA RegisterStep ==
    ASSUME ProfilesInv, Register
    PROVE  ProfilesInv'
<1>. USE DEF ProfilesInv
<1>1. /\ step = "register" /\ step' = "record"
      /\ UNCHANGED <<live, attic, profile, staging, journal, accepted, edits, job>>
  BY DEF Register, copying, bounds
<1>2. Types'
  BY <1>1 DEF Types, JobTypes, InWalk
<1>3. DeclaredInv'
  BY <1>1 DEF DeclaredInv, DeclaredIsCopied, ByReference, Capturing, Adopting
<1>4. MomentInv'
  BY <1>1, IdleMoment DEF InWalk
<1> QED BY <1>2, <1>3, <1>4

\* adopt declares what it has copied.
LEMMA DeclareStep ==
    ASSUME ProfilesInv, Declare
    PROVE  ProfilesInv'
<1>. USE DEF ProfilesInv
<1>1. /\ step = "declare" /\ step' = "journal" /\ job \in AdoptJob
      /\ profile' = [profile EXCEPT !.toml.declares = @ \union {job.dir}]
      /\ UNCHANGED <<live, attic, staging, registered, journal, accepted, edits, job>>
  BY DEF Declare, copying, bounds, Types, JobTypes
<1>2. profile \in ProfileType /\ profile.toml \in [declares : SUBSET Dir, notes : Int]
      /\ job.dir \in Dir /\ job.kind = "adopt"
  BY <1>1 DEF Types, ProfileType, AdoptJob
<1>3. /\ profile' \in ProfileType
      /\ profile'.toml.declares = profile.toml.declares \union {job.dir}
      /\ UNCHANGED <<profile.there, profile.root, profile.payload>>
  <2>1. profile' = [profile EXCEPT !.toml = [profile.toml EXCEPT !.declares =
                       profile.toml.declares \union {job.dir}]]
    BY <1>1, <1>2 DEF ProfileType
  <2>2. [profile.toml EXCEPT !.declares = profile.toml.declares \union {job.dir}]
          = [declares |-> profile.toml.declares \union {job.dir}, notes |-> profile.toml.notes]
    BY <1>2
  <2> QED BY <1>2, <2>1, <2>2 DEF ProfileType
<1>4. Types'
  BY <1>1, <1>3 DEF Types, JobTypes, InWalk
<1>5. DeclaredInv'
  <2>1. /\ profile.there /\ ~ByReference
        /\ job.dir \in DOMAIN profile.payload \intersect accepted
    BY <1>1, <1>2 DEF DeclaredInv, Adopting, InWalk
  <2> QED BY <1>1, <1>2, <1>3, <2>1
          DEF DeclaredInv, DeclaredIsCopied, ByReference, Capturing, Adopting, InWalk
<1>6. MomentInv'
  BY <1>1, IdleMoment DEF InWalk
<1> QED BY <1>4, <1>5, <1>6

\* The journal is for the directory that was confirmed.
LEMMA WriteJournalStep ==
    ASSUME ProfilesInv, WriteJournal
    PROVE  ProfilesInv'
<1>. USE DEF ProfilesInv
<1>1. /\ step = "journal" /\ step' = "exchange" /\ job \in AdoptJob
      /\ live[job.dir].ino = job.ino
      /\ journal' = [kind |-> "adopt", dir |-> job.dir]
      /\ UNCHANGED <<live, attic, profile, staging, registered, accepted, edits, job>>
  BY DEF WriteJournal, copying, bounds, Types, JobTypes
<1>2. journal' # NoJournal /\ job.kind = "adopt"
  <2>1. journal'.kind = "adopt" /\ NoJournal.kind = "none"
    BY <1>1 DEF NoJournal
  <2> QED BY <1>1, <2>1 DEF AdoptJob
<1>3. Types'
  BY <1>1, <1>2 DEF Types, JobTypes, InWalk
<1>4. DeclaredInv'
  BY <1>1, <1>2 DEF DeclaredInv, DeclaredIsCopied, ByReference, Capturing, Adopting, InWalk
<1>5. MomentInv'
  BY <1>1, IdleMoment DEF InWalk
<1> QED BY <1>3, <1>4, <1>5

\* Only the declared directory goes to the attic.
LEMMA ExchangeStep ==
    ASSUME ProfilesInv, Exchange
    PROVE  ProfilesInv'
<1>. USE DEF ProfilesInv
<1>1. /\ step = "exchange" /\ step' = "rerecord" /\ job \in AdoptJob
      /\ attic' = Put(attic, job.dir, live[job.dir])
      /\ live' = [live EXCEPT ![job.dir] = [is |-> "link", ino |-> 0, files |-> Empty]]
      /\ UNCHANGED <<profile, staging, registered, journal, accepted, edits>>
  BY DEF Exchange, copying, bounds, Types, JobTypes
<1>2. job.dir \in Dir /\ job.kind = "adopt"
  BY <1>1 DEF AdoptJob
<1>3. [is |-> "link", ino |-> 0, files |-> Empty] \in LiveType
  BY EmptyTree DEF LiveType
<1>4. /\ live' \in [Dir -> LiveType]
      /\ \A d \in Dir : live'[d].files = live[d].files \/ live'[d].files = Empty
  BY <1>1, <1>2, <1>3 DEF Types
<1>5. DOMAIN attic' = DOMAIN attic \union {job.dir}
  BY <1>1 DEF Put
<1>6. Types'
  BY <1>1, <1>4 DEF Types, JobTypes, InWalk
<1>7. DeclaredInv'
  BY <1>1, <1>2, <1>5 DEF DeclaredInv, DeclaredIsCopied, ByReference, Capturing, Adopting, InWalk
<1>8. MomentInv'
  BY <1>1, <1>4, IdleMoment DEF InWalk
<1> QED BY <1>6, <1>7, <1>8

-----------------------------------------------------------------------------
(***************************************************************************)
(* The theorems                                                            *)
(***************************************************************************)

\* It holds before anything is captured.
LEMMA InitHolds == Init => ProfilesInv
<1> SUFFICES ASSUME Init PROVE ProfilesInv
  OBVIOUS
<1>1. First \in Text
  BY SetsAssumption, Zenon DEF First
<1>2. [n \in Name |-> [text |-> First, at |-> 0]] \in [Name -> File]
  BY <1>1, BoundsAssumption DEF File
<1>3. [n \in Name |-> [text |-> First, at |-> 0]] \in Tree /\ Name \in SUBSET Name
  BY <1>2, TreeIntro
<1>4. live \in [Dir -> LiveType]
  BY <1>3 DEF Init, LiveType
<1>5. Types
  BY <1>4, ConstantTypes DEF Init, Types, JobTypes, InWalk
<1>6. DeclaredInv
  BY DEF Init, DeclaredInv, DeclaredIsCopied, Capturing, Adopting, NoProfile, Empty
<1>7. \A d \in Dir : \A n \in DOMAIN live[d].files : live[d].files[n].at <= edits
  BY DEF Init
<1>8. MomentInv
  BY <1>7 DEF Init, MomentInv, Timely, Making, Comparing, InWalk
<1> QED BY <1>5, <1>6, <1>8 DEF ProfilesInv

\* Every step keeps it.
LEMMA StepHolds ==
    ASSUME ProfilesInv, [Next]_vars
    PROVE  ProfilesInv'
<1>1. CASE UNCHANGED vars
  <2>1. UNCHANGED <<live, attic, profile, staging, registered, journal, step, job, walk,
                    accepted, image, moved, edits>>
    BY <1>1 DEF vars, disk, process, copying, bounds
  <2>2. Types'
    BY <2>1 DEF ProfilesInv, Types, JobTypes, InWalk
  <2>3. DeclaredInv'
    BY <2>1 DEF ProfilesInv, DeclaredInv, DeclaredIsCopied, ByReference, Capturing, Adopting,
                InWalk, AtWork
  <2>4. Copy' = Copy /\ edits \in Nat
    BY <2>1 DEF Copy, ProfilesInv, Types
  <2>5. MomentInv'
    BY <2>1, <2>4, QuietMoment DEF ProfilesInv
  <2> QED BY <2>2, <2>3, <2>5 DEF ProfilesInv
<1>2. CASE Works
  BY <1>2, ListStep, LookStep, ReadStep, WalkFailsStep, CopyEndsStep, AcceptStep, RefuseStep,
     NextSourceStep, WriteManifestStep, AppearStep, RegisterStep, DeclareStep, WriteJournalStep,
     ExchangeStep, RerecordStep, ApplyStep, RecordStep, FinishStep DEF Works
<1>3. CASE \/ \E from \in SUBSET Dir : StartCapture(from)
           \/ \E d \in Dir, volatile \in {{}, Volatile} : StartInit(d, volatile)
           \/ \E d \in Dir : StartAdopt(d)
           \/ \E strict \in BOOLEAN : StartSwitch(strict)
           \/ StartRecover
  BY <1>3, StartCaptureStep, StartInitStep, StartAdoptStep, StartSwitchStep, StartRecoverStep
<1>4. CASE \/ Stop
           \/ \E d \in Dir, n \in Name : EditLive(d, n) \/ EditProfile(d, n)
           \/ EditToml
           \/ \E d \in Dir : Replace(d)
  BY <1>4, StopStep, EditLiveStep, EditProfileStep, EditTomlStep, ReplaceStep
<1> QED BY <1>1, <1>2, <1>3, <1>4 DEF Next

\* In every reachable state what is copied, what is declared and what a
\* comparison has read so far agree.
THEOREM InvariantHolds == Spec => []ProfilesInv
<1>1. ProfilesInv /\ [Next]_vars => ProfilesInv'
  BY StepHolds
<1> QED BY <1>1, InitHolds, PTL DEF Spec

\* A manifest declares only accepted copies, and only a declared directory,
\* the confirmed one, goes to the attic (D51).
THEOREM DeclaredMeansCopied == Spec => []DeclaredIsCopied
<1>1. ProfilesInv => DeclaredIsCopied
  BY DEF ProfilesInv, DeclaredInv
<1> QED BY <1>1, InvariantHolds, PTL

\* Only an accepted comparison adds to what is accepted.
LEMMA AcceptsOnly ==
    ASSUME [Next]_vars, accepted' # accepted
    PROVE  Accept
  BY DEF Next, Works, vars, bounds, copying, StartCapture, StartInit, StartAdopt, StartSwitch,
         StartRecover, List, Look, Read, WalkFails, CopyEnds, Refuse, NextSource, WriteManifest,
         Appear, Register, Declare, WriteJournal, Exchange, Rerecord, Apply, Record, Finish, Stop,
         EditLive, EditProfile, EditToml, Replace, Edits

\* A copy that is accepted, of a directory that programs write to all the
\* while, is the directory as it was at one moment.
THEOREM AcceptedIsOneMoment == Spec => CopyIsOneMoment
<1>1. ASSUME ProfilesInv, [Next]_vars
      PROVE  [accepted' # accepted =>
                 /\ \A n \in DOMAIN Copy : n \in DOMAIN image /\ Copy[n] = image[n]
                 /\ \A n \in DOMAIN image \ moved : n \in DOMAIN Copy]_vars
  <2> SUFFICES ASSUME accepted' # accepted
               PROVE  /\ \A n \in DOMAIN Copy : n \in DOMAIN image /\ Copy[n] = image[n]
                      /\ \A n \in DOMAIN image \ moved : n \in DOMAIN Copy
    OBVIOUS
  <2>1. Accept
    BY <1>1, AcceptsOnly
  <2>2. step = "compare" /\ walk.at > Len(Order) /\ Identical
    BY <2>1 DEF Accept, Compared
  <2>3. /\ DOMAIN walk.out = DOMAIN Copy
        /\ \A n \in DOMAIN Copy : walk.out[n].at = Copy[n].at
    <3>1. \A n \in DOMAIN walk.out \union DOMAIN Copy :
             /\ n \in DOMAIN walk.out /\ n \in DOMAIN Copy
             /\ walk.out[n].text = Copy[n].text
      BY <2>2 DEF Identical, Changed
    <3>2. \A n \in DOMAIN walk.out \intersect DOMAIN Copy :
             walk.out[n].text = Copy[n].text => walk.out[n].at = Copy[n].at
      BY <2>2 DEF Identical, Touched
    <3> QED BY <3>1, <3>2
  <2>4. ASSUME NEW n \in DOMAIN Copy
        PROVE  n \in DOMAIN image /\ Copy[n] = image[n]
    <3>1. Copy[n].at \in Int
      BY <1>1, <2>2, TreeElim, FileIs DEF ProfilesInv, MomentInv, Comparing
    <3>2. ~Overtaken(n)
      BY <2>3, <3>1 DEF Overtaken
    <3> QED BY <1>1, <2>2, <3>2 DEF ProfilesInv, MomentInv, Comparing
  <2>5. ASSUME NEW n \in DOMAIN image \ moved
        PROVE  n \in DOMAIN Copy
    <3>1. n \in Name
      BY <1>1, <2>2, TreeElim DEF ProfilesInv, Types
    <3>2. PICK i \in 1..Len(Order) : n = Order[i]
      BY <3>1 DEF Name
    <3>3. i < walk.at
      BY <1>1, <2>2, SourceType, ConstantTypes DEF InWalk, ProfilesInv
    <3> QED BY <1>1, <2>2, <2>3, <3>2, <3>3 DEF ProfilesInv, MomentInv, Comparing
  <2> QED BY <2>4, <2>5
<1> QED BY <1>1, InvariantHolds, PTL DEF Spec, CopyIsOneMoment

-----------------------------------------------------------------------------
(***************************************************************************)
(* The rows of a manifest                                                  *)
(***************************************************************************)

\* Two manifests agree on what path p says.
Agree(t, u, p) ==
    /\ p \in DOMAIN t <=> p \in DOMAIN u
    /\ p \in DOMAIN t => t[p].text = u[p].text

\* What a manifest says of a path.
TextOf(t, p) == IF p \in DOMAIN t THEN t[p].text ELSE "nothing"

\* Build, of a profile and live paths that are given.
FilesOf(prof, liv) ==
    IF prof.root # Nowhere THEN [d \in {prof.root} |-> liv[d].files] ELSE prof.payload

RowsOf(prof, liv) ==
    {p \in Dir \X Name :
        /\ p[1] \in DOMAIN FilesOf(prof, liv)
        /\ p[2] \in DOMAIN FilesOf(prof, liv)[p[1]] \ prof.volatile}

TreeOf(prof, liv) ==
    LET tree == [p \in RowsOf(prof, liv) |-> FilesOf(prof, liv)[p[1]][p[2]]]
    IN  IF prof.root # Nowhere THEN tree
        ELSE Put(tree, ManifestPath, [text |-> prof.toml, at |-> 0])

LEMMA BuildIs ==
    /\ Build = TreeOf(profile, live)
    /\ Build' = TreeOf(profile', live')
<1>1. Build = TreeOf(profile, live)
  BY DEF Build, Files, ByReference, TreeOf, RowsOf, FilesOf
<1>2. Build' = TreeOf(profile', live')
  BY DEF Build, Files, ByReference, TreeOf, RowsOf, FilesOf
<1> QED BY <1>1, <1>2

\* The paths a manifest has, and their rows.
LEMMA TreeRows ==
    ASSUME NEW prof, NEW liv, NEW p
    PROVE  /\ p \in DOMAIN TreeOf(prof, liv) <=>
                 \/ p \in RowsOf(prof, liv)
                 \/ p = ManifestPath /\ prof.root = Nowhere
           /\ p \in DOMAIN TreeOf(prof, liv) =>
                 TreeOf(prof, liv)[p] =
                    IF p = ManifestPath /\ prof.root = Nowhere
                    THEN [text |-> prof.toml, at |-> 0]
                    ELSE FilesOf(prof, liv)[p[1]][p[2]]
<1>. DEFINE tree == [q \in RowsOf(prof, liv) |-> FilesOf(prof, liv)[q[1]][q[2]]]
<1>1. CASE prof.root # Nowhere
  <2>1. TreeOf(prof, liv) = tree
    BY <1>1 DEF TreeOf
  <2> QED BY <1>1, <2>1
<1>2. CASE prof.root = Nowhere
  <2>1. TreeOf(prof, liv) = Put(tree, ManifestPath, [text |-> prof.toml, at |-> 0])
    BY <1>2 DEF TreeOf
  <2>2. /\ DOMAIN tree = RowsOf(prof, liv)
        /\ \A q \in RowsOf(prof, liv) : tree[q] = FilesOf(prof, liv)[q[1]][q[2]]
    OBVIOUS
  <2> HIDE DEF tree
  <2>3. TreeOf(prof, liv) = [q \in RowsOf(prof, liv) \union {ManifestPath} |->
                               IF q = ManifestPath THEN [text |-> prof.toml, at |-> 0]
                               ELSE tree[q]]
    BY <2>1, <2>2 DEF Put
  <2> QED BY <1>2, <2>2, <2>3
<1> QED BY <1>1, <1>2

\* A path whose row comes from the same file has the same row.
LEMMA SameRow ==
    ASSUME NEW prof, NEW liv, NEW other, NEW later, NEW p,
           prof.root = other.root, prof.volatile = other.volatile,
           p # ManifestPath \/ prof.root # Nowhere \/ prof.toml = other.toml,
           p \in Dir \X Name =>
               LET was == FilesOf(prof, liv)
                   is == FilesOf(other, later)
               IN  /\ p[1] \in DOMAIN was <=> p[1] \in DOMAIN is
                   /\ p[1] \in DOMAIN was =>
                         /\ p[2] \in DOMAIN was[p[1]] <=> p[2] \in DOMAIN is[p[1]]
                         /\ p[2] \in DOMAIN was[p[1]] => was[p[1]][p[2]] = is[p[1]][p[2]]
    PROVE  Agree(TreeOf(prof, liv), TreeOf(other, later), p)
<1>. DEFINE was == FilesOf(prof, liv)
            is == FilesOf(other, later)
<1>1. p \in RowsOf(prof, liv) <=> p \in RowsOf(other, later)
  <2> HIDE DEF was, is
  <2>1. p \in RowsOf(prof, liv) <=> /\ p \in Dir \X Name /\ p[1] \in DOMAIN was
                                    /\ p[2] \in DOMAIN was[p[1]] \ prof.volatile
    BY DEF RowsOf, was
  <2>2. p \in RowsOf(other, later) <=> /\ p \in Dir \X Name /\ p[1] \in DOMAIN is
                                       /\ p[2] \in DOMAIN is[p[1]] \ other.volatile
    BY DEF RowsOf, is
  <2> QED BY <2>1, <2>2 DEF was, is
<1>2. p \in RowsOf(prof, liv) => was[p[1]][p[2]] = is[p[1]][p[2]]
  BY DEF RowsOf
<1> HIDE DEF was, is
<1>. DEFINE manifest == p = ManifestPath /\ prof.root = Nowhere
<1>3. /\ p \in DOMAIN TreeOf(prof, liv) <=> (p \in RowsOf(prof, liv) \/ manifest)
      /\ p \in DOMAIN TreeOf(prof, liv) =>
            TreeOf(prof, liv)[p] = IF manifest THEN [text |-> prof.toml, at |-> 0]
                                   ELSE was[p[1]][p[2]]
  BY TreeRows DEF was
<1>4. /\ p \in DOMAIN TreeOf(other, later) <=> (p \in RowsOf(other, later) \/ manifest)
      /\ p \in DOMAIN TreeOf(other, later) =>
            TreeOf(other, later)[p] = IF manifest THEN [text |-> other.toml, at |-> 0]
                                      ELSE is[p[1]][p[2]]
  BY TreeRows DEF is
<1>5. CASE manifest
  <2>1. TreeOf(prof, liv)[p].text = prof.toml /\ TreeOf(other, later)[p].text = other.toml
    BY <1>3, <1>4, <1>5
  <2> QED BY <1>3, <1>4, <1>5, <2>1 DEF Agree
<1>6. CASE ~manifest
  <2> HIDE DEF manifest
  <2> QED BY <1>1, <1>2, <1>3, <1>4, <1>6 DEF Agree
<1> QED BY <1>5, <1>6

\* What compare reports is where the manifests do not agree.
LEMMA ChangedIs ==
    ASSUME NEW t, NEW u, NEW p
    PROVE  p \notin Changed(t, u) <=> Agree(t, u, p)
  BY DEF Changed, Agree

\* Agreement passes on, and is about what is said.
LEMMA AgreeSays ==
    ASSUME NEW t, NEW u, NEW p, Agree(t, u, p)
    PROVE  TextOf(t, p) = TextOf(u, p) /\ Agree(u, t, p)
  BY DEF Agree, TextOf

LEMMA SaysIs == \A p : Says(p) = TextOf(Build, p) /\ Says(p)' = TextOf(Build', p)
  BY DEF Says, TextOf

-----------------------------------------------------------------------------
(***************************************************************************)
(* The invariant                                                           *)
(***************************************************************************)

JournalType == {NoJournal} \union [kind : {"adopt"}, dir : Dir]
                           \union [kind : {"switch"}, crossed : BOOLEAN]

\* Who is about what: only a profile that is there is recorded or switched to,
\* capture and init make the first record, and what an adopt writes before
\* its exchange is its own.
Turns ==
    /\ journal \in JournalType
    /\ journal # NoJournal => profile.there
    /\ recorded # NoRecord => profile.there
    /\ job.kind \in {"capture", "init"} => recorded = NoRecord
    /\ step \in {"copy", "compare", "declare"} /\ job.kind = "adopt" =>
          Own(job.dir) \subseteq excused
    /\ step = "apply" => profile.there /\ journal.kind = "switch"
    /\ step = "record" =>
          profile.there /\ (job.kind \in {"capture", "init"} \/ journal.kind = "switch")

\* Nothing but what others have changed, or an adopt in progress, has left
\* the record.
OthersOnly ==
    \A p : p \notin DOMAIN before \union excused => Agree(recorded.tree, Build, p)

\* What a path said before others changed it is what is recorded of it.
SaidBefore ==
    \A p \in DOMAIN before \ excused : before[p] = TextOf(recorded.tree, p)

\* A switch that is under way has shown every change.
ShownFirst ==
    journal.kind = "switch" =>
        \A p \in DOMAIN before \ excused : before[p] # Says(p) => p \in shown

Accounts == recorded # NoRecord => OthersOnly /\ SaidBefore /\ ShownFirst

DriftInv == ProfilesInv /\ Turns /\ Accounts

\* Drift is among the changes of others, and has all of those made at rest.
LEMMA DriftReports ==
    ASSUME Accounts, recorded # NoRecord
    PROVE  /\ Drift \subseteq DOMAIN before \union excused
           /\ \A p \in DOMAIN before \ excused : before[p] # Says(p) => p \in Drift
<1>1. Drift = Changed(recorded.tree, Build)
  BY DEF Drift
<1>2. \A p : p \notin Drift <=> Agree(recorded.tree, Build, p)
  BY <1>1, ChangedIs
<1>3. Drift \subseteq DOMAIN before \union excused
  BY <1>2 DEF Accounts, OthersOnly
<1>4. ASSUME NEW p \in DOMAIN before \ excused, before[p] # Says(p)
      PROVE  p \in Drift
  BY <1>2, <1>4, AgreeSays, SaysIs DEF Accounts, SaidBefore
<1> QED BY <1>3, <1>4

\* The invariant says of drift what doctor says.
LEMMA DriftFollows ==
    ASSUME DriftInv
    PROVE  DriftIsOthers
<1>1. recorded = NoRecord => Drift = {}
  BY DEF Drift
<1>2. step = "record" /\ recorded # NoRecord =>
          \A p \in DOMAIN before \ excused : before[p] # Says(p) => p \in shown
  BY DEF DriftInv, Turns, Accounts, ShownFirst
<1> QED BY <1>1, <1>2, DriftReports DEF DriftIsOthers, DriftInv

\* What is excused, or as it was, changes nothing in the accounts.
LEMMA Excused ==
    ASSUME Accounts, UNCHANGED <<recorded, before>>, excused \subseteq excused',
           \A p : p \notin excused' => Agree(Build, Build', p),
           journal'.kind = "switch" => journal.kind = "switch" /\ shown' = shown
    PROVE  Accounts'
<1> SUFFICES ASSUME recorded # NoRecord
             PROVE  OthersOnly' /\ SaidBefore' /\ ShownFirst'
  BY DEF Accounts
<1>1. OthersOnly'
  <2> SUFFICES ASSUME NEW p, p \notin DOMAIN before \union excused'
               PROVE  Agree(recorded.tree, Build', p)
    BY DEF OthersOnly
  <2>1. Agree(recorded.tree, Build, p) /\ Agree(Build, Build', p)
    BY DEF Accounts, OthersOnly
  <2> QED BY <2>1 DEF Agree
<1>2. SaidBefore'
  BY DEF Accounts, SaidBefore
<1>3. ShownFirst'
  <2> SUFFICES ASSUME journal'.kind = "switch", NEW p \in DOMAIN before \ excused',
                      before[p] # Says(p)'
               PROVE  p \in shown
    BY DEF ShownFirst
  <2>1. Says(p)' = Says(p)
    BY AgreeSays, SaysIs
  <2> QED BY <2>1 DEF Accounts, ShownFirst
<1> QED BY <1>1, <1>2, <1>3

\* A change of one path by others is noted.
LEMMA NotedChange ==
    ASSUME Turns, Accounts, NEW p, Noted(p), UNCHANGED <<recorded, shown, journal>>,
           \A q : q # p => Agree(Build, Build', q)
    PROVE  Accounts' /\ excused \subseteq excused'
<1>1. CASE ~AtRest
  <2>1. excused' = excused \union {p} /\ before' = before
    BY <1>1 DEF Noted
  <2> QED BY <2>1, Excused
<1>2. CASE AtRest
  <2>1. /\ before' = IF p \in DOMAIN before THEN before ELSE Put(before, p, Says(p))
        /\ excused' = excused
    BY <1>2 DEF Noted
  <2>2. /\ DOMAIN before' = DOMAIN before \union {p}
        /\ \A q \in DOMAIN before : before'[q] = before[q]
        /\ p \notin DOMAIN before => before'[p] = Says(p)
    BY <2>1 DEF Put
  <2>3. ASSUME recorded # NoRecord
        PROVE  OthersOnly' /\ SaidBefore' /\ ShownFirst'
    <3>1. OthersOnly'
      <4> SUFFICES ASSUME NEW q, q \notin DOMAIN before' \union excused'
                   PROVE  Agree(recorded.tree, Build', q)
        BY DEF OthersOnly
      <4>1. Agree(recorded.tree, Build, q) /\ Agree(Build, Build', q)
        BY <2>1, <2>2, <2>3 DEF Accounts, OthersOnly
      <4> QED BY <4>1 DEF Agree
    <3>2. SaidBefore'
      <4> SUFFICES ASSUME NEW q \in DOMAIN before' \ excused
                   PROVE  before'[q] = TextOf(recorded.tree, q)
        BY <2>1 DEF SaidBefore
      <4>1. CASE q \in DOMAIN before
        BY <2>2, <2>3, <4>1 DEF Accounts, SaidBefore
      <4>2. CASE q \notin DOMAIN before
        <5>1. q = p /\ before'[p] = Says(p)
          BY <2>2, <4>2
        <5>2. Agree(recorded.tree, Build, p)
          BY <2>3, <4>2, <5>1 DEF Accounts, OthersOnly
        <5> QED BY <5>1, <5>2, AgreeSays, SaysIs
      <4> QED BY <4>1, <4>2
    <3>3. ShownFirst'
      BY <1>2 DEF AtRest, NoJournal, ShownFirst
    <3> QED BY <3>1, <3>2, <3>3
  <2> QED BY <2>1, <2>3 DEF Accounts
<1> QED BY <1>1, <1>2

\* Nothing of it changes.
LEMMA TurnsKept ==
    ASSUME Turns, UNCHANGED <<journal, recorded, job, step, profile.there>>,
           excused \subseteq excused'
    PROVE  Turns'
  BY DEF Turns, Own

-----------------------------------------------------------------------------
(***************************************************************************)
(* What others do                                                          *)
(***************************************************************************)

\* A write in a live directory counts where the profile is that directory.
LEMMA EditLiveDrift ==
    ASSUME DriftInv, NEW d \in Dir, NEW n \in Name, EditLive(d, n)
    PROVE  Turns' /\ Accounts'
<1>. USE DEF DriftInv
<1>1. /\ UNCHANGED <<profile, recorded, shown, journal, step, job>>
      /\ IF profile.there /\ profile.root = d THEN Noted(<<d, n>>)
         ELSE UNCHANGED <<before, excused>>
  BY DEF EditLive, Edits, process
<1>2. /\ \A m \in Name \ {n} : /\ m \in DOMAIN live'[d].files <=> m \in DOMAIN live[d].files
                               /\ m \in DOMAIN live[d].files =>
                                     live'[d].files[m] = live[d].files[m]
      /\ \A e \in Dir \ {d} : live'[e] = live[e]
  BY EditLiveDoes DEF ProfilesInv
<1>3. profile.root \in Dir \union {Nowhere}
  BY DEF ProfilesInv, Types, ProfileType
<1>4. ASSUME NEW q, q # <<d, n>>
      PROVE  Agree(Build, Build', q)
  <2>1. CASE profile.root = Nowhere
    <3>1. FilesOf(profile', live') = FilesOf(profile, live)
      BY <1>1, <2>1 DEF FilesOf
    <3> QED BY <1>1, <3>1, SameRow, BuildIs
  <2>2. CASE profile.root # Nowhere
    <3>1. /\ FilesOf(profile, live) = [e \in {profile.root} |-> live[e].files]
          /\ FilesOf(profile', live') = [e \in {profile.root} |-> live'[e].files]
      BY <1>1, <2>2 DEF FilesOf
    <3>2. ASSUME q \in Dir \X Name, q[1] = profile.root
          PROVE  /\ q[2] \in DOMAIN live[q[1]].files <=> q[2] \in DOMAIN live'[q[1]].files
                 /\ q[2] \in DOMAIN live[q[1]].files =>
                       live[q[1]].files[q[2]] = live'[q[1]].files[q[2]]
      BY <1>2, <1>4, <3>2
    <3>3. q \in Dir \X Name =>
             LET was == FilesOf(profile, live)
                 is == FilesOf(profile', live')
             IN  /\ q[1] \in DOMAIN was <=> q[1] \in DOMAIN is
                 /\ q[1] \in DOMAIN was =>
                       /\ q[2] \in DOMAIN was[q[1]] <=> q[2] \in DOMAIN is[q[1]]
                       /\ q[2] \in DOMAIN was[q[1]] => was[q[1]][q[2]] = is[q[1]][q[2]]
      BY <3>1, <3>2
    <3> QED BY <1>1, <2>2, <3>3, SameRow, BuildIs
  <2> QED BY <2>1, <2>2
<1>5. CASE profile.there /\ profile.root = d
  <2>1. Accounts' /\ excused \subseteq excused'
    BY <1>1, <1>4, <1>5, NotedChange
  <2> QED BY <1>1, <2>1, TurnsKept
<1>6. CASE ~profile.there
  BY <1>1, <1>6, TurnsKept DEF Turns, Accounts
<1>7. CASE profile.root # d
  <2>1. FilesOf(profile', live') = FilesOf(profile, live)
    BY <1>1, <1>2, <1>3, <1>7 DEF FilesOf
  <2>2. \A q : Agree(Build, Build', q)
    BY <1>1, <2>1, SameRow, BuildIs
  <2> QED BY <1>1, <1>7, <2>2, Excused, TurnsKept
<1> QED BY <1>5, <1>6, <1>7

\* So does one in the profile.
LEMMA EditProfileDrift ==
    ASSUME DriftInv, NEW d \in Dir, NEW n \in Name, EditProfile(d, n)
    PROVE  Turns' /\ Accounts'
<1>. USE DEF DriftInv
<1>. DEFINE old == profile.payload[d]
<1>1. /\ UNCHANGED <<live, recorded, shown, journal, step, job>>
      /\ d \in DOMAIN profile.payload
      /\ Noted(<<d, n>>)
  BY DEF EditProfile, Edits, process
<1>2. PICK files \in Edited(old, n) : profile' = [profile EXCEPT !.payload[d] = files]
  BY Zenon DEF EditProfile
<1>3. profile \in ProfileType /\ profile.payload \in Payload
  BY DEF ProfilesInv, Types, ProfileType
<1>4. old \in Tree /\ DOMAIN profile.payload \subseteq Dir
      /\ profile.payload \in [DOMAIN profile.payload -> Tree]
  BY <1>1, <1>3, PayloadElim
<1>5. \A m \in Name \ {n} : (m \in DOMAIN files <=> m \in DOMAIN old)
                            /\ (m \in DOMAIN old => files[m] = old[m])
  <2>1. CASE \E t \in Text : files = Put(old, n, [text |-> t, at |-> edits + 1])
    BY <2>1 DEF Put
  <2>2. CASE files = Without(old, n)
    BY <2>2 DEF Without
  <2>3. \/ files \in {Put(old, n, [text |-> t, at |-> edits + 1]) : t \in Text}
        \/ files = Without(old, n)
    BY <1>2, Zenon DEF Edited, Written
  <2> QED BY <2>1, <2>2, <2>3
<1> HIDE DEF old
<1>6. /\ UNCHANGED <<profile.there, profile.root, profile.volatile, profile.toml>>
      /\ profile'.payload = [profile.payload EXCEPT ![d] = files]
  BY <1>2, <1>3 DEF ProfileType
<1>7. /\ DOMAIN profile'.payload = DOMAIN profile.payload
      /\ \A e \in DOMAIN profile.payload \ {d} : profile'.payload[e] = profile.payload[e]
      /\ profile'.payload[d] = files
  BY <1>1, <1>4, <1>6
<1>8. ASSUME NEW q, q # <<d, n>>
      PROVE  Agree(Build, Build', q)
  <2>1. CASE profile.root # Nowhere
    <3>1. FilesOf(profile', live') = FilesOf(profile, live)
      BY <1>1, <1>6, <2>1 DEF FilesOf
    <3> QED BY <1>6, <3>1, SameRow, BuildIs
  <2>2. CASE profile.root = Nowhere
    <3>1. /\ FilesOf(profile, live) = profile.payload
          /\ FilesOf(profile', live') = profile'.payload
      BY <1>6, <2>2 DEF FilesOf
    <3>2. ASSUME q \in Dir \X Name, q[1] \in DOMAIN profile.payload
          PROVE  /\ q[2] \in DOMAIN profile.payload[q[1]] <=> q[2] \in DOMAIN profile'.payload[q[1]]
                 /\ q[2] \in DOMAIN profile.payload[q[1]] =>
                       profile.payload[q[1]][q[2]] = profile'.payload[q[1]][q[2]]
      <4>1. CASE q[1] # d
        BY <1>7, <3>2, <4>1
      <4>2. CASE q[1] = d
        <5>1. q[2] \in Name \ {n}
          BY <1>8, <3>2, <4>2
        <5> QED BY <1>5, <1>7, <4>2, <5>1 DEF old
      <4> QED BY <4>1, <4>2
    <3>3. q \in Dir \X Name =>
             LET was == FilesOf(profile, live)
                 is == FilesOf(profile', live')
             IN  /\ q[1] \in DOMAIN was <=> q[1] \in DOMAIN is
                 /\ q[1] \in DOMAIN was =>
                       /\ q[2] \in DOMAIN was[q[1]] <=> q[2] \in DOMAIN is[q[1]]
                       /\ q[2] \in DOMAIN was[q[1]] => was[q[1]][q[2]] = is[q[1]][q[2]]
      BY <1>7, <3>1, <3>2
    <3> QED BY <1>6, <3>3, SameRow, BuildIs
  <2> QED BY <2>1, <2>2
<1>9. Accounts' /\ excused \subseteq excused'
  BY <1>1, <1>8, NotedChange
<1> QED BY <1>1, <1>6, <1>9, TurnsKept

\* And one in profile.toml.
LEMMA EditTomlDrift ==
    ASSUME DriftInv, EditToml
    PROVE  Turns' /\ Accounts'
<1>. USE DEF DriftInv
<1>1. /\ UNCHANGED <<live, recorded, shown, journal, step, job>>
      /\ profile' = [profile EXCEPT !.toml.notes = edits + 1]
      /\ Noted(ManifestPath)
  BY DEF EditToml, Edits, process
<1>2. /\ UNCHANGED <<profile.there, profile.root, profile.volatile, profile.payload>>
  BY <1>1 DEF ProfilesInv, Types, ProfileType
<1>3. FilesOf(profile', live') = FilesOf(profile, live)
  BY <1>1, <1>2 DEF FilesOf
<1>4. \A q : q # ManifestPath => Agree(Build, Build', q)
  BY <1>2, <1>3, SameRow, BuildIs
<1>5. Accounts' /\ excused \subseteq excused'
  BY <1>1, <1>4, NotedChange
<1> QED BY <1>1, <1>2, <1>5, TurnsKept

\* A directory replaced by another that holds the same changes no row.
LEMMA ReplaceDrift ==
    ASSUME DriftInv, NEW d \in Dir, Replace(d)
    PROVE  Turns' /\ Accounts'
<1>. USE DEF DriftInv
<1>1. /\ UNCHANGED <<profile, recorded, before, excused, shown, journal, step, job>>
      /\ live' = [live EXCEPT ![d].ino = @ + 1]
  BY DEF Replace, Edits, process
<1>2. \A e \in Dir : live'[e].files = live[e].files
  BY <1>1 DEF ProfilesInv, Types, LiveType
<1>3. profile.root \in Dir \union {Nowhere}
  BY DEF ProfilesInv, Types, ProfileType
<1>4. FilesOf(profile', live') = FilesOf(profile, live)
  BY <1>1, <1>2, <1>3 DEF FilesOf
<1>5. \A q : Agree(Build, Build', q)
  BY <1>1, <1>4, SameRow, BuildIs
<1> QED BY <1>1, <1>5, Excused, TurnsKept

-----------------------------------------------------------------------------
(***************************************************************************)
(* What ricepilot does                                                     *)
(***************************************************************************)

\* Where neither the live paths nor the profile changes, no row does.
LEMMA Idle ==
    ASSUME Accounts, UNCHANGED <<live, profile, recorded, before, excused>>,
           journal'.kind = "switch" => journal.kind = "switch" /\ shown' = shown
    PROVE  Accounts'
<1>1. \A q : Agree(Build, Build', q)
  BY BuildIs DEF Agree
<1> QED BY <1>1, Excused

\* Walking over a directory, and giving up.
LEMMA WalkDrift ==
    ASSUME DriftInv, List \/ Look
    PROVE  Turns' /\ Accounts'
<1>1. UNCHANGED <<disk, drifting, step, job>>
  BY DEF List, Look, Goes
<1> QED BY <1>1, Idle, TurnsKept DEF DriftInv, disk, drifting

LEMMA EndsDrift ==
    ASSUME DriftInv, WalkFails \/ Refuse \/ Stop
    PROVE  Turns' /\ Accounts'
<1>1. UNCHANGED <<disk, drifting>> /\ step' = "free" /\ job' = NoJob
  BY DEF WalkFails, Refuse, Stop, Releases
<1>2. Accounts'
  BY <1>1, Idle DEF DriftInv, disk, drifting
<1>3. Turns'
  BY <1>1 DEF DriftInv, Turns, disk, drifting, NoJob, Own
<1> QED BY <1>2, <1>3

\* The end of a copy, and of a comparison.
LEMMA CopyEndsDrift ==
    ASSUME DriftInv, CopyEnds \/ Accept
    PROVE  Turns' /\ Accounts'
<1>1. /\ UNCHANGED <<live, profile, recorded, journal, drifting, job>>
      /\ step \in {"copy", "compare"}
      /\ step' \in {"compare", "declare", "next", "appear"}
  BY DEF CopyEnds, Accept, Compared, disk
<1>2. Accounts'
  BY <1>1, Idle DEF DriftInv, drifting
<1>3. Turns'
  BY <1>1 DEF DriftInv, Turns, drifting, Own
<1> QED BY <1>2, <1>3

\* The steps of capture and init that touch neither a profile nor a record.
LEMMA StagingDrift ==
    ASSUME DriftInv, WriteManifest \/ Register \/ \E d \in Dir : NextSource(d)
    PROVE  Turns' /\ Accounts'
<1>1. UNCHANGED <<live, profile, recorded, journal, drifting>>
  BY DEF WriteManifest, Register, NextSource
<1>2. Accounts'
  BY <1>1, Idle DEF DriftInv, drifting
<1>3. CASE WriteManifest
  <2>1. step' = "appear" /\ job' = job
    BY <1>3 DEF WriteManifest
  <2> QED BY <1>1, <1>2, <2>1 DEF DriftInv, Turns, drifting
<1>4. CASE Register
  <2>1. step' = "record" /\ job' = job /\ job \in InitJob /\ profile.there
    BY <1>4 DEF Register, DriftInv, ProfilesInv, Types, JobTypes, DeclaredInv
  <2>2. job.kind = "init"
    BY <2>1 DEF InitJob
  <2> QED BY <1>1, <1>2, <2>1, <2>2 DEF DriftInv, Turns, drifting
<1>5. ASSUME NEW d \in Dir, NextSource(d)
      PROVE  Turns'
  <2>1. /\ step' = "copy" /\ step = "next" /\ job \in CaptureJob
        /\ job' = [job EXCEPT !.todo = @ \ {d}, !.dir = d]
    BY <1>5 DEF NextSource, DriftInv, ProfilesInv, Types, JobTypes
  <2>2. job.kind = "capture" /\ job'.kind = "capture"
    BY <2>1 DEF CaptureJob
  <2> QED BY <1>1, <2>1, <2>2 DEF DriftInv, Turns, drifting
<1> QED BY <1>2, <1>3, <1>4, <1>5

\* capture and init begin where no profile is, so nothing is recorded.
LEMMA FirstDrift ==
    ASSUME DriftInv,
           \/ \E from \in SUBSET Dir : StartCapture(from)
           \/ \E d \in Dir, volatile \in {{}, Volatile} : StartInit(d, volatile)
    PROVE  Turns' /\ Accounts'
<1>1. /\ UNCHANGED <<live, profile, recorded, journal, drifting>>
      /\ ~profile.there
      /\ step' \in {"next", "copy"} /\ job'.kind \in {"capture", "init"}
  BY DEF StartCapture, StartInit, Begins
<1>2. Accounts'
  BY <1>1, Idle DEF DriftInv, drifting
<1>3. Turns'
  BY <1>1 DEF DriftInv, Turns, drifting
<1> QED BY <1>2, <1>3

\* An adopt's new directory in the profile is its own.
LEMMA StartAdoptDrift ==
    ASSUME DriftInv, NEW d \in Dir, StartAdopt(d)
    PROVE  Turns' /\ Accounts'
<1>1. /\ step' = "copy" /\ profile.there /\ ~ByReference
      /\ job' = [kind |-> "adopt", dir |-> d, ino |-> live[d].ino]
      /\ profile' = [profile EXCEPT !.payload = Put(@, d, Empty)]
      /\ excused' = excused \union Own(d)
      /\ UNCHANGED <<live, recorded, journal, before, shown>>
  BY DEF StartAdopt, Begins
<1>2. profile \in ProfileType
  BY DEF DriftInv, ProfilesInv, Types
<1>3. /\ UNCHANGED <<profile.there, profile.root, profile.volatile, profile.toml>>
      /\ profile'.payload = Put(profile.payload, d, Empty)
  BY <1>1, <1>2 DEF ProfileType
<1>4. /\ FilesOf(profile, live) = profile.payload
      /\ FilesOf(profile', live') = Put(profile.payload, d, Empty)
  BY <1>1, <1>3 DEF FilesOf, ByReference
<1>5. ASSUME NEW q, q \notin excused'
      PROVE  Agree(Build, Build', q)
  <2>1. q \in Dir \X Name => q[1] # d
    BY <1>1, <1>5 DEF Own
  <2>2. q \in Dir \X Name =>
           /\ q[1] \in DOMAIN profile.payload <=> q[1] \in DOMAIN Put(profile.payload, d, Empty)
           /\ q[1] \in DOMAIN profile.payload =>
                 Put(profile.payload, d, Empty)[q[1]] = profile.payload[q[1]]
    BY <2>1 DEF Put
  <2> QED BY <1>3, <1>4, <2>2, SameRow, BuildIs
<1>6. Accounts'
  BY <1>1, <1>5, Excused DEF DriftInv
<1>7. Turns'
  BY <1>1, <1>3 DEF DriftInv, Turns, Own
<1> QED BY <1>6, <1>7

\* A switch shows all the drift before its journal is written.
LEMMA StartSwitchDrift ==
    ASSUME DriftInv, NEW strict \in BOOLEAN, StartSwitch(strict)
    PROVE  Turns' /\ Accounts'
<1>1. /\ step' = "apply" /\ profile.there /\ job' = [kind |-> "switch"]
      /\ journal' = [kind |-> "switch", crossed |-> FALSE]
      /\ shown' = Drift
      /\ UNCHANGED <<live, profile, recorded, before, excused>>
  BY DEF StartSwitch, Begins
<1>2. Turns'
  BY <1>1 DEF DriftInv, Turns, JournalType
<1>3. ASSUME recorded # NoRecord
      PROVE  OthersOnly' /\ SaidBefore' /\ ShownFirst'
  <2>1. Build' = Build
    BY <1>1, BuildIs
  <2>2. OthersOnly' /\ SaidBefore'
    BY <1>1, <1>3, <2>1 DEF DriftInv, Accounts, OthersOnly, SaidBefore
  <2>3. ShownFirst'
    BY <1>1, <1>3, <2>1, DriftReports, SaysIs DEF DriftInv, ShownFirst
  <2> QED BY <2>2, <2>3
<1> QED BY <1>1, <1>2, <1>3 DEF Accounts

\* recover does not look at the profile before it records it.
LEMMA StartRecoverDrift ==
    ASSUME DriftInv, StartRecover
    PROVE  Turns' /\ Accounts'
<1>1. /\ UNCHANGED <<live, profile, recorded, journal, drifting>>
      /\ job' = journal /\ journal # NoJournal
      /\ step' \in {"finish", "rerecord", "record"}
      /\ step' = "record" => journal.kind # "adopt"
  BY DEF StartRecover, disk
<1>2. journal.kind \in {"adopt", "switch"}
  BY <1>1 DEF DriftInv, Turns, JournalType
<1>3. Accounts'
  BY <1>1, Idle DEF DriftInv, drifting
<1>4. Turns'
  BY <1>1, <1>2 DEF DriftInv, Turns, drifting
<1> QED BY <1>3, <1>4

\* A name read: into the staging name, or into what is the adopt's own.
LEMMA ReadDrift ==
    ASSUME DriftInv, Read
    PROVE  Turns' /\ Accounts'
<1>1. PICK tree : Writes(tree)
  BY DEF Read
<1>2. UNCHANGED <<live, recorded, journal, drifting, step, job>>
  BY DEF Read, Goes
<1>3. CASE UNCHANGED profile
  BY <1>2, <1>3, Idle, TurnsKept DEF DriftInv, drifting
<1>4. CASE step = "copy" /\ job.kind = "adopt"
  <2>1. profile' = [profile EXCEPT !.payload[job.dir] = tree]
    BY <1>1, <1>4 DEF Writes
  <2>2. profile \in ProfileType /\ profile.payload \in Payload
    BY DEF DriftInv, ProfilesInv, Types, ProfileType
  <2>3. /\ UNCHANGED <<profile.there, profile.root, profile.volatile, profile.toml>>
        /\ profile'.payload = [profile.payload EXCEPT ![job.dir] = tree]
    BY <2>1, <2>2 DEF ProfileType
  <2>4. /\ DOMAIN profile'.payload = DOMAIN profile.payload
        /\ \A e \in DOMAIN profile.payload \ {job.dir} :
              profile'.payload[e] = profile.payload[e]
    BY <2>2, <2>3, PayloadElim
  <2>5. profile.root = Nowhere /\ Own(job.dir) \subseteq excused
    BY <1>4 DEF DriftInv, ProfilesInv, DeclaredInv, Adopting, ByReference, Turns
  <2>6. /\ FilesOf(profile, live) = profile.payload
        /\ FilesOf(profile', live') = profile'.payload
    BY <2>3, <2>5 DEF FilesOf
  <2>7. ASSUME NEW q, q \notin excused'
        PROVE  Agree(Build, Build', q)
    <3>1. q \in Dir \X Name => q[1] # job.dir
      BY <1>2, <2>5, <2>7 DEF Own, drifting
    <3> QED BY <2>3, <2>4, <2>6, <3>1, SameRow, BuildIs
  <2>8. Accounts'
    BY <1>2, <2>7, Excused DEF DriftInv, drifting
  <2> QED BY <1>2, <2>3, <2>8, TurnsKept DEF DriftInv, drifting
<1>5. UNCHANGED profile \/ (step = "copy" /\ job.kind = "adopt")
  <2>1. /\ InWalk /\ (step = "copy" => job \in CaptureJob \union InitJob \union AdoptJob)
    BY DEF Read, Walking, DriftInv, ProfilesInv, Types, JobTypes
  <2>2. step = "copy" => job.kind \in {"capture", "init", "adopt"}
    BY <2>1 DEF CaptureJob, InitJob, AdoptJob
  <2>3. step \in {"copy", "compare"}
    BY <2>1 DEF InWalk
  <2> QED BY <1>1, <2>2, <2>3 DEF Writes
<1> QED BY <1>3, <1>4, <1>5

\* The profile appears before anything is recorded of it.
LEMMA AppearDrift ==
    ASSUME DriftInv, Appear
    PROVE  Turns' /\ Accounts'
<1>1. /\ UNCHANGED <<recorded, journal, drifting, job>>
      /\ ~profile.there /\ profile'.there
      /\ step' \in {"record", "register"}
      /\ step' = "record" => job.kind = "capture"
  <2>1. staging \in ProfileType
    BY DEF DriftInv, ProfilesInv, Types
  <2> QED BY <2>1 DEF Appear, ProfileType
<1>2. recorded = NoRecord
  BY <1>1 DEF DriftInv, Turns
<1>3. Accounts'
  BY <1>1, <1>2 DEF Accounts
<1>4. Turns'
  BY <1>1, <1>2 DEF DriftInv, Turns, drifting, Own
<1> QED BY <1>3, <1>4

\* What adopt declares is in its own path profile.toml.
LEMMA DeclareDrift ==
    ASSUME DriftInv, Declare
    PROVE  Turns' /\ Accounts'
<1>1. /\ UNCHANGED <<live, recorded, journal, drifting, job>>
      /\ step = "declare" /\ step' = "journal" /\ job \in AdoptJob
      /\ profile' = [profile EXCEPT !.toml.declares = @ \union {job.dir}]
  BY DEF Declare, DriftInv, ProfilesInv, Types, JobTypes
<1>2. UNCHANGED <<profile.there, profile.root, profile.volatile, profile.payload>>
  BY <1>1 DEF DriftInv, ProfilesInv, Types, ProfileType
<1>3. ManifestPath \in excused
  BY <1>1 DEF DriftInv, Turns, AdoptJob, Own
<1>4. FilesOf(profile', live') = FilesOf(profile, live)
  BY <1>1, <1>2 DEF FilesOf
<1>5. \A q : q # ManifestPath => Agree(Build, Build', q)
  BY <1>2, <1>4, SameRow, BuildIs
<1>6. Accounts'
  BY <1>1, <1>3, <1>5, Excused DEF DriftInv, drifting
<1>7. Turns'
  BY <1>1, <1>2 DEF DriftInv, Turns
<1> QED BY <1>6, <1>7

\* The journal of an adopt is for a profile that is there.
LEMMA WriteJournalDrift ==
    ASSUME DriftInv, WriteJournal
    PROVE  Turns' /\ Accounts'
<1>1. /\ UNCHANGED <<live, profile, recorded, drifting, job>>
      /\ step = "journal" /\ step' = "exchange" /\ job \in AdoptJob
      /\ journal' = [kind |-> "adopt", dir |-> job.dir]
  BY DEF WriteJournal, DriftInv, ProfilesInv, Types, JobTypes
<1>2. job.kind = "adopt" /\ job.dir \in Dir /\ profile.there
  BY <1>1 DEF AdoptJob, DriftInv, ProfilesInv, DeclaredInv, Adopting
<1>3. Accounts'
  BY <1>1, Idle DEF DriftInv, drifting
<1>4. Turns'
  BY <1>1, <1>2 DEF DriftInv, Turns, JournalType
<1> QED BY <1>3, <1>4

\* The exchange is of a live path, and the profile is not one.
LEMMA ExchangeDrift ==
    ASSUME DriftInv, Exchange
    PROVE  Turns' /\ Accounts'
<1>1. /\ UNCHANGED <<profile, recorded, journal, drifting, job>>
      /\ step = "exchange" /\ step' = "rerecord" /\ job \in AdoptJob
  BY DEF Exchange, DriftInv, ProfilesInv, Types, JobTypes
<1>2. profile.root = Nowhere
  BY <1>1 DEF AdoptJob, DriftInv, ProfilesInv, DeclaredInv, Adopting, ByReference
<1>3. FilesOf(profile', live') = FilesOf(profile, live)
  BY <1>1, <1>2 DEF FilesOf
<1>4. \A q : Agree(Build, Build', q)
  BY <1>1, <1>3, SameRow, BuildIs
<1>5. Accounts'
  BY <1>1, <1>4, Excused DEF DriftInv, drifting
<1>6. Turns'
  BY <1>1 DEF DriftInv, Turns
<1> QED BY <1>5, <1>6

\* The rows of the given paths are those of the profile, the others as they
\* were.
LEMMA RerecordedRows ==
    ASSUME NEW mine, NEW p
    PROVE  /\ p \in mine => Agree(Rerecorded(mine).tree, Build, p)
           /\ p \notin mine => Agree(recorded.tree, Rerecorded(mine).tree, p)
<1>. DEFINE kept == DOMAIN recorded.tree \ mine
            made == DOMAIN Build \intersect mine
<1>1. Rerecorded(mine).tree =
         [q \in kept \union made |-> IF q \in made THEN Build[q] ELSE recorded.tree[q]]
  BY DEF Rerecorded
<1> QED BY <1>1 DEF Agree

\* rerecord_adopted: the adopt's own paths, and the changes of others at them
\* are in the record from then on.
LEMMA RerecordDrift ==
    ASSUME DriftInv, Rerecord
    PROVE  Turns' /\ Accounts'
<1>. DEFINE mine == Own(job.dir)
<1>1. /\ UNCHANGED <<live, profile, journal, job, shown>>
      /\ step' = "finish"
      /\ recorded' = IF recorded = NoRecord THEN NoRecord ELSE Rerecorded(mine)
      /\ before' = Restrict(before, DOMAIN before \ mine)
      /\ excused' = excused \ mine
  BY DEF Rerecord
<1>2. recorded' = NoRecord <=> recorded = NoRecord
  <2>1. Rerecorded(mine).is = "tree"
    BY DEF Rerecorded
  <2> QED BY <1>1, <2>1 DEF NoRecord
<1>3. Turns'
  BY <1>1, <1>2 DEF DriftInv, Turns
<1>4. /\ DOMAIN before' = DOMAIN before \ mine
      /\ \A p \in DOMAIN before' : before'[p] = before[p]
  BY <1>1 DEF Restrict
<1>5. Build' = Build
  BY <1>1, BuildIs
<1> HIDE DEF mine
<1>6. ASSUME recorded # NoRecord
      PROVE  OthersOnly' /\ SaidBefore' /\ ShownFirst'
  <2>1. recorded' = Rerecorded(mine)
    BY <1>1, <1>6
  <2>2. OthersOnly'
    <3> SUFFICES ASSUME NEW p, p \notin DOMAIN before' \union excused'
                 PROVE  Agree(recorded'.tree, Build', p)
      BY DEF OthersOnly
    <3>1. CASE p \in mine
      BY <1>5, <2>1, <3>1, RerecordedRows
    <3>2. CASE p \notin mine
      <4>1. Agree(recorded.tree, Build, p)
        BY <1>1, <1>4, <1>6, <3>2 DEF DriftInv, Accounts, OthersOnly
      <4>2. Agree(recorded.tree, recorded'.tree, p)
        BY <2>1, <3>2, RerecordedRows
      <4> QED BY <1>5, <4>1, <4>2 DEF Agree
    <3> QED BY <3>1, <3>2
  <2>3. SaidBefore'
    <3> SUFFICES ASSUME NEW p \in DOMAIN before' \ excused'
                 PROVE  before'[p] = TextOf(recorded'.tree, p)
      BY DEF SaidBefore
    <3>1. p \in DOMAIN before \ excused /\ p \notin mine
      BY <1>1, <1>4
    <3>2. before[p] = TextOf(recorded.tree, p)
      BY <1>6, <3>1 DEF DriftInv, Accounts, SaidBefore
    <3>3. Agree(recorded.tree, recorded'.tree, p)
      BY <2>1, <3>1, RerecordedRows
    <3> QED BY <1>4, <3>2, <3>3, AgreeSays
  <2>4. ShownFirst'
    <3> SUFFICES ASSUME journal'.kind = "switch", NEW p \in DOMAIN before' \ excused',
                        before'[p] # Says(p)'
                 PROVE  p \in shown'
      BY DEF ShownFirst
    <3>1. p \in DOMAIN before \ excused /\ before'[p] = before[p]
      BY <1>1, <1>4
    <3>2. Says(p)' = Says(p)
      BY <1>5, SaysIs
    <3> QED BY <1>1, <1>6, <3>1, <3>2 DEF DriftInv, Accounts, ShownFirst
  <2> QED BY <2>2, <2>3, <2>4
<1> QED BY <1>2, <1>3, <1>6 DEF Accounts

\* The exchanges of a switch change no profile.
LEMMA ApplyDrift ==
    ASSUME DriftInv, Apply
    PROVE  Turns' /\ Accounts'
<1>1. /\ UNCHANGED <<live, profile, recorded, drifting, job>>
      /\ step = "apply" /\ step' = "record"
      /\ journal' = [journal EXCEPT !.crossed = TRUE]
  BY DEF Apply
<1>2. journal \in [kind : {"switch"}, crossed : BOOLEAN] /\ profile.there
  BY <1>1 DEF DriftInv, Turns, JournalType, NoJournal
<1>3. journal' \in [kind : {"switch"}, crossed : BOOLEAN] /\ journal'.kind = "switch"
  BY <1>1, <1>2
<1>4. Accounts'
  BY <1>1, <1>2, <1>3, Idle DEF DriftInv, drifting
<1>5. Turns'
  BY <1>1, <1>2, <1>3 DEF DriftInv, Turns, JournalType
<1> QED BY <1>4, <1>5

\* A whole record has nothing to report.
LEMMA RecordDrift ==
    ASSUME DriftInv, Record
    PROVE  Turns' /\ Accounts'
<1>1. /\ UNCHANGED <<live, profile, journal>>
      /\ step = "record" /\ recorded' = [is |-> "tree", tree |-> Build]
      /\ before' = Empty /\ excused' = {}
      /\ \/ step' = "free" /\ job' = NoJob
         \/ step' = "finish" /\ job' = job /\ job.kind \notin {"capture", "init"}
  BY DEF Record, Releases
<1>2. Turns'
  BY <1>1 DEF DriftInv, Turns, NoJob
<1>3. Build' = Build /\ recorded'.tree = Build /\ DOMAIN before' = {}
  BY <1>1, BuildIs DEF Empty
<1>4. OthersOnly' /\ SaidBefore' /\ ShownFirst'
  BY <1>3 DEF OthersOnly, SaidBefore, ShownFirst, Agree
<1> QED BY <1>2, <1>4 DEF Accounts

\* mark_done.
LEMMA FinishDrift ==
    ASSUME DriftInv, Finish
    PROVE  Turns' /\ Accounts'
<1>1. /\ UNCHANGED <<live, profile, recorded, before, excused>>
      /\ journal' = NoJournal /\ step' = "free" /\ job' = NoJob
  BY DEF Finish, Releases
<1>2. Accounts'
  BY <1>1, Idle DEF DriftInv, NoJournal
<1>3. Turns'
  BY <1>1 DEF DriftInv, Turns, JournalType, NoJob
<1> QED BY <1>2, <1>3

-----------------------------------------------------------------------------
(***************************************************************************)
(* The theorem                                                             *)
(***************************************************************************)

LEMMA DriftBegins == Init => DriftInv
<1> SUFFICES ASSUME Init PROVE Turns /\ Accounts
  BY InitHolds DEF DriftInv
<1>1. Turns
  BY DEF Init, Turns, JournalType, NoJob
<1>2. Accounts
  BY DEF Init, Accounts
<1> QED BY <1>1, <1>2

LEMMA DriftStep ==
    ASSUME DriftInv, [Next]_vars
    PROVE  DriftInv'
<1>1. ProfilesInv'
  BY StepHolds DEF DriftInv
<1>2. CASE UNCHANGED vars
  <2>1. UNCHANGED <<live, profile, recorded, journal, step, job, before, excused, shown>>
    BY <1>2 DEF vars, disk, process, drifting
  <2> QED BY <1>1, <2>1, Idle, TurnsKept DEF DriftInv
<1>3. CASE Works
  BY <1>1, <1>3, WalkDrift, ReadDrift, EndsDrift, CopyEndsDrift, StagingDrift, AppearDrift,
     DeclareDrift, WriteJournalDrift, ExchangeDrift, RerecordDrift, ApplyDrift, RecordDrift,
     FinishDrift DEF Works, DriftInv
<1>4. CASE \/ \E from \in SUBSET Dir : StartCapture(from)
           \/ \E d \in Dir, volatile \in {{}, Volatile} : StartInit(d, volatile)
           \/ \E d \in Dir : StartAdopt(d)
           \/ \E strict \in BOOLEAN : StartSwitch(strict)
           \/ StartRecover
  BY <1>1, <1>4, FirstDrift, StartAdoptDrift, StartSwitchDrift, StartRecoverDrift DEF DriftInv
<1>5. CASE \/ Stop
           \/ \E d \in Dir, n \in Name : EditLive(d, n) \/ EditProfile(d, n)
           \/ EditToml
           \/ \E d \in Dir : Replace(d)
  BY <1>1, <1>5, EndsDrift, EditLiveDrift, EditProfileDrift, EditTomlDrift, ReplaceDrift
     DEF DriftInv
<1> QED BY <1>2, <1>3, <1>4, <1>5 DEF Next

\* What doctor says of drift is true: at rest only paths others have changed
\* are reported, every change made at rest is reported until it is undone,
\* past an adopt in between, and no switch or recover records one that the
\* switch had not shown (D80).
THEOREM DriftIsOfOthers == Spec => []DriftIsOthers
<1>1. DriftInv /\ [Next]_vars => DriftInv'
  BY DriftStep
<1>2. DriftInv => DriftIsOthers
  BY DriftFollows
<1> QED BY <1>1, <1>2, DriftBegins, PTL DEF Spec
=============================================================================
