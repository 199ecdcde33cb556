# Verification of ricepilot

TLA+ specifications of ricepilot's core: how an operation on the desktop's
configuration links is journalled, applied, interrupted and recovered; how the
records it keeps stay true; how a directory becomes part of a profile; what is
asked of Hyprland before a switch and of the session after it; and what `doctor`
and `diff` say of it all. TLC checks them on small instances, and TLAPS proves
their safety properties for every instance. Paths below are
relative to `src/`.

## The system

| component | source | state | operations |
|---|---|---|---|
| planner | `src/plan.rs` | none | `plan`, `adopt_ops`: observations and targets to a list of ops, or a refusal of the whole |
| journal and recovery | `src/journal.rs` | `journal/current.toml`, `done-<id>.toml` | `write`, `plan_recovery`, `execute_then`, `mark_done` |
| mutators | `src/ops/mutate.rs` | the live paths, staging and scratch names, the attic | `create_symlink`, `create_symlink_tmp`, `exchange` (renameat2 or three renames), `rename_to_attic`, `copy_tree`, `write_atomic` |
| switch, rollback | `src/cli/switch.rs`, `src/cli/mod.rs` | the process's request and plan | `run_with`, `settle_recovered`, `cmd_switch`, `cmd_rollback`, `cmd_recover` |
| adopt | `src/cli/adopt.rs` | the profile's payload and manifest | copy, compare, declare, journal, exchange, record |
| init, capture | `src/cli/init.rs`, `src/cli/capture.rs`, `src/survey.rs` | profiles, baseline, ledger | a profile is assembled at a staging name and renamed in |
| integrity | `src/verify.rs`, `src/diff.rs` | `state/manifests/<name>.toml` | `build`, `compare`, `against_record`, `rerecord_paths` |
| ownership | `src/observe.rs`, `src/ledger.rs` | `ledger.toml` | `owns`, `observe_one`, `record`, `forget` |
| generations | `src/generations.rs` | `generations/NNNN.toml`, `generations/current` | `observe`, `targets`, `save`, `set_current` |
| rescue | `src/rescue.rs` | `rescue.sh` | `regenerate`; the script itself runs without lock or ledger |
| doctor | `src/doctor.rs` | none | findings about records, links, manifests and sources, each with a command |
| lock | `src/ops/lock.rs` | a flock on a file | `acquire`, `is_at_its_path` |
| gc | `src/gc/*`, `src/cli/gc.rs` | `state/attic/`, `state/gc/<tombstone>` | `candidates`, `collect`, `bury`, `erase` |
| relogin | `src/cli/relogin.rs` | none | gathers facts, asks, gathers again, stops the session |
| pre-flight | `src/hyprverify.rs`, `src/hyprconf.rs`, `src/ops/exec/sandbox.rs` | a scratch copy | resolves `source` lines, copies and blanks, runs verify-config |
| subprocesses | `src/ops/exec.rs` | a child, its pipes and threads | `run`: start, feed, drain, kill, collect |
| output, parsing | `src/cli/render.rs`, `src/manifest.rs`, ... | none | read-only |

How they interact. Every command that changes something takes the lock and
holds it until its process ends. A switch reads its request *before* it takes
the lock, plans under it, has the config of the new profile verified in a copy,
and then makes these writes in this order: generation 0000 if there is none, the
journal, the renames, the new generation, the pointer at it, the ledger,
the tree manifest of the profile, `rescue.sh`, and last the retirement of the
journal. With `--relogin` it then asks, still under the lock, whether to end the
session. While a journal is in flight every command that writes one refuses;
`recover` has nothing but the journal and the disk: it decides a direction,
drives every destination there and writes the records the dead process did not
get to. `init`, `capture` and `gc` write no journal. `rescue.sh`, the user and
other programs do not know of the lock at all: they move live paths, write into
directories that are being copied and into profiles, edit manifests, and put
other files where the lock file was. `doctor` and `diff` only read, from
records written one after the other.

What is hard. A process may die between any two system calls, and so may the
recover after it. The fallback exchange leaves a live path empty for a moment.
Records are separate files. Requests are computed before the lock. A directory
is in use while it is copied and compared. A child process may hang, not read,
never close its pipes or exit in the moment in which it is killed. PROJECT.json
lists each of these hazards at its line; the properties below are aimed at them.

What makes each part correct: an operation ends on one side for all of its paths
and loses no object (`AtomicSwitch`, `AllOrNothing`, `NothingLost`); records say
what is live and own only what ricepilot made (`CurrentIsTrue`,
`CurrentIsComplete`, `OwnWorkIsOwned`, `OwnsNothingElse`); a profile holds what
the directory held (`CopyIsOneMoment`, `DeclaredIsCopied`) and what is reported
about it is true (`DriftIsOthers`); what goes for good was shown and is held
elsewhere (`TakesOnlyWhatWasShown`, `TakesOnlyWhatIsHeld`); the session ends only
on what was verified after the answer (`StopsOnWhatWasTrue`); a verdict is about
the config that will be read (`FaithfulCopy`); an answer of a child is whole or
says that it is not (`AnswerIsHonest`); and advice leads where it says
(`RescueIsAnswered`, `ReportsForetellSwitch`).

## The modules

**`AtomicSwitch`** is what an operation promises: destinations are on the old or
the new side, cross one by one and never back, and the operation ends *switched*
(all crossed, records written) or *abandoned* (none crossed, nothing written).

**`Journal`** is one operation at the level of its renames. A destination has
three names (`live`, `staged`, `swap`) and an attic; each name holds nothing,
the object of before, the new link, or something else. One action per system
call that moves something:

| action | code |
|---|---|
| `Begin` | `journal::write`, phase B of `switch::run_with` |
| `StageLink`, `CreateLink` | `create_symlink_tmp`, `create_symlink` |
| `ExchangeAtomic` | `exchange_atomic` (RENAME_EXCHANGE) |
| `ExchangeFallback`, `ParkLive`, `LookLive`, `LandNew` | the three renames of `exchange_fallback`; the last one's look and rename apart, because its new name is the live path |
| `DisplaceStaged`, `DisplaceSwap`, `RetireLink` | `rename_to_attic` |
| `Settle` | generation, ledger and rescue.sh as one step (module `Operations` takes it apart) |
| `MarkDone` | `mark_done` |
| `Recover` | `plan_recovery`: `Side` is `side_of`, `retire_side` and `adopt_side`; `Forward` and `Backward` are `actions_for` and `actions_for_adopt` |
| `StepFails` | an op returns an error: nothing is unwound |
| `Stop` | the process dies; its memory (`work`) is gone |
| `Tamper` | another program changes a live path, at any moment |

`work[d]` is what the process still has to do to `d`. The actions of one plan
are ordered by `Turn`: phase by phase in an apply (`plan`), destination by
destination in a recover (`execute_then`).

**`Operations`** is many commands. A destination crosses in one step, as
`AtomicSwitch` has it, and the subject is the records: `gens`, `current`,
`ledger`, `rescue`, `journal`, the manifests (`claims`) and source directories
(`payload`) of the profiles. `AskSwitch`/`AskRollback` and `ReadLedger` are the
reads before the lock; `GivesUp` is every refusal; `Start`, `StartAdopt` and
`StartRecover` take the lock; `step` names the next write. Objects carry an inode
and, as history, who made them, so that the ownership predicate can be compared
with the truth.

**`Diagnosis`** extends `Operations` with the hands that make work for `doctor`
and `diff`, and has what those two print as operators:

| definition | code |
|---|---|
| `RunRescue` | what `rescue.sh` does to every path of its generation |
| `EditManifest`, `TakeSource` | the user deletes a `[[path]]`, or takes a directory out of a profile |
| `Traces` | the retired journal and the attic of an adopt, which `doctor` reads |
| `LinkFinding`, `RestoredUnrecorded` | `owned_links`, `restored_unrecorded` |
| `Advice` | the commands printed under a finding |
| `Undeclared`, `MissingSource`, `Emptied`, `RescueUnreliable` | `manifests_agree_with_ledger`, `sources`, `adopted_then_emptied`, `rescue` |
| `Differs` | the rows of `diff` that are not "same" |

**`Profiles`** is how a profile comes to hold files. A tree is a function from
names to a content and the time of its last write; a directory is walked name by
name, with a look and a read in steps of their own, and a subdirectory listed when
the walk comes to it:

| action | code |
|---|---|
| `StartCapture`, `StartInit`, `StartAdopt`, `StartSwitch`, `StartRecover` | a command under the lock, past its plan and its question |
| `List`, `Look`, `Read`, `WalkFails` | `list_dir`, `statat`/`lstat`, `copy_file`/`hash_file` of `copy_tree` and of `verify::build`, and their errors |
| `CopyEnds`, `Accept`, `Refuse` | the second walk, `compare`, `still_the_same_directory`; nothing is taken back |
| `NextSource`, `WriteManifest`, `Appear`, `Register` | the staged profile, its rename, init's ledger rows |
| `Declare`, `WriteJournal`, `Exchange`, `Rerecord` | adopt from the accepted copy on; `Rerecord` is `rerecord_adopted` |
| `Apply`, `Record`, `Finish` | a switch, `verify::save`, `mark_done` |
| `Stop` | the process dies or one of its writes fails |
| `EditLive`, `EditProfile`, `EditToml`, `Replace` | programs and the user, at any moment |

**`Gc`** is `gc --commit`. An entry of the attic is a small tree of objects with
an inode and a content; the entry (`attic`), its tombstone (`tomb`), the profile's
copy of an adopted directory and what is at the destination are changed by gc and
by others:

| action | code |
|---|---|
| `Survey`, `Typed`, `NotTyped`, `Leaves` | `cli::gc::run`: everything is itemised above the first question |
| `LoadRefs`, `Walk`, `Accept` | `collect`'s second look: the records, then the tree, then the verdict and the comparison with the listing |
| `Bury`, `Resume` | `remove::bury`, one rename; `Tombstone::already` for an interrupted removal |
| `Look`, `Unlink`, `Finish` | `remove::empty` and `erase`: the look at an object and its removal are apart |
| `Refuse` | every refusal of `collect` and `erase`; what is left stays |
| `Stop` | gc dies; the listing it worked from is gone |
| `RescueParks` | the script parks a link in its attic, without the lock |
| `Meddle`, `CopyDrifts`, `LinkByHand`, `WayBack` | others change entries, copies and live paths at any moment |
| `Operates`, `Recover` | the operations that need the lock |

`Fit` is `assess`: what a known link leads into is kept in either area
(`Refs::pointing_into`), and only an entry of the attic is judged by what it holds.

**`Relogin`** is `--relogin`, with the lock it holds modelled as what it is, a
flock on the inode that was at a path:

| action | code |
|---|---|
| `Look`, `Open`, `Lock` | `acquire`: the look, `openat`, `fstat` and `flock` without waiting |
| `Begin`, `Cross`, `Point`, `Settle`, `Retire` | the order in which the switch before it changes what is looked at |
| `Read` | `gather`, one fact per step; `IsAtItsPath` is `is_at_its_path` |
| `Judge` | `preflight`; `Decide...` are `decide`'s checks |
| `Answer` | `confirm::affirmed`; a yes has everything read again |
| `UwsmStop` | `uwsm stop`, which may fail |
| `Change`, `Die` | the lock file, links, rescue.sh and the session are changed by others; a process is killed |

**`Exec`** is one supervised child. `GivesUp`, `Start`, `Exited`, `Overrun`,
`Kill`, `Reap`, `Collect` and `Report` are `run`, `supervise` and `collect`;
`Feed` and `Drain` are the threads; `ChildReads`, `Writes`, `Helps` and `Exits` are
what the child and the helper it leaves behind may do; `Reuse` gives the number of
a reaped child to a stranger; `Tick` is time.

**`HyprConf`**, **`Hyprland`** and **`VerifyConfig`** are the pre-flight. `HyprConf`
is what a line and a path in a config mean after the switch (`Context`,
`resolve_source`, `rewrite_paths`, `sanitize`). `Hyprland`, which is external, is
how Hyprland itself reads a config, of the live tree after the switch or of the
copy: the definition the copy is checked against. A reading is followed a step at a
time: `Step` is `Visit` a file, `ReadNext` line or `Close` the file, and `Run` is
the reading after each of its steps. It reports what it comes to (`seen`) and what
Hyprland would say of the config as a whole (`told`); a `source` that names a
directory reads nothing. In `VerifyConfig` `Build`, the `Visit...`, `ReadLine`,
`LineRefuses` and `Leave...` actions are ricepilot's own recursive walk with its stack
made explicit, `Make`, `WriteCopy` and `PostCheck` the scratch copy, `Verify` the
run. `Edit` and `TakeName` are the user and another ricepilot.

The theorems about a module are in a module beside it: **`Journal_proofs`**,
**`Operations_proofs`**, **`Diagnosis_proofs`** on top of it, **`Profiles_proofs`**,
**`Gc_proofs`**, **`Relogin_proofs`**, **`Exec_proofs`** and
**`VerifyConfig_proofs`**. The **`MC...`** modules name the constants of the runs.

Definitions whose comment begins with "Mutant:" are plausible bugs, used only to
confirm that each property would notice one; no specification uses them.

## The runs

| run | bounds | shows |
|---|---|---|
| `journal` | 3 destinations of any kinds, both modes, 3 deaths | recover never meets a state it cannot read, no step fails, and `AtomicSwitch` is implemented, its liveness included (the journal is retired) |
| `journal_tampered` | 3 destinations, 2 deaths, 2 changes by others, none between a look and its rename | what nobody else touched is never mixed, never goes back and retires last; of the paths being replaced at most one is ever empty, and none under RENAME_EXCHANGE; no object is ever destroyed; the inductive invariant of the proof |
| `ops_sequential` | 2 paths, 2 profiles, 4 operations, 2 deaths, 2 user changes | the current generation covers every managed path; every journal is retired in the end |
| `ops_adopt` | the same with a directory to adopt, rescue.sh run, manifests edited, sources taken away | the records tell the truth, ricepilot's own links are owned, only those are displaced; a recover on a machine nobody else touched settles to the records the dead process would have written; `doctor` has nothing to say of such a machine; after rescue.sh its commands lead to the rollback that records what the script restored; `diff` and `doctor` foretell the next switch |
| `ops_side_by_side` | 2 commands waiting for the lock, 3 profiles, 3 operations, 1 death, 1 user change | no journal is buried, history is kept, nothing foreign becomes owned |
| `gc` | an adopt's attic and a rescue's, 2 deaths, 2 changes by others | an adopted directory goes only while the profile holds it and the live path is ricepilot's link, or the way back is kept; what goes is the very object that was shown; an entry a link leads into stays, in `state/gc/` too; an interrupted removal is finished in the end unless a link leads into it for good |
| `relogin` | 2 ricepilots, 2 destinations, 2 lock files, one change by others or failed read | the session ends only on facts that were true after the answer; while nobody touches the lock's path, no other switch has come in between; who finds its lock at its path knows that other holders hold older files; only the question makes anybody wait |
| `exec` | stdin of 2 units, pipes of 1, a cap of 1, one more written, limits of 1 tick | an answer not marked truncated is all that was written; a timeout leaves nobody of the group and strikes no stranger; every call returns |
| `verify_config` | 9438 configs of a head, a source and a tail, 4 files, 3 deep, one edit | the copy holds nothing that runs and leads nowhere outside; unedited, it reads as the config will after the switch; it is refused exactly for the reasons the code has |
| `profiles` | 2 directories with a file and a subdirectory's file, 3 commands, 2 changes by others, 1 death | an accepted copy is the directory at one moment; a manifest declares only accepted copies, and only those are displaced; drift is what others changed, all of it |

Two more runs check what the documentation says and the code does not do; each
is a finding in PROJECT.json:

1. `journal_adopt_absent`: an adopt of an absent path that dies before its link
   is made leaves a journal that `recover` refuses for ever (`src/journal.rs:778`).
2. `ops_race`: a rollback that read its target before the lock re-applies the
   wrong generation after another command got in between (`src/cli/mod.rs:440`).

Other places where code and documentation part, met while modelling and checked
by no run of their own:

- In the fallback mode a link made at a live path between `rename_within`'s look
  and its rename is replaced (`src/ops/mutate.rs:240`): `NothingLost` is false with
  `Races = TRUE`, and is checked and proved without.
- A retired path that was already gone keeps its ledger row when the operation
  dies and is recovered (`src/cli/switch.rs:557`): the journal holds less than the
  request. After rescue.sh on top of it `doctor` advises a switch back.
- A rollback restores a link to outside every profile and makes a state the next
  rollback refuses (`src/cli/adopt.rs:269`).
- `doctor` answers a link that rescue.sh made and that both generations have with
  a switch instead of the rollback of D81 (`src/doctor.rs:728`, the look-alike);
  `RescueIsAnswered` has it as its exception.
- What an adopt that was refused or died has left in the profile (its copy, its
  declaration) is reported as written by "an app, a script or an editor", although
  ricepilot wrote it (`src/cli/adopt.rs:228`, `:363`); `DriftIsOthers` excuses it.
- What is written between adopt's comparison and its exchange goes to the attic
  with the directory and is missing from the profile (`src/cli/adopt.rs:253`).
- An `init` that died between its rename and its ledger rows leaves a profile
  that makes every later `init` refuse (`src/cli/init.rs:250`); an `init` after
  generations exist registers links that the next rollback retires
  (`src/cli/init.rs:195`, `src/cli/mod.rs:464`).
- `is_at_its_path` does not show that no other ricepilot holds the lock
  (`src/ops/lock.rs:41-46`): one that locked a file which was taken away since may
  still run. `OthersHoldOlderFiles` says what it does show.
- A `source` with a glob over `~/.config/*/` counts a directory by what is there
  before the switch: where the switch creates a destination the copy misses it
  (`src/ops/exec/sandbox.rs:296`, against `sandbox.rs:22-24`). The run has no such
  destination.
- A link of the user's own that rescue.sh parked is offered by gc although its
  target is in no record (`src/gc/mod.rs:977`, against D61).

### Bounds

Destinations interact only through the direction of a recover (one that has
crossed decides for all) and through the order of work; three are one to cross,
one in flight and one not begun. Three deaths are one in the apply and one in each
of two recovers. Two paths and two profiles that share one of them give every
kind of change: re-point, create, retire; a third profile whose source is missing
lets an adopt be refused at its manifest. Four operations are a first one, one on
top of it, its rollback and the rollback of that. Two changes in `gc` are a
link put at a destination and parked by rescue.sh, or one to the copy and one to the
entry; a death in a removal and one in the removal that resumes it are two.

In `relogin` two ricepilots are the one that asks and the one that would come in
between, and a second lock file is the one that replaces the first. In `exec` one
unit is less than, exactly and more than the cap of one, and a pipe of one unit
makes every writer wait. In `profiles` two commands over one directory and an
interrupted one need three; a look, a write and a read of one name and a write to
another are two changes; the two directories are symmetric. In `verify_config` the
heads, sources and tails cover each kind of line before, in and after a sourced
file, with cycles, the depth and the number of files at and above their limits.

Every bound is a constant (`MaxStops`, `MaxTampers`, `MaxOps`, `MaxChanges`,
`MaxEdits`, `MaxCommands`, `MaxFiles`, `MaxWritten`) in the guard of the action it
bounds; the theorems hold for every value of them. `MaxReads` bounds no action: it
is how many steps a reading by Hyprland is followed. `FaithfulCopy` and
`RefusedForAReason` speak of configs whose reading ends by then, which the run's
`ReadingsEnd` says of every one of its configs. Deadlock is not checked: an
operation ends with its journal retired, a call with its answer, and a machine where
everybody is done may stop.

### Fairness

A running process goes on (`WF` of its steps), and a user whose command is
refused because of a journal in flight runs `recover`, as the refusal tells
them. gc, once answered, goes on; an operator who is offered an interrupted
removal again and again types its name in the end (`SF`), and runs `gc` while
there is anything to remove. A ricepilot with `--relogin` goes on by itself except at
its question, which may stay open for ever. In `Exec` ricepilot's threads run and
time passes; the child need do nothing, ever. Nothing is assumed of beginning an
operation, of dying or of other programs; deaths are bounded, so the machine stays
up long enough in the end.

## What is proved

`Journal_proofs` holds for every number of destinations, every mix of kinds
and every number of deaths, recovers and changes by other programs:

| theorem | says |
|---|---|
| `TypeCorrect` | `[]TypeOK` |
| `InvariantHolds` | `[]JournalInv` |
| `NeverMixed` | `[]AllOrNothing` (R5) |
| `MemoryIsDisk` | `[]MemoryMatchesDisk` |
| `RecoverNeverRefuses` | `[]RefusesOnlyOutsiders` |
| `NoStepFails` | `[]FailsOnlyOnOutsiders` |
| `NeverTwoEmpty` | `[]OneEmptyAtMost` |
| `NoWayBack` | `CrossedStays` |
| `RetirementsComeLast` | `[]RetiresLast` |
| `NothingIsLost` | `[]NothingLost` (R2), assuming `Races = FALSE` |
| `IsAtomicSwitch` | `AtomicSafety`: the safety part of `AtomicSwitch` under the refinement mapping, assuming `MaxTampers = 0` |

The argument. `AllOrNothing` is not inductive: nothing in it says what a dead
process may have left. `JournalInv` adds that every undisturbed destination is
in one of a few shapes (`SwapStages` for an exchange), that what a process
remembers is what the disk says is left (`MemoryMatchesDisk`), and that the journal
and the records are where the destinations say. With it a death needs no argument:
the process's memory is dropped, and a recover reads the same work off the disk
again. The step lemma has one case per action and one lemma per rename.
`RetiresLast` needs, besides, that the work of a recover in either direction puts
retirements after crossings. `OneEmptyAtMost` needs that destinations are replaced in
the order of the journal (`OneByOne`): by the time a live path is parked every
earlier one has crossed, in an apply because its phase has passed them, in a recover
because it has done with them. For the refinement each action is mapped: the rename
that makes a destination new is `Cross`, `Settle` is `Record`, `MarkDone` is
`Switched` or `Abandoned`, everything else (staging, parking, a death, a recover)
is a stutter; that the code never takes a crossed destination back and retires
no journal on two sides is what `JournalInv` is for. `MaxTampers = 0` is what
`AtomicSwitch` promises about: a path somebody else replaced is on neither side.
All but `TypeCorrect` and `NothingIsLost` assume that no absent path is adopted
(`"adoptcreate" \notin Kinds`): with it `JournalInv`, on which they rest, is false,
finding 1.
`NothingIsLost` assumes that no program is between a look at a live path and the
rename that relies on it (`Races = FALSE`): without that it is false.
The other theorems need no such assumption.

`Operations_proofs` holds for any paths, profiles and number of processes,
operations, deaths and changes by the user:

| theorem | says |
|---|---|
| `InvariantHolds` | `[]OperationsInv` |
| `RecordsAreTyped` | `[]TypeOK` |
| `OwnershipIsTrue` | `[]OwnsNothingElse` (D31) |
| `NoJournalIsBuried` | `JournalNeverBuried` |
| `HistoryOnlyGrows` | `HistoryIsKept` |
| `OnlyItsOwnIsDisplaced` | `DisplacesOnlyItsOwn` (R1) |
| `GenerationIsTrue` | `[]CurrentIsTrue` |
| `OwnWorkIsRecorded` | `[]OwnWorkIsOwned` (D77) |
| `GenerationIsComplete` | `[]CurrentIsComplete` (D35), assuming `SideBySide = FALSE` |

The argument. `OperationsInv` is five named parts: the types; `InFlight`, that the
process, its step and the journal are about the same operation; `Numbering`, that
the generations from 0 to the current one are all there, that the next number is
the one being written and that identifiers ascend; `Movable`, that what a plan
moves is ricepilot's own link, nothing, or the directory the user agreed to; and
`OwnsNothingElse` itself, which `Movable` needs and preserves. Three
further invariants are proved on top of it, each inductive with it: `Truth` (what a
half-written generation says of the paths) for `CurrentIsTrue`; `Planned` and
`Recorded` (a link with no row is in a journal in flight that will make one) for
`OwnWorkIsOwned`; and `Covered` for `CurrentIsComplete`. The last one needs one
command at a time: side by side, a request read before the lock has a list of paths
to retire that is old when it is used, and the current generation then misses a
path, the same stale read as finding 2.

`Profiles_proofs` holds for any directories, names, files, commands, deaths and
changes by others:

| theorem | says |
|---|---|
| `InvariantHolds` | `[]ProfilesInv` |
| `DeclaredMeansCopied` | `[]DeclaredIsCopied` (D51) |
| `AcceptedIsOneMoment` | `CopyIsOneMoment` |
| `DriftIsOfOthers` | `[]DriftIsOthers` (D80) |

The argument. A copy is read file by file while others write, so at no moment
before the comparison is it known to be right. `Making` says of each file copied
that the directory still holds it or holds a newer one (`Newer`: every write takes a
new time). When the copy ends the directory is what `image` remembers, and
`Comparing` says that whatever the copy holds and the image does not is
overtaken: the second walk can only find a later time there, which `Identical`
refuses. Names that were not touched since are listed and read by the second walk,
so none of them is missing from an accepted copy.

For `DriftIsOfOthers` the invariant has two parts more than `ProfilesInv`. `Turns` says who is
at what: only a profile that is there is recorded or switched to, and what an adopt
writes before its exchange is its own. `Accounts` says of every profile with a record
that nothing but what others changed (or an adopt in progress) has left it, that what
a path said before they changed it is what is recorded of it, and that a switch in
flight has shown every change. A switch's record is made after the exchanges, of files that others may
have changed again by then; what it may bless is only what the switch had shown.

`Diagnosis_proofs` is about `Operations` with rescue.sh, manifest edits and sources
taken away, again for any paths, profiles, commands, deaths and changes:

| theorem | says |
|---|---|
| `HoldsWithOtherHands` | `[]Holds`: `OperationsInv`, `Truth`, `Planned` and `Recorded` are kept by the other hands too |
| `TrueWithOtherHands` | `[](CurrentIsTrue /\ OwnWorkIsOwned)` |
| `OwnershipWithOtherHands` | `[](TypeOK /\ OwnsNothingElse)` |
| `OperationsWithOtherHands` | `DisplacesOnlyItsOwn /\ JournalNeverBuried /\ HistoryIsKept` |
| `ReportsAreTrue` | `[]ReportsForetellSwitch` |
| `DoctorIsQuietAtRest` | `[]DoctorIsQuiet` (D49) |
| `SettlesAsPromised` | `AloneAsPromised` (D77), assuming `SideBySide = FALSE` |
| `DoctorAnswersRescue` | `[]RescueIsAnswered` (D81), assuming `SideBySide = FALSE` |

The argument. That doctor is quiet is not inductive: it speaks of rest only.
`QuietInv` says what there is at every other moment of a machine that only
ricepilot has changed: what is linked, remembered, asked for, being planned and
being exchanged is exactly what the records will say once the operation settles,
and an adopt that is rolled back has its directory in the attic. For
`AloneAsPromised` the invariant `Promised` says, of the dead process and of the
recover alike, which rows and which destinations will be recorded: those ricepilot
owned and those the journal changes, without those it retires. `DoctorAnswersRescue`
needs the shape of the disk after rescue.sh: which paths the script has to
restore, which its attic holds, and that nothing else has moved (`Meant`, `Kept`,
`Outside`, `Attic`, `Cleared`, `Untouched`, `Restored`). Side by side the lists of
paths a request carries are old when they are used, as above.

`Gc_proofs` holds for any entries, files, deaths and changes by others:

| theorem | says |
|---|---|
| `GcIsCareful` | `[]GcInv` |
| `GcIsTyped` | `[]TypeOK` |
| `OnlyWhatIsHeld` | `TakesOnlyWhatIsHeld` (D61) |
| `TheWayBackStays` | `WayBackIsKept` (D49) |
| `OnlyWhatWasShown` | `TakesOnlyWhatWasShown` (D62) |
| `PointedAtIsKept` | `PointedAtStays` (D61) |

The argument. gc judges an entry in three looks (records, tree, objects) and
acts on each later. `Hand` says that what it has in hand is still there and in hand
once; `Judged` says of every stage what the looks so far have established, except
where somebody came since (`disturbed`): what the walk did not see was made after
it, what was accepted is held elsewhere; `Shown` says that what was looked at and is
still there is what was listed. Only an unlink takes anything
(`OnlyUnlinkTakes`), and it takes what was judged. A resumed removal is judged by the
links alone: `Resumed` says that none led into it at the second look, or that one
was made after the name was typed.

`Relogin_proofs` holds for any number of ricepilots, destinations, lock files and
changes:

| theorem | says |
|---|---|
| `ReloginIsTyped` | `[]Typed`: the types, and whoever reads has a fact left to read |
| `OnlyOlderLocks` | `OthersHoldOlderFiles` |
| `ReloginIsCareful` | `[]ReloginInv` |
| `StopsSettled` | `[]SettledWhenStopping` |
| `StopsOnTruth` | `[]StopsOnWhatWasTrue` |

The argument. A lock file is locked only once and files are numbered in the order
they are made, so whoever holds the file at the path holds the newest.
`ReloginInv` says that while the path is not moved one process holds the lock, that
its steps and the records agree, and that every fact past a reader's mark
was so when it was read; past the answer everything is read again, so each
of those moments is after it.

`Exec_proofs` holds for any calls, sizes of pipes, caps and limits:

| theorem | says |
|---|---|
| `RunIsTyped` | `[]TypeOK` |
| `KillsItsOwn` | `[]TimeoutKillsItsOwn` (D54) |
| `AnswersAreHonest` | `[]AnswerIsHonest` |

The argument. The number of a child is free only once it is reaped, and it is reaped
after the kill. An answer is honest because what was written is at every moment in
the buffer, in the pipe or marked as cut off, and a reader that has not ended
marks what it hands over.

`VerifyConfig_proofs` holds for any names, directories, destinations and configs on
any number of disks, any limits of depth and of files, and any number of edits:

| theorem | says |
|---|---|
| `KeptAlways` | `[]Kept`: the types, and everything written into the copy so far was sheltered first |
| `NothingLeaves` | `[]NothingLeavesTheCopy` |
| `WalkedAlways` | `[]Walked`, assuming `DOMAIN Links \subseteq DOMAIN Leaving` |
| `RefusedAlways` | `[]RefusedForAReason`, under the same assumption |
| `FaithfulAlways` | `[]FaithfulCopy`, under the same assumption |

The argument. Both readers follow `source` lines recursively. A reading by `Hyprland` is
a function of the number of its steps, so what holds of its beginning and is kept
by `Step` holds of it as a whole; this induction is made once for each claim, over
the set of step numbers of which the claim holds (`SetInduction`, `UpFrom`), which needs no
operator as a parameter. `NothingLeaves` is such a claim about a reading of the copy
(`CopyReader`): whatever the files were while they were copied, a written file is
sheltered, and from sheltered files Hyprland comes only to paths inside and to
variables whose values are inside. `Walked` sets ricepilot's walk beside the reading
of the live tree: while nothing is edited the walk is at a step of that reading
(`Followed`), with the same files open at the same lines and the same variables, and
there is nothing to object to in what it has passed (`Unobjected`), all of which it
has recorded (`Recorded`, `Shown`, `Closed`). A walk that ends has passed all of the
reading, one that refuses stands before the reason: that is `RefusedForAReason`.
For `FaithfulCopy` a third reading, of the copy, is set beside the live one
(`Twin`): step by step they are in the same file at the same line up to the
rewritten paths, except that a glob over `~/.config/*/` leads the live reading into
directories that have nothing in the copy, where the copy's reading waits.

`DOMAIN Links \subseteq DOMAIN Leaving` says that every destination the switch links is a
directory before it too. Without it the last three are false: `sandbox.rs:296` counts
the directories that are there before the switch (see the runs above).

Only model-checked, and why:

- liveness (`JournalSettled`, `RemovalEnds`, `OnlyTheQuestionWaits`, `RunReturns` and
  the liveness part of `ImplementsAtomicSwitch`): fairness and `ENABLED` are out of
  the prover's reach;
- that a reading by Hyprland ends (`ReadingsEnd`, an assumption TLC evaluates for the
  run): `FaithfulCopy` and `RefusedForAReason` are about configs whose reading does.

## Assumptions

- `write_atomic` is one step and what was fsynced is there after a crash: a death
  ends a process, it does not take back writes. A lost flush is not modelled.
- `flock` excludes and is released with the process (`Relogin` has which file it is
  on, the other modules take the lock as one).
- Other programs change live paths, never staging names, scratch names or the
  attic. What they put in the way of the fallback's last rename is a link or a
  file (a directory makes that rename fail).
- `Operations` adopts directories only; the adopt of an absent path
  (`src/cli/adopt.rs:392`) is in `Journal`, finding 1.
- Two theorems about `Operations` and `Diagnosis` that follow a list of paths from a
  request to a record, and `GenerationIsComplete`, hold for one command at a time
  (`SideBySide = FALSE`); the others for any number side by side.
- In `Operations` the user changes live paths only while no command runs and no
  journal is in flight; `Journal` has the rest. A new object never has the inode
  its path's ledger row remembers. In `Diagnosis` rescue.sh, manifest edits and
  sources taken away come at rest too, and each counts as a change by the user.
- In `Gc` others change, add and take away the objects inside an entry, never the
  entry as a whole; an adopted directory leaves one only by the way back. A survey
  is one step. An object that is written to and written back counts as unchanged
  (the code would see its mtime and refuse). An interrupted removal is not judged
  by what it holds any more, as D62 has it, so what `TakesOnlyWhatIsHeld` and
  `WayBackIsKept` say is about removals that began in the attic. The link at an
  entry's destination stands for every record that may point into the entry: a
  generation or a ledger row that recorded such a link keeps the entry as the link
  does, for as long as it is there. The records are otherwise
  the entries' own: a journal or a generation that is missing or does not parse
  keeps an entry, as do mounts, permissions and depth, and none of these is
  modelled, nor are the verify copies.
- In `Profiles` every write moves a file's mtime, the read of a file is one step,
  the walk of `verify::build` after a switch or an adopt (`Record`, `Rerecord`) is one
  step - what is written meanwhile is excused as a change made during the command -
  and nobody writes into a copy while it is made. A directory is replaced by another
  only while no journal is in flight (`Journal` has the rest). Modes and owners are
  compared the way contents are and left out; `refuse_unsupported` and the survey
  only refuse earlier. There is one profile, its volatile names are not edited, and
  init's rows are a flag. Names that come and go in a directory while it is walked
  are outside what "one moment" says: `CopyIsOneMoment` claims the names nobody
  touched since the copy's end.
- In `Relogin` a lock file that was taken away is not put back, and a link's inode is
  that of the generation that made it. The names of profile sources and
  destinations are not the words the model has for other things
  (`WordsAssumption`). Once somebody has moved the lock's path, a ricepilot that
  still holds the old lock may write rows between p's read of a row and its look
  at the link: then `StopsOnWhatWasTrue` sets the link against the row as p read
  it, because no more is true of the code.
- In `Exec` a read of a pipe does not fail (`exec.rs:776` ends the stream there),
  `Grace` is at least one tick (`src/ops/exec.rs:128` has 500 ms), and
  `DRAIN_GRACE` is long enough for a reader thread to read what is in its
  pipe; a helper that left the process group is out of a timeout's reach (D54); the
  child's environment and arguments are left out.
- In `VerifyConfig` lines are of nine kinds instead of text, and what is refused for
  its characters (`?` globs, `..`, what a path cannot carry) is one kind of value.
  How Hyprland reads is taken from what `src/hyprconf.rs` and
  `src/ops/exec/sandbox.rs` say of it. Three theorems assume that every destination is a
  directory before the switch, as above.

## Not modelled yet, and the plan

The status of every part is in PROJECT.json. In this order:

1. `Registry`: `init` composed with `Operations` - the ledger rows without a
   generation, no look for a journal in flight, the rollback after it.
2. `Planner`: denylist, nested destinations, shapes, as operators checked
   against a reference definition; the volatile globs likewise.
3. rescue.sh run step by step beside a half-done operation, and the recover after
   it (`Diagnosis` has it at rest).
4. `Durability`: `write_atomic` and `fsync_dir` under power loss.
5. `Timeline`: an abstract append-only history that `Operations` implements.
6. Proofs: the type of what `Diagnosis` adds; that a reading ends when the walk
   does.

Left out for good: rendering, prompts and TOML parsing (no state of their own), the
thin wrappers over one system call in `ops/read.rs` and `ops/look.rs`, the
requirement queries, and what `doctor` reads of the machine around ricepilot
(packages, snapshots, session files).
