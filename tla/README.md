# A TLA+ verification of alienrgb

`alienrgb` sets the RGB lights of one laptop model. A live command talks to two
USB controllers, the keyboard (through hidraw) and the AW-ELC (touchpad, back
and power light, through libusb), and the largest command, `set-all`, goes
through three stages on both and then records its color in a file. A systemd
helper restores that color at boot and after a suspend.

The code has no locks between processes, no rollback and no retry. What it
relies on instead are the USB claim of one interface, two process-wide flags,
an order of stages, and an atomic rename. The modules here say what these
amount to, TLC checks them on small instances, and TLAPS proves the safety
properties for all.

Paths below are relative to `src/`: `src/transport/mod.rs` is the file
`src/src/transport/mod.rs` of the repository tree.

## 1. Inventory

| Component | Source | State it keeps | Operations | Model |
|---|---|---|---|---|
| AW-ELC transport | `src/transport/aw_elc.rs` | `detached`, `claimed`, `finished`; in the kernel: the bound driver and the claim of interface 0 | acquire (inspect, detach, claim, verify again), write a frame, `close`, `Drop` | `AwElcHandoff`, `Selection` (finding it) |
| Keyboard transport | `src/transport/keyboard.rs` | an open hidraw handle | enumerate, open, compare, feature write, feature read | `Selection` (opening), `Executor` (transfers) |
| Executors | `src/transport/mod.rs` | two process-wide `AtomicBool`s, the stages' outcomes | `execute_set_all`, `execute_keyboard`, `execute_aw_elc`, `execute_power_profile`, `execute_keyboard_status` | `Executor`, `Restore` |
| Live commands | `src/cli.rs` | none across runs | parse, gate, execute, report, persist, doctor | one run from its first argument to its exit code in `Commands`; results and persistence in `Executor`, `Restore`; gates and doctor in `Selection` |
| Resume state | `src/resume_state.rs` | the file `last-set-all-color` and its directory | `persist_color` | `ResumeState` |
| Restoration helper, units | `contrib/systemd/` | none | read the color, wait for readiness, exec `set-all` | `ResumeState` (its reads), `Restore` (its control) |
| Encoders | `src/protocol/` | none, pure | targets and a color to frames | `Plans` |
| Discovery | `src/sysfs.rs`, `src/model.rs` | none, reads sysfs | inventory, classification | `Selection` |
| Targets, profile | `src/targets.rs`, `src/profile.rs` | tables | resolve names; classify a descriptor | `Catalog`, `Targets`; a descriptor is its class in `Selection` |
| Presentation, entry | `src/presentation.rs`, `src/main.rs` | none | format, exit status | exit codes in `Commands`; formatting not modelled |
| udev rules | `contrib/udev/` | none | device permissions | their effect is `Selection!Grant` |

How they interact: `cli.rs` parses and gates a command, calls an executor
through a trait, turns its result into a report or an error, and after a whole
`set-all` calls `persist_color`. An executor validates its plans, takes the
guards of the controllers it needs, and for each stage discovers, selects,
acquires a backend, dispatches the frames and drops the backend. Processes
share the controllers, the kernel's driver binding and claim, and the state
file. The helper polls `alienrgb doctor --json` and ends by becoming a
`set-all`.

What is hard in it:

* Processes interleave between any two libusb calls, with the driver state read
  before the calls that depend on it. The keyboard has no exclusion between
  processes at all.
* Every call can fail after it took effect: a detach, a write that timed out, a
  release, a directory sync. Error paths clean up and have to report what was
  done before.
* Devices come and go between discovery, selection and opening; a hidraw path
  and a USB port may belong to another device at each of the three.
* A process may be killed anywhere, by the user or by the timeout of its unit,
  and the machine may lose power in the middle of recording a color.
* The color is read before the readiness loop and recorded after the guards
  and the claim are gone.
* The targets of a write are judged four times, by the parser, before the
  write, when the plan is prepared and when its frames are validated. Each
  layer has its own conditions; one that is laxer sends what was not asked for,
  one that is stricter fails what was documented.
* The numbers a write is judged and reported by (85 keys, 6 color frames, 11, 4
  and 34 steps) are literals beside the tables and encoders they describe, and
  the documentation has one more, the 75 keys that can be named.

`PROJECT.json` lists each of these at its line under `hazards`, with the
properties that would catch it, or a note when none does yet.

## 2. The modules

| Module | What it is |
|---|---|
| `DeviceSession` | abstract: a controller taken by one holder at a time who presents the frames of a plan in order |
| `StagedWrite` | abstract: commands that write the parts of a plan in order, end where something goes wrong, and record the color as the last part; no two of them mix frames on an exclusive controller |
| `AwElcHandoff` | the handoff, dispatch and cleanup of `aw_elc.rs`, for any number of processes; refines `DeviceSession` and `StagedWrite` |
| `Executor` | guards, stages, outcomes and reports inside one process, for any number of threads; refines `StagedWrite` |
| `ColorRegister` | abstract: a register that a power loss may set back to a version not yet settled |
| `ResumeState` | the file-system calls of `persist_color`, power losses, and the two opens of the helper; refines `ColorRegister` |
| `Selection` | discovery, doctor, gates, selection and opening over a bus whose devices come and go |
| `Catalog` | the tables of keys and zones, as the program has them |
| `Targets` | names and aliases, and what a list of them stands for, over any tables |
| `Plans` | the three encoders, and the sealed layer that prepares and validates a plan |
| `Commands` | one run of the program: arguments, confirmations, checks, plan, frames, report |
| `Restore` | the whole seen from the lights: commands, helper, claim, recorded color; refines `StagedWrite` |
| `MC...` | instances for TLC |
| `...Proofs` | the theorems |

`Restore` composes the others through `StagedWrite`, which all three refine,
each at its own grain:

| | `AwElcHandoff` | `Executor` | `Restore` |
|---|---|---|---|
| actors | processes | threads of one process | processes, helpers among them |
| parts of a plan | one stage | the stages of an operation, the record behind a `set-all` | the same, for the commands that color |
| a frame | a transfer | a transfer, or a keyboard status read | a zone |
| exclusive | the stage, by the kernel's claim | each controller, by its guard | the two AW-ELC stages together, by the claim; the keyboard not at all |
| a command runs | from the claim to its first error or last frame | from the call to its first error or its answer | from its start to its end |

So what `Restore` takes in one step, the claim and the order of the zones and
stages, is what `AwElcHandoff` and `Executor` promise of the calls in between.
That the file is replaced in one step is `ResumeState` being a register; this
last joint is an argument and not a refinement, since `Restore` has no versions
and no power losses. `Commands` extends `Plans` and `Targets`
and takes from `Executor` and `Selection` what they leave open: a gate passes or
not, and any frame fails.

### AwElcHandoff

Each libusb call is one action: `Inspect` (the first evidence and driver
state), `Detach`/`DetachFails`/`DetachRecheck` (`detach_failure`),
`Claim`/`ClaimFails`, `Reverify`, `Write`/`WriteFails`, `Release`,
`Attach`/`AttachFails`, `Return`. `pc` is the next call; `detached` and
`claimed` are the fields of the backend; `sent` is `result.steps.len()`.
`finished` is not a variable: it only makes the second `close` of `Drop` do
nothing, and the flags cleared by the first one do that in the model. The
comparison of descriptors, port path and serial with the selection is a free
choice of `Inspect` and `Reverify`.

The kernel is external and assumed to do what the code relies on: a claim
excludes other claims and a bound driver, it dies with the file handle, and
only an explicit attach binds a driver. `wire`, `delivered`, `excused` and
`detacher` are history.

* `SoleWriter`: who writes has the only claim and no driver is bound.
* `DriverAccounted`: while no driver is bound, a process still has to attach
  it, or an error said that it may be missing, or a process was killed.
* `ResultHonest`: completed steps, `transport_attempted` and "ok" agree with
  what the controller took, up to the one frame in doubt.
* `Sessions`, `StagedWrites`: the refinements. A process is a holder in the
  first from its claim to the end of its cleanup, in the second only while it
  may still write.
* `ExecutionsEnd`: nothing waits or is retried. `ExecutionBounded` says how: the
  libusb calls an execution may still make are counted by `CallsLeft`, each
  lowers the count whatever comes of it, and no process raises that of another.

### Executor

`pc` goes through guard, begin, transfer, finish, unlock, answer, persist. An
operation is an interval of the stages `KB`, `STATIC`, `POWER`, `STATUS`.
`active` are the two statics, `held` the guard values alive in a call,
`outcome` the `CompoundExecutionStage`s, `answer` the part of the report and
of `CliRunError` the properties are about. Errors are kept apart only as far as
the code treats them apart: the same function returns different progress for a
backend error, a short transfer and a status error (`Broken`). hidapi reports a
feature write in full or as an error, so a keyboard write is never short.

The command-line program calls one executor per process; the guards are
library state, and their contract (nonblocking, exclusive, returned on every
path) is about several threads, which is what `Caller` stands for.

* `ControllersExclusive`, `NoGuardLeaks`: the guards.
* `StagesInOrder`: nothing is sent behind a failed stage.
* `ReportAgrees`: the report of a `set-all` against what the controllers took.
* `SavedOnlyWhole`: what a recorded color stands for, and that "ok" means it
  was recorded.
* `StagedWrites`: the refinement. Its mapping ends a command with its first
  error of any kind, so that also a failed cleanup lets nothing follow it.
* `CallsReturn`: a busy guard refuses and never waits. `CallBounded` counts the
  steps down, those of the stages ahead included.

### ResumeState

One action for each call of `persist_at_with_backend` and its failure. A color
is a version number, the count of renames. `onDisk` holds the versions a power
loss may bring back; `SyncDirectory` and the file system's own write-back
(`Flush`) narrow it to the present one. The directory itself may be `volatile`:
`create_dir_all` makes it and nothing syncs its parent, so a power loss may
take it away with everything in it. `DurableOnceAcked` says so: it excepts
exactly that case (`PowerLoss` resets `acked` there), and the exception is a
weakness of the code, not of the model. The contents of a file that was written
and not synced become `partial` with a power loss.

* `NeverTorn`, `DurableOnceAcked`, `HelperReadsWhole`: what a reader finds, now
  and after a power loss.
* `TempsAccounted`: temporary files outlive a call for a named reason only.
* `ErrorsTell`: a `set-all` reports that its color was not saved also when the
  file was replaced and only the directory sync failed (`result` is "unsynced").
  The text of that error is the only sign of it: behind it the file has this
  color or a newer one, behind every other error the call replaced nothing.
* `IsRegister`: the refinement.

### Selection

`bus` and `node` are the devices at the ports and the interfaces behind the
hidraw nodes, which the environment changes at any time (`Plug`, `Unplug`,
`Grant` for the udev rule). Discovery lists the ports (`List`) and builds one
`Summary` per device (`Visit`); a device that is unplugged while it is read
leaves a summary without the parts that could no longer be read and without some
or all of its interfaces (`VisitTorn`).
`purpose` is the mode of discovery: planning looks for no hidraw nodes, only
doctor looks at access. `Answer`, `Gate`, `SelectKeyboard`, `SelectAwElc` and
`Refuse` judge the summaries. A keyboard is enumerated and opened by its path,
which is looked up anew each time; an AW-ELC is bound to the device libusb
listed at the port. `Compare` checks what the handle says, `Use` is the first
transfer. `view` is the device in hand and dies when it is unplugged.

A unit is what it is plugged in with: interfaces, descriptors, hidapi's
collections, a serial, and whether interface 0 conforms. Units with other ids
are not there: discovery skips them, and a node that went to a chassis stands
for a path that became another device's. A keyboard's path rows come from one
device at one moment. The accesses of a node are one bit, since both are needed.

* `OnlyConfirmed`: whatever changed between discovery and opening, the device
  written to is a confirmed one.
* `SerialBound`: with a serial, it is the very AW-ELC that was selected.
* `ReadinessStands`: doctor, which looks at the first keyboard and accepts the
  descriptor on any interface, and the selections, which want one keyboard and
  interface 00, agree on a bus that does not change. The second half needs
  `Plain`: with two keyboards, or the pinned descriptor on another interface,
  doctor may say ready and every selection refuse. The helper would start a
  set-all that fails before any write.
* `GateStands`: the gates are never stricter than the executors.

`last` and `before` remember what came of the last two runs since the bus last
changed; the two properties compare any run with the next one.

### Restore

A zone is what one frame colors by itself. The frames that color nothing are
left out here. `whole` collects the colors of completed set-alls, `latest` the
last one, `alone` whether a run was undisturbed, `torn` whether the last power
profile was broken off, `lapsed` whether a color could not be recorded, `raced`
whether another set-all was about to record when the last one completed, and
`taken` the zones a command has colored; all seven are history.

* `OnlyWholeColors`: what is recorded and restored was once on every light.
* `LoneSetAllShows`: an undisturbed set-all shows everywhere.
* `PowerProfileUnmixed`: the claim, held per stage, keeps two power profiles
  apart, though not two set-alls.
* `StateIsLastUnlessRaced`: when nothing is left to record, the file is the
  color of the last set-all, unless two of them overlapped between completing
  and recording. It is the condition under which the sentence of the units'
  README in disagreement 4 of section 6 is true.
* `StagedWrites`: the refinement. The plan of a `set-all` ends with `RECORD`, so
  that a command that failed, was killed or colored less never replaces the
  file.
* `HelperEnds`: liveness of the helper. `CommandBounded` counts down the
  readiness checks and the steps of the set-all behind them.

### Targets, Plans and Catalog

Names are the folded ones, since every comparison ignores case and blanks at
the ends. A resolved list is a set of ids: `add_target` refuses an id it has
seen and the result is sorted, so nothing else is left of it. For the same
reason the check of `prepare_keyboard` that ids ascend holds by representation;
`Plans!Rank` gives an id its place, and `Chunk` cuts them into groups of 15.

A command has one color, so a frame is its step, its power state, its transfer,
its opcode, the ids it addresses and the bytes put before the zeros that fill
its buffer; the color bytes are left out. `KeyboardPlan`, `StaticPlan` and
`PowerPlan` are the encoders, `PreparesKeyboard` and the three
`validate_..._plan` the sealed layer. The constants of `Targets` are any tables
that satisfy `TargetsAssumption`; `Catalog` has the real ones.

### Commands

`pc` goes from "start" through "args", one argument a step and in any order, to
"run" and, for a live command, "send", one frame a step. `Accepted` has the
early returns of the parsers, `DryRunSetError`, `LiveSetError`,
`PowerProfileError` and `SealedSetAll` the checks of each command in the order
in which they are made, with the error each gives. `Finish` compares what was
sent with what the command takes for complete (`Canonical`) and reports.

* `ConfirmedOnly`: nothing is sent without every confirmation of its command.
* `AddressedAsAsked`: wherever sending stops, the lowest of the asked targets
  are colored, each once and nothing else; a success has shown and, when live,
  colored them all. The plan a dry run shows and the one a live run prepares
  are built by different functions (`set_all_report`, `prepare_set_all`); both
  are held to `Asked`, which is neither.
* `PowerOnlyByProfile`: the power button under none of its names.
* `FramesFit`: buffers, empty frames, and ids as bytes.
* `AcceptedIsSendable`: no layer is stricter than the parser, and a write whose
  every frame was taken is recognised as complete.
* `ReportAgrees`: the counts that are literals, against the plan; those of a
  `set-all` stage by stage.
* `OnlyDocumentedTargets`, `DocumentedLinesRun`: between them, a live run takes
  exactly the lines README.md and the usage text describe, among them the one
  the helper ends with.

## 3. Runs

| Run | Instance | Shows |
|---|---|---|
| `aw_elc_handoff` | 2 processes, plans of 2 frames, 1 execution each, 1 kill | the safety properties, the refinement of `DeviceSession`, `ExecutionsEnd` |
| `executor` | 2 threads, plans of 4, 1, 2, 2 frames, unbounded calls | the safety properties, the refinement, `CallsReturn` |
| `resume_state` | 2 writers, 3 renames, 1 power loss | the six safety properties and the refinement |
| `selection` | 3 keyboards, 3 AW-ELCs, 2 ports, 2 nodes, 3 changes of the bus | the four safety properties |
| `commands` | the real tables, 30 lists of targets, several `--target` options of 2 names | the eight safety properties |
| `restore` | 1 user, 1 helper, 2 colors, zones 2, 1, 2, 2 runs each, 1 kill, 2 readiness attempts | the five safety properties, the refinement, `HelperEnds` |
| `aw_elc_reattach`, `executor_keyboard_progress`, `executor_cleanup_progress`, `restore_state_order`, `restore_stale_read`, `selection_bios` | smallest instances | the disagreements of section 6 |

Why the bounds are enough to be useful:

* Two processes reach every conflict over one interface and one file; a third
  adds no new kind of step. One of them may start behind what the other left
  (an unbound driver, a driver attached by the wrong process).
* A plan of two frames has a first frame, a last frame and a frame behind
  another; the keyboard plan keeps its status read at the third place and a
  color frame behind it. The real lengths (11, 4, 34, and 5 plus one per 15
  keys) are in `commands`, and in the proofs `Frames` and `Steps` are any
  positive numbers.
* The lists of `commands` have one key below, at and above each limit: 14, 15
  and 16 keys (a frame), 30, 31, 45, 46, 60, 74, 75 and 76 names (several
  frames, the explicit names) and all 85; and every way to be wrong (empty,
  unknown, numeric, repeated, repeated by an alias, all among others). Switches
  come in any order and number. A second `--target` is bounded to 2 names in
  total by `MoreNames`: it is refused live, whatever its length.
* Three renames let a version be replaced twice while a writer or a reader is
  halfway; one power loss may fall on any state.
* Two runs of a user and a helper allow a set-all, a partial command and a
  restoration in any order, overlapping or not. `MAX_READINESS_ATTEMPTS` is 15
  in the helper and 2 here: the first attempt and the last one.
* Three changes of the bus replace a selected device by another one at the same
  port and node (plug, unplug, plug), or build a bus with two keyboards, or with
  one keyboard and two AW-ELCs. Two ports and two nodes force reuse.
* `MaxRuns`, `MaxCrashes`, `MaxKills`, `MaxRenames`, `MaxLosses`, `MaxChanges`
  and `MoreNames` are the only bounds, and each is a guard of the action that
  starts a new run, a kill, a rename, a power loss, a change of the bus, or
  takes a further option.

Deadlock is checked for `Executor`, `Selection` and `Commands`, where a run
that has ended stays (`Ended`). It is off for the others: with their bounds
used up, nothing has to happen any more. Symmetry is used in
two safety runs: over writers, and over nodes together with the exchange of the
two conforming AW-ELCs and their serials. The modules compare these by equality
only. What the bounds cut off, the proofs cover: each safety property is a
theorem for any bounds.

Some properties are theorems and in no run, because a property beside them in a
run says more or the same of the instance: `StagesInOrder` (`StagedWrites`
implies it), `PowerOnlyByProfile` (what is sent follows from
`OnlyDocumentedTargets` and `AddressedAsAsked`), `AwElcHandoff!StagedWrites`
(`Sessions` also has the frames' numbers), and the three step counts
`ExecutionBounded`, `CallBounded` and `CommandBounded` (the liveness
properties).

Each property of a passing run has a mutant: an operator written beside the
definition it replaces, such as a detach error that is not looked at again, a
busy call that leaves with its guard, or a rename without the sync.

### Fairness

`FairSpec` assumes weak fairness of the steps of a process or thread that is
running: each system call returns. The code bounds its writes (500 ms for
libusb, the kernel's control timeout for hidraw) and never waits for another
process: guards and claims refuse. The helper's loop is counted. Nothing is
assumed about who starts a run, and kills need no fairness.

## 4. Proofs

TLAPS checks `Spec => []P` for every safety property of the passing runs,
the five refinements and the three step counts, for any set of processes,
threads, writers, colors, units and tables of names, any plan lengths and any
bounds. The assumptions are the named
ones in the modules. `HandoffAssumption`, `ExecutorAssumption`,
`ResumeAssumption`, `RestoreAssumption` and `SelectionAssumption` say that plan
lengths and zone counts are positive, `None` is not a process, users are not
helpers, a unit has one kind. `TargetsAssumption` says that ids are different
bytes, an alias belongs to one target, "all" is no name and the power button
has its two names; `CommandsAssumption` that lists are of strings. TLC evaluates
each of them on the instance of its run.

* `AwElcHandoffProofs`: `Ownership` ties the claim to where its process stands
  (the claim may outlive a release that failed, so it is not a function of
  `claimed`), `Progress` ties `sent`, `primary` and `delivered` to it. From the
  two follow `SoleWriter`, `ResultHonest`, both refinements and the count of the
  calls that are left. `DriverAccounted`
  is inductive together with them: only `Detach` and `DetachFails` unbind the
  driver, and both leave their process with something pending.
* `ExecutorProofs`: `GuardInv` says who holds a guard, with the guards a call
  still wants; `StageInv` follows one call through its stages: stages before
  the current one are whole, later ones are untouched, the current one has
  transferred `done` frames. Lemmas say what each step does to it
  (`EndKeepsProgress`, `TransferKeepsProgress`, ...). `StagesInOrder`,
  `SavedOnlyWhole` and `ReportAgrees` are read off from it at the end. So is
  the refinement: before a stage is over, the frames taken are those of the
  stages behind and `done` of its own, which makes the next transfer the one
  that is `Due`, and the guards make it `Clear`. `StageInv` says for that which
  outcomes and errors go together (a stage in progress has failed exactly if
  the call has an error).
* `ResumeStateProofs`: `TempHolds` (a file that is about to be renamed is
  synced) gives `NeverTorn`, with `Temps` (no file without a directory);
  `Versions` (the target is the newest version that may come back) gives the
  register and `DurableOnceAcked`. `ErrorsTell` is proved on top of it with
  `Outcomes`: a call has no result before its end and no version before its
  rename.
* `RestoreProofs`: `Shape`, `Provenance`, `Profile` and `Shown`, one lemma each
  for how a step keeps it. `Profile` generalises `PowerProfileUnmixed` to the
  middle of a stage (the zones behind the current one have its color, and its
  process has the claim), `Shown` generalises `LoneSetAllShows` to a command
  that is on its way. Two more invariants are proved on top of these five.
  `Counted` gives each zone of a running command its count (`taken` is full
  behind the stage, `zone - 1` in it, 0 ahead), which makes each step of
  `Restore` a step of `StagedWrite` or none. `Newest` tells what the file is:
  that of the last set-all, unless one of them lapsed, raced or is still at
  `persist`, and then the only one there has the last color.
  `StateIsLastUnlessRaced` is its last case.
* `SelectionProofs`: `Compared` says what the comparison established about the
  device in hand, `Passed` what the selection did; neither mentions what
  discovery found, which is why `OnlyConfirmed` and `SerialBound` hold on any
  bus. Changes of the bus alter `view.alive` only (`KnowledgeStays`).
  `ReadinessStands` and `GateStands` speak of pairs of runs and are not
  inductive; `Known` says what each verdict by itself means for the bus as it
  is (`True`), that a discovery in progress has exactly the summaries of the
  devices it visited (`Seen`), and that what was selected is still there
  (`Held`), all as long as the bus does not change. The summaries are
  translated to the bus by `FoundOfKind`, `KeyboardSummary` and
  `KeyboardZeros`. That the best descriptor exists (`BestInterface`) rests on
  the natural numbers being well founded, which the library proves.
* `PlansProofs`: lemmas on `Chunk` (none is empty, none has more than 15, they
  ascend, and every id is in one), and from them that the sealed layer takes
  whatever the encoders make, for any keys of any tables.
* `CommandsProofs`: the judged line does not change once it is accepted, and
  the plan is the one of its command (`plan` is `KeyboardPlan`, `StaticPlan`,
  `PowerPlan`, or the three together). `AddressedAsAsked` follows from the
  chunks being ascending and onto.
* `AcceptanceProofs`: an acceptance by the parser is followed through every
  later check; `Reasons` lists why a run can still fail. These theorems have
  hypotheses on the size of the tables, which say for which ones the literals
  are right: 76 to 90 keys for `AcceptedIsSendable` (a set-all has
  six color frames and 11 steps), 85 keys for `ReportAgrees`, and the
  documentation's 75 keys to name for `OnlyDocumentedTargets` and
  `DocumentedLinesRun`. The tables of `Catalog`
  satisfy them, by an `ASSUME` of `MCCommands` that TLC evaluates.

The step counts (`BoundedExecutions`, `BoundedCalls`, `BoundedCommands`) are
proved beside an invariant that the count is a natural number. With each call
returning, which is all `Fairness` adds, they are why `ExecutionsEnd`,
`CallsReturn` and `HelperEnds` hold for any number of processes and frames; the
last inference, from a count that falls to an end that comes, needs `ENABLED`
and an induction, which the prover does not do.

Only model-checked: the three liveness properties and the violations.

## 5. What is not modelled

* Color bytes, and the exact status signature, whose outcome is a
  nondeterministic choice. Parsing of a color: it is absent, plain or with a
  "#".
* The parser of report descriptors (`has_keyboard_feature_signature`) and the
  hash: a descriptor is its class of evidence in `Selection`. No gate and no
  selection takes the class the parser finds, only the hash.
* `--json` and the texts of `list`, `info`, `doctor` and `zones`. One thing
  they tell is of no use on a command line: the alias "," of a key cannot be
  given, because values are cut at commas.
* A panic. A render error after a `set-all`: formatting a report of this shape
  does not fail.
* `SIGKILL` between the two halves of one system call, and other programs that
  detach or claim the interface. Unplugging is in `Selection` only; in the other
  modules it is a call that fails.
* The durability of a `volatile` directory beyond what section 2 says.
* Presentation, the texts of errors and the estimate of permissions from mode
  bits: no decision rests on them. That discovery follows no symbolic links out of a device's
  directory.

## 6. Disagreements between the code and its documentation

1. `executor_keyboard_progress`: a short or unsupported keyboard status read
   is reported with 0 completed steps, although `reset` and `query_status` were
   transferred (`src/transport/mod.rs` 922-963); README line 13 says reports
   preserve completed counts.
2. `executor_cleanup_progress`: the power profile keeps its progress in
   `ExecutionError` when its cleanup fails, and `CliRunError::transport`
   (`src/cli.rs` 179, 247) drops it and says `transport_performed: false`;
   README line 33 says the progress is preserved.
3. `aw_elc_reattach`: `detach_failure` takes a driver that another process
   detached for its own and attaches it; README line 33 says the backend
   reattaches only when it detached. The attach is harmless to the other
   process in one respect, as it can only succeed while nobody has the claim,
   and makes its claim fail.
4. `restore_state_order`: two set-alls can record their colors in the order
   opposite to that of their completion, so the file is not that of the last
   fully successful one (`contrib/systemd/README.md` line 3).
5. `restore_stale_read`: the helper restores a color that a newer set-all has
   replaced during its readiness checks, and records it again.
6. `selection_bios`: `execute_keyboard_status` does not check the BIOS, so
   `keyboard-status` opens the keyboard and sends its query on any
   (`src/transport/mod.rs` 617-635); README line 145 says all live transports
   require BIOS 1.21.0. The sentence is read by its words: the paragraph before
   it lists the color routes, which do check.

## 7. Plan

Done: the core (handoff, executors, resume state, selection, restoration), the
pure part (`Targets`, `Plans`) and the commands over it, a proof of every
safety property, and the composition of the three layers through `StagedWrite`.

What would come next:

1. The recorded color of `Restore` as a `ColorRegister`, with the power losses
   it would need, so that the last joint of section 2 is checked too; and
   `Commands` as a `StagedWrite` whose plans have the lengths of the encoders.
2. The parser of report descriptors as a machine over items, against a
   definition by nesting.
3. Liveness by proof, should the prover come to support it.
