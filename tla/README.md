# A TLA+ model of the Link Motion SDK tools

`lm-sdk-tools` manages *targets*: unprivileged lxc containers in which software
is built for a device. This directory holds TLA+ modules that model its parts,
TLC configurations that check them on small instances, and theorems about them
that TLAPS checks for every value of the constants. Paths below are relative to
the repository; `helpers.go:142` is a line of a file.

## 1. Inventory

### Components, their state and their operations

| Component | State it keeps | Operations | Correct when |
|---|---|---|---|
| `lmsdk-target snapshot` (`lmsdk-target/snapshot.go`) | the container, its snapshots, config-lm and the tool links | create, restore, reset, destroy, list; stop before, deferred boot after | the chosen snapshot is the extremal one; a restore brings config-lm back; reset keeps the first snapshot; the container runs again |
| `lmsdk-target rpmbuild` (`lmsdk-target/rpmbuild.go`) | a snapshot for the time of a build | children: snapshot, restore, destroy; boot, repository, upgrade, dependencies, build | the target is as before, by way of the build's own snapshot, or the user is told |
| `lmsdk-target create`, `destroy` (`create.go`, `destroy.go`, `RemoveContainerSync`) | container directory, default configuration file, config-lm | default configuration, `lxc-create`, mounts, start with retries, `sed` of passwd, FinalizeContainer; removal | config-lm marks complete targets only; a failed create leaves nothing; nobody else's container is removed |
| FinalizeContainer, tools fixable (`create.go:429`, `fixables/tools.go`) | links in the target's directory, config-lm | links, truncation, write | as above |
| loading targets (`helpers.go:238-289`) | none | LoadLMContainer, FindLMTargets | a target without config-lm is refused |
| booting (`helpers.go:147`) | state of the container | wait, start, wait | the container runs, or an error is returned |
| `lmsdk-target autosetup`, `initialized` (`autosetup.go`, `initialized.go`, `helpers.go:73-145, 336-538`) | `/etc/subuid`, `/etc/subgid`, the bridge file, lxc-usernet, directories, all containers of the user | stop all, edit, restart | what initialized checks holds afterwards; ranges handed out stay; the containers come back |
| image template and downloader (`share/lxc-lm-download`, `lmsdk-download/main.go`) | `~/.cache/lxc/...`, shared by all creates | index, flush, index, download, fill, unpack, configure | the target gets one whole image |
| id mapping (`create.go:224-282`) | the default configuration file | arithmetic on 32 bits | disjoint, complete ranges |
| devices and tools fixables (`fixables/`, `autofix.go`, the last check of `initialized.go`) | the containers' configuration files and links | check, rewrite without broken mounts, remove and make links | the rest of the file stays as it was; no error means clean and linked |
| `lmsdk-target rpminstall`, rpmbuild's repository and dependencies (`rpminstall.go`, `helpers.go:659-695`, `rpmbuild.go:189-295, 360-545`) | packages and repositories of the target, temporary directories | copy, `zypper rr`, `ar`, `up`, `install`; removal | the preferred packages are installed; no repository and no directory is left |
| exec, maint, run, upgrade (`exec.go`, `upgrade.go`) | the target's file system | boot, run a command | status of the command |
| wrapper (`lmsdk-wrapper/`) | pidfile, two pipes | boot, run a tool, relay output and signals | all output relayed, no tool left behind, the tool's status returned |
| command output (`helpers.go:612`) | two pipes | run, then read | ends |
| user database, quoting, queries, help | none | read and print | - |

### How they interact

There is no daemon and no lock. Every command is a process that loads the
target from disk (`LoadLMContainer`: the container is defined and its config-lm
parses), calls lxc, and exits. Commands meet in

* the **container**: its state, root file system, snapshots and directory, which
  lxc changes on behalf of whoever asks;
* **config-lm**, which every command but create, destroy and autosetup requires;
* the **default configuration file** of a distribution, shared by all creates;
* the **image cache**, shared by all creates of one kind of target;
* the **host files** autosetup edits and create and initialized read;
* the **repositories** of a target, which rpmbuild and rpminstall name by command
  and not by process;
* parent and child: rpmbuild runs `lmsdk-target snapshot` three times and
  `upgrade`, create has lxc run the template, which runs the downloader; the
  wrapper runs a shell in the target that becomes the tool.

### What is hard

Interleaving of whole processes between any two calls to lxc or to the file
system; names that are freed and used again while another process holds a list
with the old meaning; clean-up by name or by age instead of by identity;
truncate-then-write files; deferred functions that `os.Exit` and a kill skip;
writes whose errors are dropped; exit codes that nobody reads; pipes and
channels that are full; retries. `PROJECT.json` lists each at its line
under "hazards", with the property that covers it or the reason none does.

## 2. Modules

| Module | Models | Composes |
|---|---|---|
| `FindSnapshot` | `findSnapshot`'s scan, entry by entry (proved, not run) | - |
| `Snapshots` | the snapshot command: any number of processes on one target | - |
| `RpmBuild` | rpmbuild, its children being processes of `Snapshots` | EXTENDS `Snapshots` |
| `CleanBuild` | what a clean build promises (abstract) | INSTANCE in `RpmBuild` |
| `Packages` | what happens in the target during a build, and rpminstall | the step `Edit` of `RpmBuild`, in detail |
| `CreateTarget` | create and destroy: any number of processes on any names | - |
| `IdMap` | the id mapping that create writes | pure operators |
| `HostSetup` | autosetup, and initialized as a predicate | its ranges are the input of `IdMap` |
| `ImageCache` | the template, with the downloads | the step `template` of `CreateTarget`, in detail |
| `Fixables` | autofix, and the fixables as initialized checks them | - |
| `CommandRun` | BootContainerSync, a tool run by the wrapper or for its output | the step `Boot` and `Deferred` of the others, in detail |
| `*Proofs` | theorems and lemmas | EXTENDS the module |
| `MC*` | the instances TLC checks | EXTENDS the module |

In every module a process has a program counter (`pc`), one value per place
where another process can come between; an action is what happens from one such
place to the next, with its conditions, its early returns and its error exits.
lxc, the clock, kills and the image server are environment. Variables called
"history" in their declaration are read by properties only. Operators marked
`mutant:` are plausible bugs in the definition that follows them; each property
of a passing run is violated when one of them takes that definition's place.

**Snapshots.** `lxc` and `rootfs` are the container (the file system is the
number of the edit that made it, `Gone` when a failed restore lost it),
`lmFiles` the links and config-lm (`"config"` complete, `"partial"` truncated),
`snaps` the snapshots with name, second and content. `Load` is run() up to line
77, `Select` the list and the choice, `RestoreSnapshot`, `FixTools`, `OpenLm`,
`WriteLm` the restore with FinalizeContainer, `Discard` one removal of reset,
`Return` every `return` (also by panic), `Deferred` the function of line 79,
`UsageExit` the `os.Exit`. A list is read once and used later, so `target` and
`todo` hold copies. A process whose file was taken away by a restore continues
at `writeGone`. `OtherBoot` and `OtherEdit` (in `RpmBuild`) are the commands that boot and
use the target.

**RpmBuild.** A builder `b` and its child share the name `b`: `Fork` loads the
child as process `b` of `Snapshots`, `ChildStep` moves it, the `...Wait`
locations are `comm.Run()`. Killing the builder leaves the child. `CleanBuild`
is implemented under the refinement mapping `Promise`: `mine` is the snapshot a
build took, `restored` that it went back to it, `told` which children's failure
was printed (`Report`), or that the build was killed. What `CleanBuild` promises is
no more than the code keeps: a snapshot that was not restored may be removed, but
not before the failure was told.

**CreateTarget.** A target is `Absent` or a record of what is on disk; `owner`
(history) is the create that made it. `conf` is the shared default
configuration, `mapped` what a process read from it and, in a target, what that
was made with. `Fail` is the `if !c.keepOnError` clause.

**Packages.** `repos` gives the directory of each repository in the target,
`there` the directories that exist, `installed` where a package came from
(history as far as the code goes: nothing reads it but zypper). A temporary
directory gets a name once. The locations `rr`, `ar`, `up` are the calls in
AddZypperRepository, `Leave` is a `return` with what was deferred up to there.
A clean build's children are its steps `snapshot` and `restore`, each with the
time the target is stopped; their own interleavings are those of `RpmBuild`.

**IdMap** has the three `lxc.idmap` lines with their unsigned arithmetic, and
what a target needs of them, for any width `W`.

**HostSetup.** An id file is a sequence of entries with or without a newline;
`Alone` is the reader's test for three fields, so a line of two entries holds
none. `offset` is where the scanner stopped and the entry will be written;
`next` is the greatest end of a range, an end being taken modulo `Width`. The
bridge file is unset, cut off ("empty") or configured.

**ImageCache.** `kind` is what stands at the cache path, `cache` the build each
part comes from, `temp` the archives of a run. `DOWNLOAD_INTERACTIVE` is true
(line 35), so a create fetches the index before the flush (`DownloadIndex`) and
again after it into the same file (`DownloadIndexAgain`); `index` is the first line
of the image in it, which `Parse` takes, and whether that line is whole. `rm -Rf`
removes part by part and finds its directory by path. When the directory goes, a
`tar` that has it open (`extracting`) is an `orphan`; one that was not started yet
(`extract`) looks the path up in `StartTar` and uses whatever directory is there
then. `Interrupt` is the trap of line 309, which cleans up and does not exit.

**Fixables.** A line of a configuration file is a record with the device that
it mounts and the devices whose path occurs in it, which is what the rewrite
looks for. `loaded` is what FindLMTargets read, `conf` what the fix read again;
`CreateFile` empties the file and `WriteFile` writes from its beginning.
`ok` is that the last command reported no error, `gone` (history) the devices
that were never there while it ran.

**CommandRun.** One process. `main` goes through BootContainerSync (`state`,
`settle`, `again`, `start`, `await`), the attach and the end; `handler` and
`relay` are the goroutines of the wrapper, `tool` is the shell and what it
becomes, `pipe` its output on the way; the tool writes its two streams in any
order. Paths are two symbols, so that they can be cut by a read; a mapped one
has the first of them replaced by `"rootfs/"`. `Attached` is that the tool's
RunCommandStatus has not returned: go-lxc keeps the container locked for that long,
so `Forward`, a call on the same container, waits. `mode` says whether the wrapper or RunInContainerOuput runs
the tool.

## 3. Runs

All bounds are in the `.cfg` files and `MC*` modules.

| Run | Instance | What it shows |
|---|---|---|
| `snap_files` | 2 processes, 2 snapshot names, lines of every kind with a named restore and a conflicting pair; kill, lost container, failed write | `ConfigLmRecreated`, `LostConfigIsFinal` |
| `snap_reset` | 2 processes taking and resetting, 2 names, seconds 0-3, a copy takes 1; failed boot; fair | `OldestSurvives` with `OldestInv`; `ContainerRestarted` |
| `rpm_build` | 1 builder and 1 user who lists and restores, an older snapshot, 1 edit, which tells the older snapshot from that of the build, 2 names, seconds 0-2, so that a second build takes the name of the first one's snapshot; kill | `OwnSnapshot` with `InductiveInv`, and refinement of `CleanBuild` (`CleanBuildPromise`) |
| `packages` | 1 process that builds and installs, with and without preferred packages and clean-up, 1 that installs with preferred packages; 2 packages, 3 requirements (one without a provider), 2 directories; zypper failing, kill | `PreferredIsUsed`, `CleanedUp`, `BuildDepsThere`, with `InductiveInv` |
| `create` | 2 processes with a name each; stop and destroy fail, kill; fair | `ConfigLmIsLast`, `FailureLeavesNothing`, with `InductiveInv`; `CommandEnds` |
| `host_setup` | 2 autosetups of one user, with and without `-b`, 2 containers, id files empty or with three ranges out of order, the last ending beyond `Width` = 5; every kind of failure, kill | `RangeIsKept`, `RangesDisjoint`, `SetupIsEnough`, `ContainersComeBack`, with `InductiveInv`; and `MappingAssumption`, the id mapping for all values of 4 bits |
| `image_cache` | 2 creates, 2 builds; broken downloads, failing `rm` and downloads, interrupt, kill | `FreshImage`, `IdIsLast`, with `CacheInv` |
| `autofix` | 2 autofixes or initializeds, 2 targets, 1 device that both mount, 1 change of a device or of a target; failing reads, writes and links, kill | `InductiveInv`, `RestIsKept`, `OkMeansClean`, `LinksAreThere` |
| `command_run` | every state of the container, 5 tools (silent, a compiler with a path cut in two, one with a long line, one that leaves a child, one that never ends), pipes of 2 symbols, 2 starts or stops by others, 2 signals; fair | `BootSucceeds`, `AllRelayed`, `NoOrphan`, `StatusIsTheTools`, with `InductiveInv`; `RunEnds` |
| `create_v_same` | 2 creates of one name | the loser removes the winner's container |
| `host_v_glued` | autosetup for two users, one after the other | the second entry is glued to the first, both are lost |
| `fix_v_two` | one autofix, two mounts of missing devices | both mounts stay, the other lines are doubled |

Why the bounds are enough: every hazard listed needs two processes (a process
that reads and acts, and one that comes between) and one name that is freed and
used again, or one failure at a chosen place; each instance has these. Two
names and the edit tell apart "mine", "older" and "gone"; a third process adds
a second disturber, which the theorems below cover for all modules they are
about. The bounds `MaxClock`, `MaxEdits`, `MaxBuild`, `MaxChanges` and
`MaxSignals` only stop the environment. `MaxClock` also stops new snapshots:
`snap_reset` has room for three, which is one more than there are names at a
time. `Dirs` bounds the commands with preferred packages: two are enough for one
that comes across what another has left. `Cap` is two and the longest output
five symbols, so that a writer waits. Symmetry is used for safety only.

**What is excepted, and why.** Properties that name `incidents` hold unless
something of that kind happened: a kill where only the killed process could
have done the work, a call that failed where the code ignores it, and two
commands at once where the code has nothing to keep them apart. The exceptions
are part of the finding; without them TLC shows the code's behaviour at once:

* `ContainerRestarted` excepts the usage exit (`snapshot.go:91`),
  `ContainersComeBack` any error of autosetup between stop and restart,
  `SetupIsEnough` a write whose error `helpers.go:142` drops.
* `OwnSnapshot` and `CleanBuildPromise` are checked for users who list and
  restore. When a user takes a snapshot during a build, the build restores and
  destroys that one (`rpmbuild.go:336-349`). When the restore fails, that is
  printed and the snapshot of the initial state is destroyed all the same
  (`rpmbuild.go:340-351`): `CleanBuild` allows it once the user was told, so
  that the loss itself is in the model and in no property.
* `ConfigLmIsLast` sees whether a target was made with the id mapping. That it
  always was rests on lxc, which makes no container for an ordinary user
  without one: a create that loaded the file while another had emptied it fails.
* `PreferredIsUsed` excepts two commands with preferred packages at once: of two
  rpminstalls the first to end takes the repository of both. `CleanedUp` excepts
  an rpminstall that could not add its repository, which leaves its directory
  (`rpminstall.go:62-65`), and a build without clean-up, which leaves its
  repository.
* `FreshImage` allows any build from the one that the server listed when the
  create began: the index is the one of before the flush, and if that broke off
  before the line of the image, the later one.
* `FreshImage` and `IdIsLast` are about creates that succeed: between the
  `mkdir` and the `mv` of one create the flush of another removes the directory,
  the archive takes its path, and no create gets past `mkdir` from then on
  (`kind = "file"`, `lxc-lm-download:488`).
* `RangesDisjoint` excepts ranges that end at or beyond the last id, whose end
  wraps.
* `RestIsKept` and `OkMeansClean` except a rewrite that was cut off, overlapped
  or was not written (`"rewrite"`), and one of two broken mounts (`"two"`,
  the subject of `fix_v_two`); `LinksAreThere` a link that could not be removed
  (the error is dropped, `tools.go:74`) or made.
* `BootSucceeds` lists what makes a boot fail or end early in `excuses`, a start
  by another process after the first look included: of tools run in parallel on
  a stopped target only one need get through (`helpers.go:162-166`).
  `RunEnds` excepts output that does not fit in the pipes of
  RunInContainerOuput (`helpers.go:627`), and a child that keeps them open.
  `NoOrphan` excepts a signal before the handler's goroutine has run; one
  after that does not get to the tool (see Fairness), and no property says so.
  `StatusIsTheTools` is about tools that exit: for one that dies of a signal,
  and for an internal error (status 1), WEXITSTATUS gives 0, against the comment
  in `lmsdk-wrapper.h:28`.

**Fairness.** `FairSpec` and the `Spec` of `CommandRun` ask weak fairness of each
process' own steps: a process, or a goroutine of the wrapper, that was started
is scheduled by the host; in `CommandRun` also of the tool's steps and of the
container, which does not stay in a state of transition. No fairness is asked
of the start of commands, kills, edits, boots by others, the clock, signals,
crashes, or the end of a child that a tool left behind. Under it `CommandEnds`,
`ContainerRestarted` and `RunEnds` hold; calls to lxc that hang are outside the
model. Of go-lxc, which is not part of the repository, two things are assumed: it
returns raw wait statuses, and RunCommandStatus holds the lock of its
`lxc.Container` from the attach to the end of the command. So the kill that
forwards a signal (`lmsdk-wrapper.go:219`) waits for the call of line 260: in the
model no signal gets to a running tool, and there is no property that one does.

## 4. Theorems

Each safety property below is checked by a run on a small instance and proved
for every value of the constants: any number of processes, targets, names,
snapshots, packages, users, containers, builds, tools, pipe sizes. A property is seldom inductive,
so every module but `IdMap` has an inductive invariant that implies it; the run
checks that one as well (`InductiveInv`, `CacheInv`, `OldestInv`), before and
beside its proof. The proofs have one step, or one lemma, for every action that
can disturb the invariant.

| Theorem | Assumes | Argument |
|---|---|---|
| `FindSnapshotCorrect` | `AnyLists`: timestamps are natural numbers or unparsable | `ScanInv`: the answer is right for the entries before `pos` |
| `SnapshotsProofs!TypeCorrect` | - | each way a process moves is well typed (`ControlType`) |
| `ConfigLmTheorem` | - | `ConfigLmInv`: `ConfigLmRecreated` is not inductive, as it allows a process at `writeLm` with no file to complete; the invariant has a truncated file have its writer, which a restore that takes the file away replaces by itself |
| `LostConfigTheorem` | - | no command passes `Loadable`, and only a command in progress writes config-lm |
| `OldestInvTheorem`, `OldestTheorem` | `TakesAndResets`: only plain `snapshot` and `--reset` without `-N`, copies that take a second or more | `OldestInv`: times tell snapshots apart, a process' target is the oldest from its choice on, no name it will remove is the target's |
| `CreateTargetProofs!TypeCorrect` | - | includes the bound on the attempts |
| `ConfigLmIsLastTheorem` | `Exclusive`: no name is used by two processes | `CreateInv`: a create past the template finds its own complete container; `MappedInv`: whatever is emptied under it, a container is made only from a configuration that was complete when it was loaded |
| `CreateTargetProofs!InductiveInvTheorem`, `FailureLeavesNothingTheorem` | `Exclusive` | `FailureInv` follows the removal that a failing create tries again and again: until a container is gone, its create is still at it or there is an incident |
| `RpmBuildProofs!InductiveInvTheorem`, `OwnSnapshotTheorem` | `Alone`: one builder, all others list or restore; copies that take a second or more | `BuildInv`: from its taking to its removal the build's snapshot is in the list and newer than all others, and what a child has read of the list agrees with it; `ToldInv`: a child that is past its restore, or ended without an error, has restored (or destroyed) what the build took, and the failure of one that has not was told before the next begins |
| `CleanBuildTheorem` | `Alone` | refinement under `Promise`: `CreateSnapshot` of a child is `Take`, its `RestoreSnapshot` `Restore`, its `DestroySnapshot` `Drop`, what the builder prints is `Tell`, `Begin` is `End` of the last build, and every other step changes the target only or nothing; by `ToldInv` a `Drop` has its restore or its telling behind it, and a build that ends with its snapshot left has told |
| `PackagesProofs!TypeCorrect`, `CleanedUpTheorem`, `PreferredTheorem` | - | `PackagesInv`: every directory and repository has a command that will remove it or an incident; two commands that disturb each other are noted when the second one begins, so that one which is not noted has its repository for itself |
| `PackagesProofs!InductiveInvTheorem`, `BuildDepsTheorem` | `NoOtherRestores`: when one process builds with `--build-deps`, no other makes a clean build | `DepsInv`: a requirement is provided, listed for the installation, or still to be looked at |
| `HostSetupProofs!TypeCorrect`, `ContainersComeBackTheorem` | - | `OwedInv`: a container that ran and is down is owed by an autosetup that will start it |
| `RangesDisjointTheorem` | `RangesGiven`: the ranges of the initial files are disjoint | `PlaceInv`: behind the place that an autosetup has found no line has a newline yet, and its new range is above all ranges before it |
| `RangeIsKeptTheorem`, `SetupIsEnoughTheorem` | `OneOwner`: one user; `LinesEnd`: the initial files end with a newline or have the user's entry | `SetupInv`: all autosetups of one user write one entry at one place, and what one that is past a step has written is there, whoever writes it again |
| `HostSetupProofs!InductiveInvTheorem` | all three | the conjunction of the two |
| `ImageCacheProofs!TypeCorrect` | - | that only the root archive is ever cut off is part of `TypeOK`, which is not inductive without it: the parts are copied as they are |
| `CacheInvTheorem`, `FreshImageTheorem`, `IdIsLastTheorem` | - | `CacheInv`: a part that is missing has a create that is still to flush or to provide it, or one that failed; the build to install is none from before the create began; a create that is alone finds only what it put there |
| `CommandRunProofs!InductiveInvTheorem` | - | `BootInv`: in which states each look of the boot may find the container; `ToolInv`: which status the tool has and whether the handler is there; `RelayInv`: what each place of the process says of the relays; `StreamInv`: what was written is printed, in the line and in the pipe, in this order |
| `BootSucceedsTheorem`, `NoOrphanTheorem`, `StatusTheorem` | - | from `BootInv` and `ToolInv`; of all wait statuses only that of an exit is a multiple of 128 |
| `AllRelayedTheorem` | - | at the exit the pipe and the line are empty; `MappedInParts`: a text cut behind an end of line is mapped part by part, as no path reaches over it |
| `FixablesProofs!InductiveInvTheorem` | - | `FileInv`: a file that nobody writes is `Without(Config, dropped)`, and so is what a command has read or loaded, with what was dropped by then; `CleanInv`: of what a command found missing in a target nothing is left there; `LinkInv`: the link of a target it has seen is there or in the making |
| `RestIsKeptTheorem`, `OkMeansCleanTheorem`, `LinksAreThereTheorem` | - | a file only loses lines and a device that came back is no longer `gone`, so what was seen clean stays clean; the operators on lines rest on lemmas by induction over sequences |
| `MappingCorrect` | `WideEnough`: the range holds the user's id and ends within the width | no sum or difference wraps; then by the line an id is in |

The assumptions are not decoration:

* without `Exclusive` `create_v_same` shows how a create loses its container,
  after which another one's may be marked complete;
* with two snapshots in a second, two resets may each take a different one for
  the first and discard the other's; `--reset -N` discards the first by itself;
* without `Alone` a snapshot that somebody takes during the build is the newest
  one, and the build restores and destroys it (section 3);
* without `NoOtherRestores` a clean build of the same target takes away the
  dependencies that another one has just installed;
* without `OneOwner` `host_v_glued` shows the second user's entry glued to the
  first one's; without `LinesEnd` the user's own entry is glued to the last line
  of a file that lacks the newline, and is never found;
* `RangesGiven` is what the files need to have for the property to hold at all;
  autosetup does not look at ranges of others beyond their ends;
* a range without the user's id never gives a right mapping, which TLC evaluates
  in `MappingAssumption`, and the code's check for it is an empty `if`
  (`create.go:260`).

The constants' assumptions (`CommandsAssumption`, `InitialAssumption`, ...)
are types of the parameters and are evaluated by TLC in the runs.

Model-checked only: liveness (`ContainerRestarted`, `CommandEnds`, `RunEnds`),
which is out of the prover's reach.

Induction. The prover cannot instantiate the library's induction theorems, whose
induction formula is an operator. `FixablesProofs` and `HostSetupProofs` do without:
a minimal element of a set of numbers (`WFMin` for `<`) gives that a set with 0 and
all successors is `Nat`, and from it that a set of sequences with the empty one
and every `Append` is that of all sequences. So the lemmas on `Without`,
`BrokenMounts` and `Rewritten` hold for files of any length; these operators
are written with `FlattenSeq` for its definition, a function over the indices, can be
unfolded by a proof.

## 5. What is not modelled

* Output, prompts, quoting, option parsing and the texts of configuration lines.
  A prompt is a choice; that rpmbuild's prompt repeats for ever at the end of
  input (`rpmbuild.go:168`) is not seen.
* lxc itself, beyond what its callers see; a call that never returns. zypper,
  beyond what it takes a package from.
* In the wrapper: the removal of the cmake cache before the run, the line for
  qmake, and the mapping of arguments.
* The sources of a build on the host (spec file, tarball, copies), which are one
  step of `Packages` that may fail; a directory of the build is never removed.
* exec, run, maint: they replace themselves by `lxc-attach`.
* `passwd.go`, `shellquote.go`, list, status, exists, rootfs, username, images,
  help: no state of their own.
* In the template: `--force-cache` and expiry, which create's `--flush-cache`
  comes before, gpg, which `--no-validate` turns off, and the questions of the
  interactive mode, whose answers create gives as options; the index it fetches
  is modelled. The owners of the cache's files (lines 496-501).
* The owners of a target's files: `CheckContainerPermissions`
  (`helpers.go:716-728`), called at the end of create, of a snapshot command and
  before a removal, runs `chown -R` on the target's directory with lxc 2.1 and
  later, and only prints that it failed.
* CheckContainer and FixContainer of the devices fixable, which nothing calls.

## 6. Plan

Modelled first, because the most depends on it: the life of snapshots and of
config-lm, then rpmbuild on top, then create, the host and the cache; then the
fixables, the id mapping, the wrapper with the boot, and packages. Next, in this
order:

1. Composition of `CreateTarget` and `ImageCache`: two creates of different
   names and one kind of image.
2. Proof: the entry that `FindSnapshot` returns, of a list of the snapshots in
   `Snapshots`, is one of `Oldest` or of `Newest`.
