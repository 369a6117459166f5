------------------------------ MODULE RpmBuild ------------------------------
(***************************************************************************)
(* lmsdk-target rpmbuild (lmsdk-target/rpmbuild.go), which runs            *)
(* "lmsdk-target snapshot" as a child three times: to take a snapshot      *)
(* before the build and, in a deferred function, to restore the newest     *)
(* snapshot and to destroy the newest snapshot.  The child of the builder  *)
(* b is the process b of Snapshots; the processes that are not builders    *)
(* are other users' snapshot commands on the same target.                  *)
(*                                                                         *)
(* What the build does in the target (the preferred packages repository,   *)
(* the upgrade, the build dependencies, rpmbuild) is a number of edits; it *)
(* may end after any of them, with an error or without.                    *)
(***************************************************************************)
EXTENDS Snapshots

CONSTANT Builders

ASSUME BuildersAssumption == Builders \subseteq Procs

VARIABLES bpc,        \* where a builder is in run()
          clean,      \* --nocleanbuild was not given
          mine,       \* history: the snapshot its child took
          restored,   \* history: its child restored a snapshot
          told        \* history: the children whose failure was printed, and
                      \* "killed"; all three are kept until the next build, as
                      \* a child may outlive its builder

buildVars == <<bpc, clean, mine, restored, told>>
bvars == <<vars, buildVars>>

BuilderLocations == {"idle", "snapshot", "snapshotWait", "boot", "build",
                     "restore", "restoreWait", "destroy", "destroyWait"}

BInit ==
  /\ Init
  /\ bpc = [b \in Builders |-> "idle"]
  /\ clean = [b \in Builders |-> FALSE]
  /\ mine = [b \in Builders |-> NoSnap]
  /\ restored = [b \in Builders |-> FALSE]
  /\ told = [b \in Builders |-> {}]

Troubles == {"snapshot", "restore", "destroy", "killed"}

BGoto(b, l) == bpc' = [bpc EXCEPT ![b] = l]

\* What is printed of a child that ended.
Report(b, child) ==
  told' = IF status[b] = "ok" THEN told ELSE [told EXCEPT ![b] = @ \cup {child}]

End(b) ==
  /\ BGoto(b, "idle")
  /\ clean' = [clean EXCEPT ![b] = FALSE]
  /\ UNCHANGED <<mine, restored>>

-----------------------------------------------------------------------------
Begin(b, nocleanbuild) ==
  /\ bpc[b] = "idle" /\ pc[b] = "idle"
  /\ Loadable
  /\ BGoto(b, IF nocleanbuild THEN "boot" ELSE "snapshot")
  /\ clean' = [clean EXCEPT ![b] = ~nocleanbuild]
  /\ mine' = [mine EXCEPT ![b] = NoSnap]
  /\ restored' = [restored EXCEPT ![b] = FALSE]
  /\ told' = [told EXCEPT ![b] = {}]
  /\ UNCHANGED vars

\* comm.Run(): the child loads the target and runs to its end, or fails.
Fork(b, from, wait, f) ==
  /\ bpc[b] = from
  /\ Load(b, [flags |-> f, name |-> NoName]) \/ LoadFails(b)
  /\ BGoto(b, wait)
  /\ UNCHANGED <<clean, mine, restored, told>>

\* A step of the child, with the history of what it did for the build.
ChildStep(b) ==
  /\ Step(b)
  /\ mine' = IF CreateSnapshot(b)
             THEN [mine EXCEPT ![b] = CHOOSE s \in snaps' : s \notin snaps]
             ELSE mine
  /\ restored' = IF RestoreSnapshot(b)
                 THEN [restored EXCEPT ![b] = TRUE] ELSE restored
  /\ UNCHANGED <<bpc, clean, told>>

\* The deferred function is registered once the child has taken the snapshot.
SnapshotTaken(b) ==
  /\ bpc[b] = "snapshotWait" /\ pc[b] = "idle"
  /\ IF status[b] = "ok"
     THEN BGoto(b, "boot") /\ UNCHANGED <<clean, mine, restored>>
     ELSE End(b)
  /\ Report(b, "snapshot")
  /\ UNCHANGED vars

\* mutant: what has been created is removed before it is gone back to
LeaveDestroying(b) ==
  /\ IF clean[b] THEN BGoto(b, "destroy") /\ UNCHANGED <<clean, mine, restored>>
     ELSE End(b)
  /\ UNCHANGED told

\* run() returns, with or without an error, and its deferred function starts.
Leave(b) ==
  /\ IF clean[b] THEN BGoto(b, "restore") /\ UNCHANGED <<clean, mine, restored>>
     ELSE End(b)
  /\ UNCHANGED told

\* BootContainerSync: see Deferred.
Boot(b) ==
  /\ bpc[b] = "boot"
  /\ \/ rootfs # Gone /\ lxc' = "RUNNING"
     \/ UNCHANGED lxc
  /\ BGoto(b, "build")
  /\ UNCHANGED <<rootfs, lmFiles, snaps, clock, edits, incidents>>
  /\ UNCHANGED procVars
  /\ UNCHANGED <<clean, mine, restored, told>>

\* A command of the build changes the file system of the running target.
Edit(b) ==
  /\ bpc[b] = "build"
  /\ OtherEdit
  /\ UNCHANGED buildVars

\* The build is done, or one of its steps failed, the boot included.
BuildEnds(b) ==
  /\ bpc[b] \in {"boot", "build"}
  /\ Leave(b)
  /\ UNCHANGED vars

\* The failure to restore is printed, and the snapshot destroyed all the same.
RestoreWait(b) ==
  /\ bpc[b] = "restoreWait" /\ pc[b] = "idle"
  /\ BGoto(b, "destroy")
  /\ Report(b, "restore")
  /\ UNCHANGED <<clean, mine, restored>>
  /\ UNCHANGED vars

DestroyWait(b) ==
  /\ bpc[b] = "destroyWait" /\ pc[b] = "idle"
  /\ End(b)
  /\ Report(b, "destroy")
  /\ UNCHANGED vars

\* The builder is killed: no deferred function; a child lives on.
KillBuilder(b) ==
  /\ "killed" \in Faults
  /\ bpc[b] # "idle"
  /\ End(b)
  /\ told' = [told EXCEPT ![b] = @ \cup {"killed"}]
  /\ incidents' = incidents \cup {"killed"}
  /\ UNCHANGED <<lxc, rootfs, lmFiles, snaps, clock, edits>>
  /\ UNCHANGED procVars

KillChild(b) == Kill(b) /\ UNCHANGED buildVars

Builder(b) ==
  \/ \E n \in BOOLEAN : Begin(b, n)
  \/ Fork(b, "snapshot", "snapshotWait", {}) \/ SnapshotTaken(b)
  \/ Boot(b) \/ Edit(b) \/ BuildEnds(b)
  \/ Fork(b, "restore", "restoreWait", {"restore"}) \/ RestoreWait(b)
  \/ Fork(b, "destroy", "destroyWait", {"destroy"}) \/ DestroyWait(b)
  \/ ChildStep(b) \/ KillBuilder(b) \/ KillChild(b)

User(u) ==
  /\ \/ \E c \in Commands : Load(u, c)
     \/ LoadFails(u)
     \/ Step(u)
     \/ Kill(u)
  /\ UNCHANGED buildVars

BNext ==
  \/ \E b \in Builders : Builder(b)
  \/ \E u \in Procs \ Builders : User(u)
  \/ (Environment \/ OtherEdit) /\ UNCHANGED buildVars

BSpec == BInit /\ [][BNext]_bvars

-----------------------------------------------------------------------------
(* Properties. *)

BTypeOK ==
  /\ TypeOK
  /\ bpc \in [Builders -> BuilderLocations]
  /\ clean \in [Builders -> BOOLEAN]
  /\ mine \in [Builders -> Snapshot \cup {NoSnap}]
  /\ restored \in [Builders -> BOOLEAN]
  /\ told \in [Builders -> SUBSET Troubles]

\* "Delete the created snapshot after build" (rpmbuild.go:332): the snapshots
\* that the children of a build restore and destroy, which they find as the
\* newest one, are the one the build took.
OwnSnapshot ==
  \A b \in Builders : target[b] # NoSnap => target[b] = mine[b]

\* OwnSnapshot, made inductive. What holds of the target ...
ShotsInv ==
  /\ rootfs \in 0 .. MaxEdits \cup {Gone} /\ edits <= MaxEdits /\ clock <= MaxClock
  /\ \A s \in snaps : s.time <= clock /\ s.root <= MaxEdits
  /\ \A s, t \in snaps : s.name = t.name => s = t

Restoring == {"restore", "tools", "openLm", "writeLm", "writeGone", "discard"}

\* ... of a snapshot command, the child of a build or another user's ...
ChildInv(p) ==
  /\ todo[p] = {}
  /\ pc[p] \in {"idle", "stop", "work"} => target[p] = NoSnap
  /\ pc[p] \in Restoring => cmd[p].flags = {"restore"}
  /\ pc[p] = "destroy" => cmd[p].flags = {"destroy"}
  /\ pc[p] \in {"restore", "destroy"} => target[p] # NoSnap
  /\ pc[p] # "idle" =>
       IF p \in Builders
       THEN cmd[p].flags \in {{}, {"restore"}, {"destroy"}} /\ cmd[p].name = NoName
       ELSE cmd[p].flags \in {{"list"}, {"restore"}}

\* ... of a build and its child ...
ForkInv(b) ==
  /\ bpc[b] \in {"snapshot", "boot", "build", "restore", "destroy"} => pc[b] = "idle"
  /\ bpc[b] = "snapshotWait" /\ pc[b] # "idle" => cmd[b].flags = {}
  /\ bpc[b] = "restoreWait" /\ pc[b] # "idle" => cmd[b].flags = {"restore"}
  /\ bpc[b] \in {"restore", "restoreWait", "destroy"} => clean[b]

\* ... of the snapshot of a build that is to be restored or destroyed, by a
\* child that outlives the build, too: it is newer than all the others ...
Needed(b) ==
  \/ clean[b] /\ bpc[b] \in {"boot", "build", "restore", "restoreWait", "destroy"}
  \/ bpc[b] = "snapshotWait" /\ pc[b] \in {"defer", "idle"} /\ status[b] = "ok"
  \/ pc[b] # "idle" /\ cmd[b].flags = {"restore"}
  \/ pc[b] \in {"stop", "work", "destroy"} /\ cmd[b].flags = {"destroy"}

OwnInv(b) ==
  /\ target[b] # NoSnap => target[b] = mine[b]
  /\ Needed(b) => mine[b] \in snaps /\ \A s \in snaps \ {mine[b]} : s.time < mine[b].time

\* ... and of what a build has not done yet.
AheadInv(b) ==
  /\ \/ bpc[b] = "snapshot"
     \/ pc[b] \in {"stop", "work"} /\ cmd[b].flags = {}
     => mine[b] = NoSnap
  /\ \/ bpc[b] \in {"snapshot", "snapshotWait", "boot", "build", "restore"}
     \/ pc[b] \in {"stop", "work", "restore"} /\ cmd[b].flags = {"restore"}
     => ~restored[b]

\* A build is told of a restore or of a snapshot that did not come to its end,
\* and of one that is left.
ToldInv(b) ==
  /\ \/ pc[b] \in Restoring \ {"restore"}
     \/ pc[b] = "defer" /\ cmd[b].flags = {"restore"} /\ status[b] = "ok"
     \/ bpc[b] = "restoreWait" /\ pc[b] = "idle" /\ status[b] = "ok"
     => restored[b]
  /\ \/ bpc[b] \in {"destroy", "destroyWait"}
     \/ pc[b] # "idle" /\ cmd[b].flags = {"destroy"}
     => restored[b] \/ "restore" \in told[b]
  /\ \/ pc[b] = "defer" /\ cmd[b].flags = {"destroy"} /\ status[b] = "ok"
     \/ bpc[b] = "destroyWait" /\ pc[b] = "idle" /\ status[b] = "ok"
     => mine[b] \notin snaps
  /\ bpc[b] = "destroyWait" /\ pc[b] # "idle" => cmd[b].flags = {"destroy"}
  /\ bpc[b] = "idle" /\ (pc[b] # "idle" \/ mine[b] \in snaps) => told[b] # {}
  /\ ~clean[b] => /\ bpc[b] \notin {"snapshot", "snapshotWait"}
                  /\ bpc[b] \in {"boot", "build"} => mine[b] = NoSnap

BuildInv ==
  /\ ShotsInv
  /\ \A p \in Procs : ChildInv(p)
  /\ \A b \in Builders : ForkInv(b) /\ OwnInv(b) /\ AheadInv(b)

\* The promise of a clean build, see CleanBuild.
Promise == INSTANCE CleanBuild WITH
  root <- rootfs, shots <- snaps, own <- mine, restored <- restored, told <- told,
  Troubles <- Troubles,
  Roots <- 0 .. MaxEdits \cup {Gone}, NoShot <- NoSnap,
  Shots <- [name : SnapNames, time : 0 .. MaxClock, root : 0 .. MaxEdits]

CleanBuildPromise == Promise!Spec

\* What a clean build (rpmbuild.go:325-350) keeps from step to step, of its own
\* snapshot, of what it tells and of the types of what it holds.
InductiveInv == BTypeOK /\ BuildInv /\ \A b \in Builders : ToldInv(b)
=============================================================================
