------------------------------ MODULE Snapshots -----------------------------
(***************************************************************************)
(* lmsdk-target snapshot (lmsdk-target/snapshot.go), run by several        *)
(* processes on one target: create, restore, reset, list and destroy       *)
(* snapshots, with the stop of the container before and the deferred boot  *)
(* after.  Nothing locks the target, so the processes interleave between   *)
(* any two calls to lxc, and with the commands that boot the target (the   *)
(* wrapper, rpmbuild) and change its file system (these, exec, upgrade,    *)
(* rpminstall).                                                            *)
(*                                                                         *)
(* The file system of the target is the number of the edit that made it.   *)
(* lxc itself is external: names of new snapshots are some unused one,     *)
(* creating and restoring need a stopped container, every call may fail.   *)
(***************************************************************************)
EXTENDS Naturals, FiniteSets

CONSTANTS Procs,      \* processes of the host
          SnapNames,  \* names lxc gives to snapshots
          NoName,     \* no -N was given
          NoSnap,     \* nil, for a *lxc.Snapshot
          Gone,       \* the root of a container that a failed restore lost
          Commands,   \* command lines that are run, see CommandLines
          Faults,     \* the Incidents that may happen
          InitialSnaps, \* the sets of snapshots, at second 0, to start with
          CopyTime,   \* the seconds a copy of the root takes at least
          MaxClock,   \* bound on the clock
          MaxEdits    \* bound on the number of edits

Flags == {"restore", "reset", "destroy", "list"}
CommandLines == [flags : SUBSET Flags, name : SnapNames \cup {NoName}]
Incidents == {"killed", "usage", "lost", "lmFailed", "bootFailed"}

ASSUME CommandsAssumption == Commands \subseteq CommandLines /\ Faults \subseteq Incidents
ASSUME InitialAssumption ==
  \A S \in InitialSnaps :
    /\ S \subseteq [name : SnapNames, time : {0}, root : {0}]
    /\ \A s, t \in S : s.name = t.name => s = t
ASSUME TimeAssumption == CopyTime \in Nat /\ MaxClock \in Nat /\ MaxEdits \in Nat
ASSUME NoneAssumption ==
  /\ Gone \notin Nat /\ NoName \notin SnapNames
  /\ NoSnap \notin [name : SnapNames, time : Nat, root : Nat]

VARIABLES lxc,        \* state of the container
          rootfs,     \* its file system
          lmFiles,    \* LM specific files: "tools" (links), "config" and
                    \* "partial" (config-lm, complete and truncated)
          snaps,      \* its snapshots
          clock,      \* the seconds that timestamps count
          edits,      \* the last edit
          incidents   \* history: what went wrong for good, see Incidents

targetVars == <<lxc, rootfs, lmFiles, snaps, clock, edits, incidents>>

VARIABLES pc,         \* where a process is in run()
          cmd,        \* its command line
          restart,    \* startContainer
          target,     \* snapToRes, snapToDel: a copy of the list's entry
          todo,       \* entries of its list that reset has yet to remove
          status      \* exit status of its last command

procVars == <<pc, cmd, restart, target, todo, status>>
vars == <<lxc, rootfs, lmFiles, snaps, clock, edits, incidents,
          pc, cmd, restart, target, todo, status>>

Snapshot == [name : SnapNames, time : Nat, root : Nat]
NoCommand == [flags |-> {}, name |-> NoName]
Locations == {"idle", "stop", "work", "restore", "tools", "openLm", "writeLm",
              "writeGone", "discard", "destroy", "defer"}

Init ==
  /\ lxc \in {"STOPPED", "RUNNING"}
  /\ rootfs = 0 /\ edits = 0 /\ clock = 0
  /\ lmFiles = {"tools", "config"}
  /\ snaps \in InitialSnaps
  /\ incidents = {}
  /\ pc = [p \in Procs |-> "idle"]
  /\ cmd = [p \in Procs |-> NoCommand]
  /\ restart = [p \in Procs |-> FALSE]
  /\ target = [p \in Procs |-> NoSnap]
  /\ todo = [p \in Procs |-> {}]
  /\ status = [p \in Procs |-> "ok"]

-----------------------------------------------------------------------------
(* Control of one process. *)
Goto(p, l) ==
  /\ pc' = [pc EXCEPT ![p] = l]
  /\ UNCHANGED <<cmd, restart, target, todo, status>>

\* The process is gone, with what it remembered.
Exit(p, s) ==
  /\ pc' = [pc EXCEPT ![p] = "idle"]
  /\ cmd' = [cmd EXCEPT ![p] = NoCommand]
  /\ restart' = [restart EXCEPT ![p] = FALSE]
  /\ target' = [target EXCEPT ![p] = NoSnap]
  /\ todo' = [todo EXCEPT ![p] = {}]
  /\ status' = [status EXCEPT ![p] = s]

\* mutant: the deferred boot is registered only after the work is done
ReturnUnlessError(p, s) ==
  IF restart[p] /\ s = "ok"
  THEN /\ pc' = [pc EXCEPT ![p] = "defer"]
       /\ status' = [status EXCEPT ![p] = s]
       /\ UNCHANGED <<cmd, restart, target, todo>>
  ELSE Exit(p, s)

\* run() returns, or panics, and the deferred function of line 79 runs.
Return(p, s) ==
  IF restart[p]
  THEN /\ pc' = [pc EXCEPT ![p] = "defer"]
       /\ status' = [status EXCEPT ![p] = s]
       /\ UNCHANGED <<cmd, restart, target, todo>>
  ELSE Exit(p, s)

\* mutant: a target without a config-lm is accepted
LoadableDefined == rootfs # Gone

\* LoadLMContainer: the container is defined and its config-lm can be read.
Loadable == rootfs # Gone /\ "config" \in lmFiles

Conflict(f) ==
  \/ f \cap {"restore", "reset"} # {} /\ f \cap {"destroy", "list"} # {}
  \/ {"restore", "reset"} \subseteq f
  \/ {"list", "destroy"} \subseteq f

-----------------------------------------------------------------------------
(* lmsdk-target snapshot is started; State() decides whether to stop. *)
Load(p, c) ==
  /\ pc[p] = "idle"
  /\ Loadable
  /\ LET stop == lxc # "STOPPED" /\ c.flags # {"list"}
     IN  /\ restart' = [restart EXCEPT ![p] = stop]
         /\ pc' = [pc EXCEPT ![p] = IF stop THEN "stop" ELSE "work"]
  /\ cmd' = [cmd EXCEPT ![p] = c]
  /\ UNCHANGED <<target, todo, status>>
  /\ UNCHANGED targetVars

LoadFails(p) ==
  /\ pc[p] = "idle"
  /\ ~Loadable
  /\ Exit(p, "err")
  /\ UNCHANGED targetVars

\* The error of Stop is ignored.
Stop(p) ==
  /\ pc[p] = "stop"
  /\ lxc' \in {lxc, "STOPPED"}
  /\ Goto(p, "work")
  /\ UNCHANGED <<rootfs, lmFiles, snaps, clock, edits, incidents>>

\* os.Exit does not run the deferred function: no boot.
UsageExit(p) ==
  /\ pc[p] = "work"
  /\ Conflict(cmd[p].flags)
  /\ Exit(p, "err")
  /\ incidents' = IF restart[p] THEN incidents \cup {"usage"} ELSE incidents
  /\ UNCHANGED <<lxc, rootfs, lmFiles, snaps, clock, edits>>

\* -N is not looked at; lxc picks the name and the second the copy ends at.
CreateSnapshot(p) ==
  /\ pc[p] = "work" /\ cmd[p].flags = {}
  /\ lxc = "STOPPED" /\ rootfs # Gone
  /\ clock + CopyTime <= MaxClock
  /\ clock' = clock + CopyTime
  /\ \E n \in SnapNames \ {s.name : s \in snaps} :
       snaps' = snaps \cup {[name |-> n, time |-> clock', root |-> rootfs]}
  /\ Return(p, "ok")
  /\ UNCHANGED <<lxc, rootfs, lmFiles, edits, incidents>>

ListSnapshots(p) ==
  /\ pc[p] = "work" /\ cmd[p].flags = {"list"}
  /\ Return(p, "ok")
  /\ UNCHANGED targetVars

Newest(S) == {s \in S : \A t \in S : t.time <= s.time}
Oldest(S) == {s \in S : \A t \in S : t.time >= s.time}

\* mutant: reset looks for the newest snapshot, as restore does
CandidatesNewest(c) ==
  IF c.name # NoName THEN {s \in snaps : s.name = c.name} ELSE Newest(snaps)

\* mutant: without a name the oldest snapshot is meant, as for reset
CandidatesOldest(c) ==
  IF c.name # NoName THEN {s \in snaps : s.name = c.name} ELSE Oldest(snaps)

\* What the list offers: the entry of that name, or what findSnapshot returns
\* for some order of the list.
Candidates(c) ==
  IF c.name # NoName THEN {s \in snaps : s.name = c.name}
  ELSE IF "reset" \in c.flags THEN Oldest(snaps)
  ELSE Newest(snaps)

\* Snapshots() and the choice; the list is read once.
Select(p, s) ==
  /\ pc[p] = "work"
  /\ cmd[p].flags \in {{"restore"}, {"reset"}, {"destroy"}}
  /\ s \in Candidates(cmd[p])
  /\ target' = [target EXCEPT ![p] = s]
  /\ todo' = [todo EXCEPT ![p] = IF cmd[p].flags = {"reset"} THEN snaps \ {s} ELSE {}]
  /\ pc' = [pc EXCEPT ![p] =
              IF cmd[p].flags = {"destroy"} THEN "destroy" ELSE "restore"]
  /\ UNCHANGED <<cmd, restart, status>>
  /\ UNCHANGED targetVars

\* "No snapshot available" is not an error; an empty list without a name is an
\* index panic, and the entry destroy does not find a nil dereference.
SelectNothing(p) ==
  /\ pc[p] = "work"
  /\ cmd[p].flags \in {{"restore"}, {"reset"}, {"destroy"}}
  /\ Candidates(cmd[p]) = {}
  /\ Return(p, IF cmd[p].name # NoName /\ cmd[p].flags # {"destroy"}
               THEN "ok" ELSE "err")
  /\ UNCHANGED targetVars

\* A call to lxc, or findSnapshot, fails and changes nothing.
Fails(p) ==
  /\ \/ pc[p] \in {"restore", "destroy"}
     \/ pc[p] = "work" /\ ~Conflict(cmd[p].flags)
  /\ Return(p, "err")
  /\ UNCHANGED targetVars

\* mutant: the LM specific files are not recreated
RestoreSnapshotOnly(p) ==
  /\ pc[p] = "restore"
  /\ lxc = "STOPPED" /\ rootfs # Gone
  /\ \E s \in snaps : s.name = target[p].name /\ rootfs' = s.root
  /\ lmFiles' = {}
  /\ Goto(p, "discard")
  /\ UNCHANGED <<lxc, snaps, clock, edits, incidents>>

\* lxc destroys the container and copies the snapshot of that name: the LM
\* specific files are gone, the one another process has open included.
RestoreSnapshot(p) ==
  /\ pc[p] = "restore"
  /\ lxc = "STOPPED" /\ rootfs # Gone
  /\ \E s \in snaps : s.name = target[p].name /\ rootfs' = s.root
  /\ lmFiles' = {}
  /\ pc' = [q \in Procs |-> IF q = p THEN "tools"
                          ELSE IF pc[q] = "writeLm" THEN "writeGone" ELSE pc[q]]
  /\ UNCHANGED <<lxc, snaps, clock, edits, incidents>>
  /\ UNCHANGED <<cmd, restart, target, todo, status>>

\* The container is destroyed and the copy fails.
RestoreLoses(p) ==
  /\ "lost" \in Faults
  /\ pc[p] = "restore"
  /\ lxc = "STOPPED" /\ rootfs # Gone
  /\ rootfs' = Gone /\ lmFiles' = {}
  /\ incidents' = incidents \cup {"lost"}
  /\ Return(p, "err")
  /\ UNCHANGED <<lxc, snaps, clock, edits>>

-----------------------------------------------------------------------------
(* FinalizeContainer of create.go, as the process p runs it.               *)
(* A link that cannot be made is not an error.  config-lm is truncated by   *)
(* its open, "partial", and complete with the write, unless a restore has   *)
(* taken the file away in between, and the write goes to a deleted one.     *)
FixTools(p) ==
  /\ pc[p] = "tools"
  /\ rootfs # Gone
  /\ lmFiles' \in {lmFiles, lmFiles \cup {"tools"}}
  /\ Goto(p, "openLm")
  /\ UNCHANGED <<lxc, rootfs, snaps, clock, edits, incidents>>

\* mutant: the new file is written beside the old one and never renamed
OpenLmBeside(p) ==
  /\ pc[p] = "openLm"
  /\ rootfs # Gone
  /\ lmFiles' = lmFiles \cup {"config-lm.new"}
  /\ Goto(p, "writeLm")
  /\ UNCHANGED <<lxc, rootfs, snaps, clock, edits, incidents>>

OpenLm(p) ==
  /\ pc[p] = "openLm"
  /\ rootfs # Gone
  /\ lmFiles' = (lmFiles \ {"config"}) \cup {"partial"}
  /\ Goto(p, "writeLm")
  /\ UNCHANGED <<lxc, rootfs, snaps, clock, edits, incidents>>

WriteLm(p) ==
  /\ pc[p] \in {"writeLm", "writeGone"}
  /\ lmFiles' = IF pc[p] = "writeLm" /\ "partial" \in lmFiles
                THEN (lmFiles \ {"partial"}) \cup {"config"} ELSE lmFiles
  /\ Goto(p, "discard")
  /\ UNCHANGED <<lxc, rootfs, snaps, clock, edits, incidents>>

FinalizeFails(p) ==
  /\ rootfs = Gone \/ "lmFailed" \in Faults
  /\ pc[p] \in {"tools", "openLm", "writeLm", "writeGone"}
  /\ incidents' = incidents \cup {"lmFailed"}
  /\ Return(p, "err")
  /\ UNCHANGED <<lxc, rootfs, lmFiles, snaps, clock, edits>>

-----------------------------------------------------------------------------
\* mutant: the loop compares indices of two different lists
DiscardTarget(p) ==
  /\ pc[p] = "discard"
  /\ \E s \in todo[p] \cup {target[p]} :
       /\ snaps' \in {snaps, {t \in snaps : t.name # s.name}}
       /\ todo' = [todo EXCEPT ![p] = @ \ {s}]
  /\ UNCHANGED <<pc, cmd, restart, target, status>>
  /\ UNCHANGED <<lxc, rootfs, lmFiles, clock, edits, incidents>>

\* reset removes the other entries of its list, by name; a failure to remove
\* one is not critical.
Discard(p) ==
  /\ pc[p] = "discard"
  /\ \E s \in todo[p] :
       /\ snaps' \in {snaps, {t \in snaps : t.name # s.name}}
       /\ todo' = [todo EXCEPT ![p] = @ \ {s}]
  /\ UNCHANGED <<pc, cmd, restart, target, status>>
  /\ UNCHANGED <<lxc, rootfs, lmFiles, clock, edits, incidents>>

Discarded(p) ==
  /\ pc[p] = "discard"
  /\ todo[p] = {}
  /\ Return(p, "ok")
  /\ UNCHANGED targetVars

DestroySnapshot(p) ==
  /\ pc[p] = "destroy"
  /\ \E s \in snaps : s.name = target[p].name /\ snaps' = snaps \ {s}
  /\ Return(p, "ok")
  /\ UNCHANGED <<lxc, rootfs, lmFiles, clock, edits, incidents>>

\* BootContainerSync in the deferred function; it may also return nil with
\* the container still not running, after five seconds.
Deferred(p) ==
  /\ pc[p] = "defer"
  /\ \/ rootfs # Gone /\ lxc' = "RUNNING" /\ UNCHANGED incidents
     \/ lxc = "RUNNING" /\ UNCHANGED <<lxc, incidents>>
     \/ /\ lxc = "STOPPED" /\ UNCHANGED lxc
        /\ rootfs = Gone \/ "bootFailed" \in Faults
        /\ incidents' = incidents \cup {"bootFailed"}
  /\ Exit(p, status[p])
  /\ UNCHANGED <<rootfs, lmFiles, snaps, clock, edits>>

-----------------------------------------------------------------------------
(* The environment. *)

\* The process is killed: no deferred function runs.
Kill(p) ==
  /\ "killed" \in Faults
  /\ pc[p] # "idle"
  /\ Exit(p, "err")
  /\ incidents' = incidents \cup {"killed"}
  /\ UNCHANGED <<lxc, rootfs, lmFiles, snaps, clock, edits>>

\* Another command boots the target ...
OtherBoot ==
  /\ lxc = "STOPPED" /\ Loadable
  /\ lxc' = "RUNNING"
  /\ UNCHANGED <<rootfs, lmFiles, snaps, clock, edits, incidents>>
  /\ UNCHANGED procVars

\* ... and what it runs there changes its file system.  The properties below
\* do not look at contents, and Environment leaves this out: the modules that
\* compare contents add it (RpmBuild).
OtherEdit ==
  /\ lxc = "RUNNING" /\ rootfs # Gone /\ edits < MaxEdits
  /\ edits' = edits + 1 /\ rootfs' = edits'
  /\ UNCHANGED <<lxc, lmFiles, snaps, clock, incidents>>
  /\ UNCHANGED procVars

Tick ==
  /\ clock < MaxClock
  /\ clock' = clock + 1
  /\ UNCHANGED <<lxc, rootfs, lmFiles, snaps, edits, incidents>>
  /\ UNCHANGED procVars

\* What a process does by itself once it is started.
Step(p) ==
  \/ Stop(p) \/ UsageExit(p) \/ CreateSnapshot(p) \/ ListSnapshots(p)
  \/ (\E s \in snaps : Select(p, s)) \/ SelectNothing(p) \/ Fails(p)
  \/ RestoreSnapshot(p) \/ RestoreLoses(p)
  \/ FixTools(p) \/ OpenLm(p) \/ WriteLm(p) \/ FinalizeFails(p)
  \/ Discard(p) \/ Discarded(p) \/ DestroySnapshot(p) \/ Deferred(p)

Environment == OtherBoot \/ Tick

Next ==
  \/ \E p \in Procs :
       \/ \E c \in Commands : Load(p, c)
       \/ LoadFails(p)
       \/ Step(p)
       \/ Kill(p)
  \/ Environment

Spec == Init /\ [][Next]_vars

\* A process that was started keeps running; nobody is obliged to start one,
\* to kill one, to boot the target or to edit it.
FairSpec == Spec /\ \A p \in Procs : WF_vars(Step(p))

-----------------------------------------------------------------------------
(* Properties. *)

TypeOK ==
  /\ lxc \in {"STOPPED", "RUNNING"}
  /\ rootfs \in Nat \cup {Gone}
  /\ lmFiles \subseteq {"tools", "config", "partial"}
  /\ snaps \subseteq Snapshot
  /\ clock \in Nat /\ edits \in Nat
  /\ incidents \subseteq Incidents
  /\ pc \in [Procs -> Locations]
  /\ cmd \in [Procs -> CommandLines]
  /\ restart \in [Procs -> BOOLEAN]
  /\ target \in [Procs -> Snapshot \cup {NoSnap}]
  /\ todo \in [Procs -> SUBSET Snapshot]
  /\ status \in [Procs -> {"ok", "err"}]

\* "after a snapshot was loaded all LM specific files are gone, recreate them"
\* (snapshot.go:131): whatever restores run at once, config-lm is missing only
\* while a process is about to write it, unless a process was killed, lxc lost
\* the container or a write failed.
ConfigLmRecreated ==
  \/ "config" \in lmFiles
  \/ \E p \in Procs : pc[p] \in {"tools", "openLm", "writeLm"}
  \/ incidents \cap {"killed", "lost", "lmFailed"} # {}

\* ConfigLmRecreated, made inductive: a truncated file has its writer.
ConfigLmInv ==
  \/ "config" \in lmFiles
  \/ \E p \in Procs : pc[p] \in {"tools", "openLm"}
  \/ "partial" \in lmFiles /\ \E p \in Procs : pc[p] = "writeLm"
  \/ incidents \cap {"killed", "lost", "lmFailed"} # {}

\* A target that lost its config-lm when no command was running on it stays
\* lost: every command starts with LoadLMContainer (snapshot.go:63), the
\* restore that would recreate the file included.
LostConfigIsFinal ==
  [][("config" \notin lmFiles /\ \A p \in Procs : pc[p] = "idle")
       => ("config" \notin lmFiles' /\ \A p \in Procs : pc'[p] = "idle")]_vars

\* A command that stopped the container has it running again in the end, also
\* when it fails (the deferred function of snapshot.go:79-86), unless it was
\* killed, took the usage exit of line 91 or 154, or the boot failed.
ContainerRestarted ==
  \A p \in Procs :
    restart[p] ~> \/ lxc = "RUNNING"
                  \/ incidents \cap {"killed", "usage", "bootFailed"} # {}

\* "Reset container to first taken snapshot, discarding all others"
\* (snapshot.go:49): as long as snapshots are only taken and reset, without -N,
\* none of the oldest is ever removed, whatever resets run at once.
OldestSurvives == [][Oldest(snaps) \subseteq snaps']_vars

\* What makes it so: timestamps tell snapshots apart, a reset's target is the
\* oldest snapshot from its choice on, and no name it has yet to remove is the
\* target's, even if a newer snapshot has got that name in between.
OldestInv ==
  /\ \A s \in snaps : s.time <= clock
  /\ \A s, t \in snaps : (s.name = t.name \/ s.time = t.time) => s = t
  /\ \A p \in Procs :
       /\ pc[p] # "destroy"
       /\ cmd[p].flags \in {{}, {"reset"}} /\ cmd[p].name = NoName
       /\ target[p] # NoSnap => target[p] \in Oldest(snaps)
       /\ \A s \in todo[p] : target[p] # NoSnap /\ s.name # target[p].name
=============================================================================
