--------------------------- MODULE RpmBuildProofs ---------------------------
(* A build restores and destroys the snapshot it took, and keeps what        *)
(* CleanBuild promises, if it is the only one that takes and removes         *)
(* snapshots of the target, with any number of others who list and restore.  *)
EXTENDS RpmBuild, SnapshotsProofs

\* One builder, other users who only list and restore, and copies that take a
\* second or more, so that no two snapshots have the same time.
Alone ==
  /\ \A b, c \in Builders : b = c
  /\ \A c \in Commands : c.flags \in {{"list"}, {"restore"}}
  /\ CopyTime > 0

-----------------------------------------------------------------------------
(* Types. *)

LEMMA BTypeInit == BInit => BTypeOK
BY TypeInit DEF BInit, BTypeOK, BuilderLocations

\* The history of a child's step.
LEMMA ChildHistory ==
  ASSUME BTypeOK, TypeOK', NEW b \in Builders, ChildStep(b)
  PROVE  /\ mine' \in [Builders -> Snapshot \cup {NoSnap}]
         /\ restored' \in [Builders -> BOOLEAN]
<1>1. CASE CreateSnapshot(b)
  <2>1. PICK n \in SnapNames \ {s.name : s \in snaps} :
          snaps' = snaps \cup {[name |-> n, time |-> clock', root |-> rootfs]}
    BY <1>1 DEF CreateSnapshot
  <2> DEFINE new == [name |-> n, time |-> clock', root |-> rootfs]
  <2>2. new \in snaps' /\ new \notin snaps
    <3>1. new.name = n /\ \A s \in snaps : s.name # n
      OBVIOUS
    <3> QED
      BY <2>1, <3>1
  <2>3. (CHOOSE s \in snaps' : s \notin snaps) \in Snapshot
    BY <2>2 DEF TypeOK
  <2> QED
    BY <1>1, <2>3 DEF ChildStep, BTypeOK
<1>2. CASE ~CreateSnapshot(b)
  BY <1>2 DEF ChildStep, BTypeOK
<1> QED
  BY <1>1, <1>2

LEMMA BTypeNext == BTypeOK /\ [BNext]_bvars => BTypeOK'
<1> SUFFICES ASSUME BTypeOK, [BNext]_bvars PROVE BTypeOK'
  OBVIOUS
<1> USE BuildersAssumption
<1>1. TypeOK
  BY DEF BTypeOK
<1>2. ASSUME UNCHANGED vars PROVE TypeOK'
  BY <1>1, <1>2 DEF vars, TypeOK
<1>3. ASSUME NEW b \in Builders, End(b) \/ Leave(b)
      PROVE  /\ bpc' \in [Builders -> BuilderLocations]
             /\ clean' \in [Builders -> BOOLEAN]
             /\ mine' = mine /\ restored' = restored
  BY <1>3 DEF End, Leave, BGoto, BTypeOK, BuilderLocations
<1>17. ASSUME NEW b \in Builders, NEW child \in Troubles, Report(b, child)
       PROVE  told' \in [Builders -> SUBSET Troubles]
  BY <1>17 DEF Report, BTypeOK
<1>4. ASSUME NEW b \in Builders, NEW n \in BOOLEAN, Begin(b, n) PROVE BTypeOK'
  BY <1>2, <1>4 DEF Begin, BGoto, BTypeOK, BuilderLocations
<1>5. ASSUME NEW b \in Builders, NEW from, NEW wait \in BuilderLocations,
             NEW f \in SUBSET Flags, Fork(b, from, wait, f)
      PROVE  BTypeOK'
  <2>1. [flags |-> f, name |-> NoName] \in CommandLines
    BY DEF CommandLines
  <2>2. TypeOK'
    BY <1>1, <1>5, <2>1, LoadType, StepType DEF Fork
  <2> QED
    BY <1>5, <2>2 DEF Fork, BGoto, BTypeOK
<1>6. ASSUME NEW b \in Builders,
             SnapshotTaken(b) \/ BuildEnds(b) \/ RestoreWait(b) \/ DestroyWait(b)
      PROVE  BTypeOK'
  <2>1. TypeOK'
    BY <1>2, <1>6 DEF SnapshotTaken, BuildEnds, RestoreWait, DestroyWait
  <2>2. \/ End(b) \/ Leave(b)
        \/ \E l \in BuilderLocations : BGoto(b, l) /\ UNCHANGED <<clean, mine, restored>>
    BY <1>6 DEF SnapshotTaken, BuildEnds, RestoreWait, DestroyWait, BuilderLocations
  <2>3. told' \in [Builders -> SUBSET Troubles]
    BY <1>6, <1>17 DEF SnapshotTaken, BuildEnds, Leave, RestoreWait, DestroyWait,
       Troubles, BTypeOK
  <2> QED
    BY <1>3, <2>1, <2>2, <2>3 DEF BGoto, BTypeOK
<1>7. ASSUME NEW b \in Builders, Boot(b) PROVE BTypeOK'
  BY <1>1, <1>7 DEF Boot, BGoto, BTypeOK, BuilderLocations, TypeOK, procVars
<1>8. ASSUME OtherEdit PROVE TypeOK'
  BY <1>1, <1>8 DEF OtherEdit, TypeOK, procVars
<1>9. ASSUME NEW b \in Builders, Edit(b) PROVE BTypeOK'
  BY <1>8, <1>9 DEF Edit, BTypeOK, buildVars
<1>10. ASSUME NEW b \in Builders, ChildStep(b) PROVE BTypeOK'
  <2>1. TypeOK'
    BY <1>1, <1>10, StepType DEF ChildStep
  <2> QED
    BY <1>10, <2>1, ChildHistory DEF ChildStep, BTypeOK
<1>11. ASSUME NEW b \in Builders, KillBuilder(b) PROVE BTypeOK'
  <2>1. TypeOK'
    BY <1>1, <1>11 DEF KillBuilder, TypeOK, procVars, Incidents
  <2>2. told' \in [Builders -> SUBSET Troubles]
    BY <1>11 DEF KillBuilder, BTypeOK, Troubles
  <2> QED
    BY <1>3, <1>11, <2>1, <2>2 DEF KillBuilder, BTypeOK
<1>12. ASSUME NEW b \in Builders, KillChild(b) PROVE BTypeOK'
  BY <1>1, <1>12, StepType DEF KillChild, BTypeOK, buildVars
<1>13. ASSUME NEW u \in Procs, User(u) PROVE BTypeOK'
  <2>1. TypeOK'
    BY <1>1, <1>13, LoadType, StepType, CommandsAssumption DEF User
  <2> QED
    BY <1>13, <2>1 DEF User, BTypeOK, buildVars
<1>14. CASE (Environment \/ OtherEdit) /\ UNCHANGED buildVars
  <2>1. Environment => TypeOK'
    BY <1>1, TypeNext DEF Next
  <2> QED
    BY <1>8, <1>14, <2>1 DEF BTypeOK, buildVars
<1>15. CASE UNCHANGED bvars
  BY <1>2, <1>15 DEF bvars, buildVars, BTypeOK
<1>16. /\ {"snapshotWait", "restoreWait", "destroyWait"} \subseteq BuilderLocations
       /\ {{}, {"restore"}, {"destroy"}} \subseteq SUBSET Flags
  BY DEF BuilderLocations, Flags
<1> QED
  BY <1>4, <1>5, <1>6, <1>7, <1>9, <1>10, <1>11, <1>12, <1>13, <1>14, <1>15, <1>16
     DEF BNext, Builder

\* The target, every snapshot command and every build keep their types, for any
\* number of builds and users and any command lines.
THEOREM BTypeCorrect == BSpec => []BTypeOK
BY BTypeInit, BTypeNext, PTL DEF BSpec

-----------------------------------------------------------------------------
(* The build's own snapshot. *)

LEMMA BuildInit == Alone /\ BInit => BuildInv
<1> SUFFICES ASSUME Alone, BInit PROVE BuildInv
  OBVIOUS
<1> USE TimeAssumption, BuildersAssumption
<1>1. \A s \in snaps : s.time = 0 /\ s.root = 0
  BY InitialAssumption DEF BInit, Init
<1>2. ShotsInv
  BY <1>1, InitialAssumption DEF BInit, Init, ShotsInv
<1>3. ASSUME NEW p \in Procs PROVE ChildInv(p)
  BY DEF BInit, Init, ChildInv, Restoring, NoCommand
<1>4. ASSUME NEW b \in Builders PROVE ForkInv(b) /\ OwnInv(b) /\ AheadInv(b)
  BY DEF BInit, Init, ForkInv, OwnInv, Needed, AheadInv, NoCommand
<1> QED
  BY <1>2, <1>3, <1>4 DEF BuildInv

\* The process p goes on with its command, or ends it, and does not choose a
\* snapshot; a restore may send other writers astray.
Moves(p) ==
  /\ \A q \in Procs \ {p} :
       /\ cmd'[q] = cmd[q] /\ target'[q] = target[q] /\ todo'[q] = todo[q]
       /\ status'[q] = status[q]
       /\ pc'[q] = pc[q] \/ (pc[q] = "writeLm" /\ pc'[q] = "writeGone")
  /\ \/ pc'[p] = "idle" /\ cmd'[p] = NoCommand /\ target'[p] = NoSnap /\ todo'[p] = {}
     \/ /\ cmd'[p] = cmd[p] /\ target'[p] = target[p] /\ todo'[p] = todo[p]
        /\ pc[p] # "idle"
        /\ \/ pc[p] = "stop" /\ pc'[p] = "work"
           \/ pc[p] \in Restoring /\ pc'[p] \in Restoring \ {"restore"}
           \/ pc'[p] = "defer"

\* It does not end it well, but after the deferred boot.
Fruitless(p) ==
  (status'[p] = "ok" /\ pc'[p] \in {"defer", "idle"})
    => \/ pc[p] = "defer" /\ status[p] = "ok"
       \/ pc[p] # "idle" /\ cmd[p].flags # {}

\* Where the command of p goes.
LEMMA ControlOf ==
  ASSUME BTypeOK, NEW p \in Procs, NEW l, NEW s,
         Goto(p, l) \/ Exit(p, s) \/ Return(p, s)
  PROVE  /\ \A q \in Procs \ {p} :
              /\ cmd'[q] = cmd[q] /\ target'[q] = target[q] /\ todo'[q] = todo[q]
              /\ status'[q] = status[q] /\ pc'[q] = pc[q]
         /\ Goto(p, l) => /\ cmd' = cmd /\ target' = target /\ todo' = todo
                          /\ status' = status /\ pc'[p] = l
         /\ (Exit(p, s) \/ Return(p, s)) =>
              /\ status'[p] = s
              /\ \/ /\ pc'[p] = "idle" /\ cmd'[p] = NoCommand
                    /\ target'[p] = NoSnap /\ todo'[p] = {}
                 \/ /\ Return(p, s) /\ pc'[p] = "defer"
                    /\ cmd' = cmd /\ target' = target /\ todo' = todo
BY DEF BTypeOK, TypeOK, Goto, Exit, Return

\* Most steps of a command are such moves.
LEMMA StepMoves ==
  ASSUME BTypeOK, BuildInv, NEW p \in Procs,
         \/ LoadFails(p) \/ Stop(p) \/ UsageExit(p) \/ ListSnapshots(p)
         \/ SelectNothing(p) \/ Fails(p) \/ RestoreSnapshot(p) \/ RestoreLoses(p)
         \/ FixTools(p) \/ OpenLm(p) \/ WriteLm(p) \/ FinalizeFails(p)
         \/ Discarded(p) \/ Deferred(p) \/ Kill(p)
  PROVE  Moves(p) /\ Fruitless(p) /\ snaps' = snaps /\ ShotsInv'
<1>1. /\ snaps' = snaps /\ clock' = clock /\ edits' = edits
      /\ rootfs' \in {rootfs, Gone} \cup {s.root : s \in snaps}
  BY DEF LoadFails, Stop, UsageExit, ListSnapshots, SelectNothing, Fails,
     RestoreSnapshot, RestoreLoses, FixTools, OpenLm, WriteLm, FinalizeFails,
     Discarded, Deferred, Kill, targetVars
<1>2. ASSUME LoadFails(p) \/ UsageExit(p) \/ Kill(p) PROVE Moves(p) /\ Fruitless(p)
  <2>1. Exit(p, "err")
    BY <1>2 DEF LoadFails, UsageExit, Kill
  <2> QED
    BY <2>1, ControlOf DEF Moves, Fruitless, Exit, BTypeOK, TypeOK
<1>3. ASSUME Deferred(p) PROVE Moves(p) /\ Fruitless(p)
  <2>1. Exit(p, status[p]) /\ pc[p] = "defer"
    BY <1>3 DEF Deferred
  <2> QED
    BY <2>1, ControlOf DEF Moves, Fruitless, Exit, BTypeOK, TypeOK
<1>4. ASSUME Stop(p) PROVE Moves(p) /\ Fruitless(p)
  <2>1. Goto(p, "work") /\ pc[p] = "stop"
    BY <1>4 DEF Stop
  <2> QED
    BY <2>1, ControlOf DEF Moves, Fruitless
<1>5. ASSUME NEW s, Return(p, s), pc[p] # "idle" PROVE Moves(p)
  BY <1>5, ControlOf DEF Moves
<1>6. ASSUME Fails(p) \/ RestoreLoses(p) \/ FinalizeFails(p) PROVE Moves(p) /\ Fruitless(p)
  <2>1. Return(p, "err") /\ pc[p] # "idle"
    BY <1>6 DEF Fails, RestoreLoses, FinalizeFails
  <2>2. status'[p] = "err"
    BY <2>1, ControlOf
  <2> QED
    BY <1>5, <2>1, <2>2 DEF Fruitless
<1>7. ASSUME ListSnapshots(p) \/ SelectNothing(p) \/ Discarded(p)
      PROVE  Moves(p) /\ Fruitless(p)
  <2>1. (\E s \in {"ok", "err"} : Return(p, s)) /\ pc[p] # "idle"
    BY <1>7 DEF ListSnapshots, SelectNothing, Discarded
  <2>2. cmd[p].flags # {}
    BY <1>7 DEF ListSnapshots, SelectNothing, Discarded, BuildInv, ChildInv, Restoring
  <2> QED
    BY <1>5, <2>1, <2>2 DEF Fruitless
<1>8. ASSUME FixTools(p) \/ OpenLm(p) \/ WriteLm(p) PROVE Moves(p) /\ Fruitless(p)
  <2>1. pc[p] \in Restoring /\ \E l \in Restoring \ {"restore"} : Goto(p, l)
    BY <1>8 DEF FixTools, OpenLm, WriteLm, Restoring
  <2> QED
    BY <2>1, ControlOf DEF Moves, Fruitless, Restoring
<1>9. ASSUME RestoreSnapshot(p) PROVE Moves(p) /\ Fruitless(p)
  <2>1. /\ pc[p] = "restore" /\ pc'[p] = "tools"
        /\ \A q \in Procs \ {p} :
             pc'[q] = pc[q] \/ (pc[q] = "writeLm" /\ pc'[q] = "writeGone")
        /\ UNCHANGED <<cmd, restart, target, todo, status>>
    BY <1>9 DEF RestoreSnapshot
  <2> QED
    BY <2>1 DEF Moves, Fruitless, Restoring
<1>10. ShotsInv'
  BY <1>1 DEF BuildInv, ShotsInv, BTypeOK, TypeOK, Snapshot
<1> QED
  BY <1>1, <1>2, <1>3, <1>4, <1>6, <1>7, <1>8, <1>9, <1>10

\* ... and keep the invariant, whichever of its history is told.
LEMMA MovesKeep ==
  ASSUME Alone, BTypeOK, BuildInv, NEW p \in Procs, Moves(p), Fruitless(p),
         snaps' = snaps, ShotsInv', UNCHANGED <<bpc, clean, mine>>,
         \/ restored' = restored
         \/ p \in Builders /\ pc[p] = "restore" /\ pc'[p] = "tools"
  PROVE  BuildInv'
<1> USE BuildersAssumption
<1>1. ASSUME NEW q \in Procs PROVE ChildInv(q)'
  <2>1. ChildInv(q)
    BY DEF BuildInv
  <2>2. CASE q # p
    BY <2>1, <2>2 DEF Moves, ChildInv, Restoring
  <2>3. CASE q = p
    BY <2>1, <2>3 DEF Moves, ChildInv, Restoring, NoCommand
  <2> QED
    BY <2>2, <2>3
<1>2. ASSUME NEW b \in Builders PROVE ForkInv(b)' /\ OwnInv(b)' /\ AheadInv(b)'
  <2>1. ForkInv(b) /\ OwnInv(b) /\ AheadInv(b) /\ ChildInv(b)
    BY DEF BuildInv
  <2>2. CASE b # p
    <3>1. restored' = restored
      BY <2>2 DEF Alone
    <3>2. b \in Procs \ {p}
      BY <2>2
    <3>3. /\ cmd'[b] = cmd[b] /\ target'[b] = target[b] /\ status'[b] = status[b]
          /\ pc'[b] = pc[b] \/ (pc[b] = "writeLm" /\ pc'[b] = "writeGone")
      BY <3>2 DEF Moves
    <3>4. Needed(b)' => Needed(b)
      BY <3>3 DEF Needed
    <3> QED
      BY <2>1, <3>1, <3>3, <3>4 DEF ForkInv, OwnInv, AheadInv
  <2>3. CASE b = p
    <3>1. ForkInv(b)'
      BY <2>1, <2>3 DEF Moves, ForkInv, Restoring, NoCommand
    <3>2. Needed(b)' => Needed(b)
      BY <2>1, <2>3 DEF Moves, Fruitless, Needed, ForkInv, Restoring, NoCommand
    <3>3. target'[b] # NoSnap => target'[b] = target[b]
      BY <2>3 DEF Moves
    <3>4. OwnInv(b)'
      BY <2>1, <3>2, <3>3 DEF OwnInv
    <3>5. AheadInv(b)'
      BY <2>1, <2>3 DEF Moves, ForkInv, ChildInv, AheadInv, Restoring, NoCommand
    <3> QED
      BY <3>1, <3>4, <3>5
  <2> QED
    BY <2>2, <2>3
<1> QED
  BY <1>1, <1>2 DEF BuildInv

\* A command is started, by a user or by the build.
LEMMA LoadKeeps ==
  ASSUME Alone, BTypeOK, BuildInv, NEW p \in Procs, NEW c \in CommandLines, Load(p, c),
         \/ p \notin Builders /\ c.flags \in {{"list"}, {"restore"}} /\ UNCHANGED buildVars
         \/ /\ p \in Builders /\ c.name = NoName
            /\ UNCHANGED <<clean, mine, restored>>
            /\ \A b \in Builders \ {p} : bpc'[b] = bpc[b]
            /\ \/ bpc[p] = "snapshot" /\ bpc'[p] = "snapshotWait" /\ c.flags = {}
               \/ bpc[p] = "restore" /\ bpc'[p] = "restoreWait" /\ c.flags = {"restore"}
               \/ bpc[p] = "destroy" /\ bpc'[p] = "destroyWait" /\ c.flags = {"destroy"}
  PROVE  BuildInv'
<1> USE BuildersAssumption
<1>1. /\ pc[p] = "idle" /\ pc'[p] \in {"stop", "work"} /\ cmd'[p] = c
      /\ \A q \in Procs \ {p} : pc'[q] = pc[q] /\ cmd'[q] = cmd[q]
      /\ UNCHANGED <<target, todo, status>> /\ UNCHANGED targetVars
  BY DEF Load, BTypeOK, TypeOK
<1>2. ShotsInv'
  BY <1>1 DEF BuildInv, ShotsInv, targetVars
<1>3. ASSUME NEW q \in Procs PROVE ChildInv(q)'
  BY <1>1 DEF BuildInv, ChildInv, Restoring
<1>4. ASSUME NEW b \in Builders PROVE ForkInv(b)' /\ OwnInv(b)' /\ AheadInv(b)'
  <2>1. ForkInv(b) /\ OwnInv(b) /\ AheadInv(b) /\ ChildInv(b)
    BY DEF BuildInv
  <2>2. CASE b # p
    <3>1. b \in Procs \ {p}
      BY <2>2
    <3>2. bpc'[b] = bpc[b] /\ UNCHANGED <<clean, mine, restored>>
      BY <2>2 DEF buildVars
    <3> QED
      BY <1>1, <2>1, <3>1, <3>2 DEF ForkInv, OwnInv, Needed, AheadInv, targetVars
  <2>3. CASE b = p
    <3>1. ForkInv(b)' /\ AheadInv(b)'
      BY <1>1, <2>1, <2>3 DEF ForkInv, AheadInv
    <3>2. Needed(b)' => Needed(b)
      BY <1>1, <2>1, <2>3 DEF ForkInv, Needed
    <3>3. OwnInv(b)'
      BY <1>1, <2>1, <2>3, <3>2 DEF OwnInv, targetVars
    <3> QED
      BY <3>1, <3>3
  <2> QED
    BY <2>2, <2>3
<1> QED
  BY <1>2, <1>3, <1>4 DEF BuildInv

\* The newest snapshot is the one that the build took.
LEMMA SelectKeeps ==
  ASSUME Alone, BTypeOK, BuildInv, NEW p \in Procs, NEW s \in snaps, Select(p, s),
         UNCHANGED buildVars
  PROVE  BuildInv'
<1> USE BuildersAssumption
<1>1. /\ pc[p] = "work" /\ cmd[p].flags \in {{"restore"}, {"reset"}, {"destroy"}}
      /\ s \in Candidates(cmd[p])
      /\ \A q \in Procs \ {p} : pc'[q] = pc[q] /\ target'[q] = target[q] /\ todo'[q] = todo[q]
      /\ target'[p] = s /\ UNCHANGED <<cmd, status>> /\ UNCHANGED targetVars
  BY DEF Select, BTypeOK, TypeOK
<1>2. /\ \/ cmd[p].flags = {"restore"} /\ pc'[p] = "restore"
         \/ cmd[p].flags = {"destroy"} /\ pc'[p] = "destroy"
      /\ todo'[p] = {}
  <2>1. {"reset"} \notin {{}, {"list"}, {"restore"}, {"destroy"}} /\ {"restore"} # {"destroy"}
    OBVIOUS
  <2>2. cmd[p].flags \in {{"restore"}, {"destroy"}}
    BY <1>1, <2>1 DEF BuildInv, ChildInv
  <2>3. /\ pc'[p] = IF cmd[p].flags = {"destroy"} THEN "destroy" ELSE "restore"
        /\ todo'[p] = IF cmd[p].flags = {"reset"} THEN snaps \ {s} ELSE {}
    BY DEF Select, BTypeOK, TypeOK
  <2> QED
    BY <2>1, <2>2, <2>3
<1>3. s # NoSnap
  BY NoneAssumption DEF BTypeOK, TypeOK, Snapshot
<1>4. ShotsInv'
  BY <1>1 DEF BuildInv, ShotsInv, targetVars
<1>5. ASSUME NEW q \in Procs PROVE ChildInv(q)'
  BY <1>1, <1>2, <1>3 DEF BuildInv, ChildInv, Restoring
<1>6. ASSUME NEW b \in Builders PROVE ForkInv(b)' /\ OwnInv(b)' /\ AheadInv(b)'
  <2>1. ForkInv(b) /\ OwnInv(b) /\ AheadInv(b) /\ ChildInv(b)
    BY DEF BuildInv
  <2>2. CASE b # p
    <3>1. b \in Procs \ {p}
      BY <2>2
    <3> QED
      BY <1>1, <2>1, <3>1 DEF ForkInv, OwnInv, Needed, AheadInv, targetVars, buildVars
  <2>3. CASE b = p
    <3>1. Needed(b)
      BY <1>1, <1>2, <2>3 DEF Needed
    <3>2. mine[b] \in snaps /\ \A t \in snaps \ {mine[b]} : t.time < mine[b].time
      BY <2>1, <3>1 DEF OwnInv
    <3>3. cmd[p].name = NoName /\ s \in Newest(snaps)
      BY <1>1, <1>2, <2>1, <2>3 DEF ChildInv, Candidates
    <3>4. mine[b].time \in Nat /\ s.time \in Nat
      BY <3>2 DEF BTypeOK, TypeOK, Snapshot
    <3>5. s = mine[b]
      BY <3>2, <3>3, <3>4 DEF Newest
    <3>6. ForkInv(b)' /\ AheadInv(b)'
      BY <1>1, <1>2, <2>1, <2>3 DEF ForkInv, AheadInv, buildVars
    <3>7. OwnInv(b)'
      BY <1>1, <2>3, <3>2, <3>5 DEF OwnInv, buildVars, targetVars
    <3> QED
      BY <3>6, <3>7
  <2> QED
    BY <2>2, <2>3
<1> QED
  BY <1>4, <1>5, <1>6 DEF BuildInv

\* What the build's child takes is a new snapshot, the newest.
LEMMA Taken ==
  ASSUME Alone, BTypeOK, BuildInv, NEW p \in Procs, CreateSnapshot(p)
  PROVE  /\ p \in Builders /\ mine[p] = NoSnap
         /\ clock' \in Nat /\ clock' > clock /\ clock' <= MaxClock
         /\ \E new \in Snapshot \ snaps :
              /\ new.time = clock' /\ new.root = rootfs
              /\ new.name \in SnapNames /\ \A s \in snaps : s.name # new.name
              /\ snaps' = snaps \cup {new}
              /\ ChildStep(p) =>
                   mine' = [mine EXCEPT ![p] = new] /\ restored' = restored
              /\ new = [name |-> new.name, time |-> clock', root |-> rootfs]
<1> USE TimeAssumption, NoneAssumption
<1>1. p \in Builders /\ mine[p] = NoSnap
  <2>1. pc[p] = "work" /\ cmd[p].flags = {}
    BY DEF CreateSnapshot
  <2>2. p \in Builders
    BY <2>1 DEF BuildInv, ChildInv
  <2> QED
    BY <2>1, <2>2 DEF BuildInv, AheadInv
<1>2. clock' = clock + CopyTime /\ clock' \in Nat /\ clock' > clock /\ clock' <= MaxClock
  BY DEF CreateSnapshot, Alone, BTypeOK, TypeOK
<1>3. PICK n \in SnapNames \ {s.name : s \in snaps} :
        snaps' = snaps \cup {[name |-> n, time |-> clock', root |-> rootfs]}
  BY DEF CreateSnapshot
<1> DEFINE new == [name |-> n, time |-> clock', root |-> rootfs]
<1>4. /\ new.name = n /\ new.time = clock' /\ new.root = rootfs
      /\ \A s \in snaps : s.name # n
  OBVIOUS
<1>5. rootfs \in Nat
  BY DEF CreateSnapshot, BTypeOK, TypeOK
<1>6. new \in Snapshot \ snaps /\ snaps' = snaps \cup {new}
  BY <1>2, <1>3, <1>4, <1>5 DEF Snapshot
<1>7. ASSUME ChildStep(p)
      PROVE  mine' = [mine EXCEPT ![p] = new] /\ restored' = restored
  <2>1. (CHOOSE s \in snaps' : s \notin snaps) = new
    BY <1>6
  <2>2. mine' = [mine EXCEPT ![p] = CHOOSE s \in snaps' : s \notin snaps]
    BY <1>7 DEF ChildStep
  <2>3. ~RestoreSnapshot(p)
    BY DEF CreateSnapshot, RestoreSnapshot
  <2> QED
    BY <1>7, <2>1, <2>2, <2>3 DEF ChildStep
<1> QED
  BY <1>1, <1>2, <1>3, <1>4, <1>6, <1>7

LEMMA CreateKeeps ==
  ASSUME Alone, BTypeOK, BuildInv, NEW p \in Procs, CreateSnapshot(p), ChildStep(p)
  PROVE  BuildInv'
<1> USE BuildersAssumption
<1>1. p \in Builders /\ clock' \in Nat /\ clock' > clock /\ clock' <= MaxClock
  BY Taken
<1>2. PICK new \in Snapshot \ snaps :
        /\ new.time = clock' /\ new.root = rootfs
        /\ \A s \in snaps : s.name # new.name
        /\ snaps' = snaps \cup {new}
        /\ mine' = [mine EXCEPT ![p] = new] /\ restored' = restored
  BY Taken
<1>3. /\ pc[p] = "work" /\ cmd[p].flags = {} /\ rootfs # Gone
      /\ Return(p, "ok") /\ rootfs' = rootfs /\ edits' = edits
  BY DEF CreateSnapshot
<1>4. /\ \A q \in Procs \ {p} :
           /\ cmd'[q] = cmd[q] /\ target'[q] = target[q] /\ todo'[q] = todo[q]
           /\ status'[q] = status[q] /\ pc'[q] = pc[q]
      /\ status'[p] = "ok"
      /\ \/ /\ pc'[p] = "idle" /\ cmd'[p] = NoCommand
            /\ target'[p] = NoSnap /\ todo'[p] = {}
         \/ /\ pc'[p] = "defer"
            /\ cmd' = cmd /\ target' = target /\ todo' = todo
  BY <1>3, ControlOf
<1>5. UNCHANGED <<bpc, clean>>
  BY DEF ChildStep
<1>6. ForkInv(p) /\ OwnInv(p) /\ AheadInv(p) /\ ChildInv(p)
  BY <1>1 DEF BuildInv
<1>7. clock \in Nat /\ \A s \in snaps : s.time \in Nat /\ s.time <= clock
  BY DEF BTypeOK, TypeOK, Snapshot, BuildInv, ShotsInv
<1>8. ShotsInv'
  BY <1>1, <1>2, <1>3, <1>7 DEF BuildInv, ShotsInv
<1>9. ASSUME NEW q \in Procs PROVE ChildInv(q)'
  BY <1>3, <1>4 DEF BuildInv, ChildInv, Restoring
<1>10. ForkInv(p)'
  BY <1>3, <1>4, <1>5, <1>6 DEF ForkInv
<1>11. OwnInv(p)'
  <2>1. target'[p] = NoSnap
    BY <1>3, <1>4, <1>6 DEF ChildInv
  <2>2. mine'[p] = new
    BY <1>1, <1>2 DEF BTypeOK
  <2>3. \A s \in snaps : s.time < new.time
    BY <1>1, <1>2, <1>7
  <2> QED
    BY <1>2, <2>1, <2>2, <2>3 DEF OwnInv
<1>12. AheadInv(p)'
  BY <1>2, <1>3, <1>4, <1>5, <1>6 DEF AheadInv, ForkInv
<1>13. \A b \in Builders : b = p
  BY <1>1 DEF Alone
<1> QED
  BY <1>8, <1>9, <1>10, <1>11, <1>12, <1>13 DEF BuildInv

\* What a child destroys is not needed any more.
LEMMA DestroyKeeps ==
  ASSUME Alone, BTypeOK, BuildInv, NEW p \in Procs, DestroySnapshot(p),
         UNCHANGED buildVars
  PROVE  p \in Builders /\ BuildInv' /\ mine[p] \in snaps /\ snaps' = snaps \ {mine[p]}
<1> USE BuildersAssumption
<1>1. /\ pc[p] = "destroy" /\ Return(p, "ok")
      /\ UNCHANGED <<lxc, rootfs, lmFiles, clock, edits, incidents>>
  BY DEF DestroySnapshot
<1>2. p \in Builders /\ cmd[p].flags = {"destroy"}
  BY <1>1 DEF BuildInv, ChildInv
<1>3. ForkInv(p) /\ OwnInv(p) /\ AheadInv(p) /\ ChildInv(p)
  BY <1>2 DEF BuildInv
<1>4. mine[p] \in snaps /\ target[p] = mine[p]
  BY <1>1, <1>2, <1>3 DEF OwnInv, Needed, ChildInv
<1>5. snaps' = snaps \ {mine[p]}
  BY <1>4 DEF DestroySnapshot, BuildInv, ShotsInv
<1>6. /\ \A q \in Procs \ {p} :
           /\ cmd'[q] = cmd[q] /\ target'[q] = target[q] /\ todo'[q] = todo[q]
           /\ status'[q] = status[q] /\ pc'[q] = pc[q]
      /\ \/ /\ pc'[p] = "idle" /\ cmd'[p] = NoCommand
            /\ target'[p] = NoSnap /\ todo'[p] = {}
         \/ /\ pc'[p] = "defer"
            /\ cmd' = cmd /\ target' = target /\ todo' = todo
  BY <1>1, ControlOf
<1>7. ShotsInv'
  BY <1>1, <1>5 DEF BuildInv, ShotsInv
<1>8. ASSUME NEW q \in Procs PROVE ChildInv(q)'
  BY <1>1, <1>2, <1>6 DEF BuildInv, ChildInv, Restoring
<1>9. bpc[p] \notin {"snapshot", "snapshotWait", "boot", "build", "restore",
                     "restoreWait", "destroy"}
  BY <1>1, <1>2, <1>3 DEF ForkInv
<1>10. ForkInv(p)' /\ AheadInv(p)'
  BY <1>6, <1>9 DEF ForkInv, AheadInv, buildVars
<1>11. ~Needed(p)'
  BY <1>2, <1>6, <1>9 DEF Needed, buildVars, NoCommand
<1>12. OwnInv(p)'
  BY <1>4, <1>6, <1>11 DEF OwnInv, buildVars
<1>13. \A b \in Builders : b = p
  BY <1>2 DEF Alone
<1> QED
  BY <1>2, <1>4, <1>5, <1>7, <1>8, <1>10, <1>12, <1>13 DEF BuildInv

\* A step of the build itself, beside those that start a child.
LEMMA PlanKeeps ==
  ASSUME Alone, BTypeOK, BuildInv, NEW b \in Builders, ShotsInv', snaps' = snaps,
         UNCHANGED <<pc, cmd, target, todo, status>>,
         ForkInv(b)', AheadInv(b)',
         target[b] # NoSnap => mine'[b] = mine[b],
         Needed(b)' => Needed(b) /\ mine'[b] = mine[b]
  PROVE  BuildInv'
<1>1. \A p \in Procs : ChildInv(p)'
  BY DEF BuildInv, ChildInv
<1>2. OwnInv(b)'
  BY DEF BuildInv, OwnInv
<1>3. \A c \in Builders : c = b
  BY DEF Alone
<1> QED
  BY <1>1, <1>2, <1>3 DEF BuildInv

\* A step of a child, with what the history tells of it.
LEMMA ChildKeeps ==
  ASSUME Alone, BTypeOK, BuildInv, NEW b \in Builders, ChildStep(b)
  PROVE  BuildInv'
<1> USE BuildersAssumption
<1>1. Step(b) /\ UNCHANGED <<bpc, clean>>
  BY DEF ChildStep
<1>2. CASE CreateSnapshot(b)
  BY <1>2, CreateKeeps
<1>3. CASE RestoreSnapshot(b)
  <2>1. ~CreateSnapshot(b) /\ pc[b] = "restore" /\ pc'[b] = "tools"
    BY <1>3 DEF RestoreSnapshot, CreateSnapshot
  <2>2. mine' = mine
    BY <2>1 DEF ChildStep
  <2>3. Moves(b) /\ Fruitless(b) /\ snaps' = snaps /\ ShotsInv'
    BY <1>3, StepMoves
  <2> QED
    BY <1>1, <2>1, <2>2, <2>3, MovesKeep
<1>4. CASE ~CreateSnapshot(b) /\ ~RestoreSnapshot(b)
  <2>1. UNCHANGED buildVars
    BY <1>4 DEF ChildStep, buildVars
  <2>2. ~Discard(b)
    BY DEF Discard, BuildInv, ChildInv
  <2>3. ASSUME \/ Stop(b) \/ UsageExit(b) \/ ListSnapshots(b) \/ SelectNothing(b)
               \/ Fails(b) \/ RestoreLoses(b) \/ FixTools(b) \/ OpenLm(b) \/ WriteLm(b)
               \/ FinalizeFails(b) \/ Discarded(b) \/ Deferred(b)
        PROVE  BuildInv'
    <3>1. Moves(b) /\ Fruitless(b) /\ snaps' = snaps /\ ShotsInv'
      BY <2>3, StepMoves
    <3> QED
      BY <2>1, <3>1, MovesKeep DEF buildVars
  <2> QED
    BY <1>1, <1>4, <2>1, <2>2, <2>3, SelectKeeps, DestroyKeeps DEF Step
<1> QED
  BY <1>2, <1>3, <1>4

\* Another user's command neither takes nor destroys a snapshot.
LEMMA UserKeeps ==
  ASSUME Alone, BTypeOK, BuildInv, NEW u \in Procs \ Builders, User(u)
  PROVE  BuildInv' /\ snaps' = snaps
<1>1. UNCHANGED buildVars
  BY DEF User
<1>2. ASSUME NEW c \in Commands, Load(u, c) PROVE BuildInv' /\ snaps' = snaps
  <2>1. c \in CommandLines /\ c.flags \in {{"list"}, {"restore"}}
    BY CommandsAssumption DEF Alone
  <2> QED
    BY <1>1, <1>2, <2>1, LoadKeeps DEF Load, targetVars
<1>3. ASSUME \/ LoadFails(u) \/ Stop(u) \/ UsageExit(u) \/ ListSnapshots(u)
             \/ SelectNothing(u) \/ Fails(u) \/ RestoreSnapshot(u) \/ RestoreLoses(u)
             \/ FixTools(u) \/ OpenLm(u) \/ WriteLm(u) \/ FinalizeFails(u)
             \/ Discarded(u) \/ Deferred(u) \/ Kill(u)
      PROVE  BuildInv' /\ snaps' = snaps
  <2>1. Moves(u) /\ Fruitless(u) /\ snaps' = snaps /\ ShotsInv'
    BY <1>3, StepMoves
  <2> QED
    BY <1>1, <2>1, MovesKeep DEF buildVars
<1>4. ASSUME NEW s \in snaps, Select(u, s) PROVE BuildInv' /\ snaps' = snaps
  BY <1>1, <1>4, SelectKeeps DEF Select, targetVars
<1>5. ~CreateSnapshot(u) /\ ~DestroySnapshot(u) /\ ~Discard(u)
  <2>1. ChildInv(u) /\ u \notin Builders
    BY DEF BuildInv
  <2>2. {} \notin {{"list"}, {"restore"}} /\ {"destroy"} \notin {{"list"}, {"restore"}}
    OBVIOUS
  <2> QED
    BY <2>1, <2>2 DEF ChildInv, CreateSnapshot, DestroySnapshot, Discard
<1> QED
  BY <1>2, <1>3, <1>4, <1>5 DEF User, Step

\* Every step of the build but the start of a child.
LEMMA PlanStepKeeps ==
  ASSUME Alone, BTypeOK, BuildInv, NEW b \in Builders,
         \/ \E n \in BOOLEAN : Begin(b, n)
         \/ SnapshotTaken(b) \/ Boot(b) \/ Edit(b) \/ BuildEnds(b)
         \/ RestoreWait(b) \/ DestroyWait(b) \/ KillBuilder(b)
  PROVE  BuildInv' /\ snaps' = snaps
<1> USE BuildersAssumption, TimeAssumption
<1>1. /\ snaps' = snaps /\ clock' = clock
      /\ UNCHANGED <<pc, cmd, target, todo, status>>
  BY DEF Begin, SnapshotTaken, Boot, Edit, OtherEdit, BuildEnds, RestoreWait,
     DestroyWait, KillBuilder, vars, procVars
<1>2. \/ rootfs' = rootfs /\ edits' = edits
      \/ edits < MaxEdits /\ edits' = edits + 1 /\ rootfs' = edits'
  BY DEF Begin, SnapshotTaken, Boot, Edit, OtherEdit, BuildEnds, RestoreWait,
     DestroyWait, KillBuilder, vars
<1>3. ShotsInv'
  BY <1>1, <1>2 DEF BuildInv, ShotsInv, BTypeOK, TypeOK
<1>4. ForkInv(b) /\ AheadInv(b) /\ ChildInv(b)
  BY DEF BuildInv
<1>5. ASSUME NEW n \in BOOLEAN, Begin(b, n) PROVE BuildInv'
  <2>1. /\ pc[b] = "idle" /\ bpc'[b] = (IF n THEN "boot" ELSE "snapshot")
        /\ clean'[b] = ~n /\ mine'[b] = NoSnap /\ restored'[b] = FALSE
    BY <1>5 DEF Begin, BGoto, BTypeOK
  <2> QED
    BY <1>1, <1>3, <1>4, <2>1, PlanKeeps DEF ForkInv, AheadInv, Needed, ChildInv
<1>6. ASSUME End(b),
             bpc[b] \in {"snapshotWait", "boot", "build", "destroyWait"} \/ KillBuilder(b)
      PROVE  BuildInv'
  <2>1. bpc'[b] = "idle" /\ clean'[b] = FALSE /\ mine' = mine /\ restored' = restored
    BY <1>6 DEF End, BGoto, BTypeOK
  <2> QED
    BY <1>1, <1>3, <1>4, <2>1, PlanKeeps DEF ForkInv, AheadInv, Needed
<1>7. ASSUME NEW l, BGoto(b, l), UNCHANGED <<clean, mine, restored>>,
             \/ bpc[b] = "snapshotWait" /\ pc[b] = "idle" /\ status[b] = "ok" /\ l = "boot"
             \/ bpc[b] = "boot" /\ l = "build"
             \/ bpc[b] \in {"boot", "build"} /\ l = "restore" /\ clean[b]
             \/ bpc[b] = "restoreWait" /\ pc[b] = "idle" /\ l = "destroy"
      PROVE  BuildInv'
  <2>1. bpc'[b] = l
    BY <1>7 DEF BGoto, BTypeOK
  <2>2. ForkInv(b)' /\ AheadInv(b)'
    BY <1>1, <1>4, <1>7, <2>1 DEF ForkInv, AheadInv
  <2>3. Needed(b)' => Needed(b)
    BY <1>1, <1>4, <1>7, <2>1 DEF ForkInv, Needed
  <2> QED
    BY <1>1, <1>3, <1>7, <2>2, <2>3, PlanKeeps
<1>8. ASSUME Edit(b) PROVE BuildInv'
  BY <1>1, <1>3, <1>4, <1>8, PlanKeeps DEF Edit, buildVars, ForkInv, AheadInv, Needed
<1>9. ASSUME BuildEnds(b) PROVE BuildInv'
  BY <1>6, <1>7, <1>9 DEF BuildEnds, Leave
<1>10. ASSUME SnapshotTaken(b) PROVE BuildInv'
  BY <1>6, <1>7, <1>10 DEF SnapshotTaken
<1>11. ASSUME Boot(b) \/ RestoreWait(b) PROVE BuildInv'
  BY <1>7, <1>11 DEF Boot, RestoreWait
<1>12. ASSUME DestroyWait(b) \/ KillBuilder(b) PROVE BuildInv'
  BY <1>6, <1>12 DEF DestroyWait, KillBuilder
<1> QED
  BY <1>1, <1>5, <1>8, <1>9, <1>10, <1>11, <1>12

\* The build starts a child, which may fail to load the target.
LEMMA ForkKeeps ==
  ASSUME Alone, BTypeOK, BuildInv, NEW b \in Builders,
         \/ Fork(b, "snapshot", "snapshotWait", {})
         \/ Fork(b, "restore", "restoreWait", {"restore"})
         \/ Fork(b, "destroy", "destroyWait", {"destroy"})
  PROVE  BuildInv' /\ snaps' = snaps
<1> USE BuildersAssumption
<1>1. PICK f \in SUBSET Flags, wait \in BuilderLocations :
        /\ \/ bpc[b] = "snapshot" /\ wait = "snapshotWait" /\ f = {}
           \/ bpc[b] = "restore" /\ wait = "restoreWait" /\ f = {"restore"}
           \/ bpc[b] = "destroy" /\ wait = "destroyWait" /\ f = {"destroy"}
        /\ Load(b, [flags |-> f, name |-> NoName]) \/ LoadFails(b)
        /\ BGoto(b, wait)
        /\ UNCHANGED <<clean, mine, restored>>
  <2>1. /\ {} \in SUBSET Flags /\ {"restore"} \in SUBSET Flags /\ {"destroy"} \in SUBSET Flags
        /\ {"snapshotWait", "restoreWait", "destroyWait"} \subseteq BuilderLocations
    BY DEF Flags, BuilderLocations
  <2> QED
    BY <2>1 DEF Fork
<1>2. bpc'[b] = wait /\ \A c \in Builders \ {b} : bpc'[c] = bpc[c]
  BY <1>1 DEF BGoto, BTypeOK
<1>3. CASE Load(b, [flags |-> f, name |-> NoName])
  <2>1. [flags |-> f, name |-> NoName] \in CommandLines
    BY DEF CommandLines
  <2>2. BuildInv'
    BY <1>1, <1>2, <1>3, <2>1, LoadKeeps
  <2> QED
    BY <1>3, <2>2 DEF Load, targetVars
<1>4. CASE LoadFails(b)
  <2>1. /\ pc[b] = "idle" /\ Exit(b, "err") /\ UNCHANGED targetVars
    BY <1>4 DEF LoadFails
  <2>2. /\ \A q \in Procs \ {b} :
             /\ cmd'[q] = cmd[q] /\ target'[q] = target[q] /\ todo'[q] = todo[q]
             /\ status'[q] = status[q] /\ pc'[q] = pc[q]
        /\ pc'[b] = "idle" /\ target'[b] = NoSnap /\ todo'[b] = {} /\ status'[b] = "err"
    BY <2>1 DEF Exit, BTypeOK, TypeOK
  <2>3. ShotsInv'
    BY <2>1 DEF BuildInv, ShotsInv, targetVars
  <2>4. ASSUME NEW q \in Procs PROVE ChildInv(q)'
    BY <2>2 DEF BuildInv, ChildInv, Restoring
  <2>5. ForkInv(b) /\ OwnInv(b) /\ AheadInv(b)
    BY DEF BuildInv
  <2>6. ForkInv(b)' /\ AheadInv(b)'
    BY <1>1, <1>2, <2>2, <2>5 DEF ForkInv, AheadInv
  <2>7. Needed(b)' => Needed(b)
    BY <1>1, <1>2, <2>2 DEF Needed
  <2>8. OwnInv(b)'
    BY <1>1, <2>1, <2>2, <2>5, <2>7 DEF OwnInv, targetVars
  <2>9. \A c \in Builders : c = b
    BY DEF Alone
  <2> QED
    BY <2>1, <2>3, <2>4, <2>6, <2>8, <2>9 DEF BuildInv, targetVars
<1> QED
  BY <1>1, <1>3, <1>4

\* What others do with the target.
LEMMA OthersKeep ==
  ASSUME BTypeOK, BuildInv, Environment \/ OtherEdit, UNCHANGED buildVars
  PROVE  BuildInv' /\ snaps' = snaps
<1> USE TimeAssumption
<1>1. /\ snaps' = snaps /\ UNCHANGED procVars
      /\ clock' = clock \/ (clock < MaxClock /\ clock' = clock + 1)
      /\ \/ rootfs' = rootfs /\ edits' = edits
         \/ edits < MaxEdits /\ edits' = edits + 1 /\ rootfs' = edits'
  BY DEF Environment, OtherBoot, Tick, OtherEdit
<1>2. ShotsInv'
  BY <1>1 DEF BuildInv, ShotsInv, BTypeOK, TypeOK, Snapshot
<1>3. \A p \in Procs : ChildInv(p)'
  BY <1>1 DEF BuildInv, ChildInv, procVars
<1>4. ASSUME NEW b \in Builders PROVE ForkInv(b)' /\ OwnInv(b)' /\ AheadInv(b)'
  BY <1>1 DEF BuildInv, ForkInv, OwnInv, Needed, AheadInv, procVars, buildVars
<1> QED
  BY <1>1, <1>2, <1>3, <1>4 DEF BuildInv

LEMMA BuildNext ==
  ASSUME Alone, BTypeOK, BuildInv, [BNext]_bvars
  PROVE  BuildInv'
<1> USE BuildersAssumption
<1>1. ASSUME NEW b \in Builders, Builder(b) PROVE BuildInv'
  <2>1. ASSUME KillChild(b) PROVE BuildInv'
    <3>1. Moves(b) /\ Fruitless(b) /\ snaps' = snaps /\ ShotsInv'
      BY <2>1, StepMoves DEF KillChild
    <3> QED
      BY <2>1, <3>1, MovesKeep DEF KillChild, buildVars
  <2> QED
    BY <1>1, <2>1, PlanStepKeeps, ForkKeeps, ChildKeeps DEF Builder
<1>2. CASE UNCHANGED bvars
  <2>1. UNCHANGED <<bpc, clean, mine, restored, snaps, rootfs, edits, clock,
                    pc, cmd, target, todo, status>>
    BY <1>2 DEF bvars, vars, buildVars
  <2> QED
    BY <2>1 DEF BuildInv, ShotsInv, ChildInv, ForkInv, OwnInv, Needed, AheadInv
<1> QED
  BY <1>1, <1>2, UserKeeps, OthersKeep DEF BNext

-----------------------------------------------------------------------------
(* What the user of a build is told.                                        *)

LEMMA ToldInit == BInit => \A b \in Builders : ToldInv(b)
BY InitialAssumption, NoneAssumption, BuildersAssumption
   DEF BInit, Init, ToldInv, Restoring, Snapshot

\* How a child gets to the restored target, and to its end without an error.
LEMMA ChildTells ==
  ASSUME BTypeOK, BuildInv, NEW b \in Builders, Step(b) \/ Kill(b)
  PROVE  /\ pc[b] # "idle"
         /\ pc'[b] # "idle" => cmd'[b] = cmd[b]
         /\ pc'[b] \in Restoring \ {"restore"} =>
              pc[b] \in Restoring \ {"restore"} \/ RestoreSnapshot(b)
         /\ status'[b] = "ok" /\ pc'[b] \in {"defer", "idle"} =>
              \/ pc[b] = "defer" /\ status[b] = "ok"
              \/ pc[b] = "discard" \/ DestroySnapshot(b)
              \/ cmd[b].flags \notin {{"restore"}, {"destroy"}}
         /\ snaps' = snaps \/ CreateSnapshot(b) \/ DestroySnapshot(b)
<1> USE BuildersAssumption
<1>1. b \in Procs /\ ChildInv(b)
  BY DEF BuildInv
<1>2. CASE Kill(b) \/ UsageExit(b)
  <2>1. pc[b] # "idle" /\ Exit(b, "err") /\ snaps' = snaps
    BY <1>2 DEF Kill, UsageExit
  <2> QED
    BY <1>1, <2>1, ControlOf DEF Restoring, Exit, BTypeOK, TypeOK
<1>3. CASE Stop(b) \/ \E s \in snaps : Select(b, s)
  <2>1. /\ pc[b] \in {"stop", "work"} /\ pc'[b] \in {"work", "restore", "destroy"}
        /\ cmd' = cmd /\ snaps' = snaps
    BY <1>1, <1>3 DEF Stop, Select, Goto, targetVars, BTypeOK, TypeOK
  <2> QED
    BY <2>1 DEF Restoring
<1>4. CASE Fails(b) \/ RestoreLoses(b) \/ FinalizeFails(b)
  <2>1. pc[b] # "idle" /\ Return(b, "err") /\ snaps' = snaps
    BY <1>4 DEF Fails, RestoreLoses, FinalizeFails, targetVars
  <2>2. /\ status'[b] = "err"
        /\ \/ pc'[b] = "idle" /\ cmd'[b] = NoCommand
           \/ pc'[b] = "defer" /\ cmd' = cmd
    BY <2>1, ControlOf
  <2> QED
    BY <1>1, <2>1, <2>2 DEF Restoring
<1>5. CASE SelectNothing(b)
  <2>1. cmd[b].name = NoName /\ pc[b] # "idle" /\ snaps' = snaps
    BY <1>1, <1>5 DEF SelectNothing, ChildInv, targetVars
  <2>2. Return(b, "err")
    BY <1>5, <2>1 DEF SelectNothing
  <2> QED
    BY <1>1, <2>1, <2>2, ControlOf DEF Restoring
<1>6. CASE CreateSnapshot(b) \/ ListSnapshots(b) \/ DestroySnapshot(b) \/ Discarded(b)
  <2>1. pc[b] # "idle" /\ Return(b, "ok")
    BY <1>6 DEF CreateSnapshot, ListSnapshots, DestroySnapshot, Discarded
  <2>2. /\ pc'[b] \in {"idle", "defer"}
        /\ pc'[b] # "idle" => cmd'[b] = cmd[b]
    BY <1>1, <2>1, ControlOf
  <2>3. DestroySnapshot(b) \/ pc[b] = "discard" \/ cmd[b].flags \in {{}, {"list"}}
    BY <1>6 DEF CreateSnapshot, ListSnapshots, Discarded
  <2>4. {} \notin {{"restore"}, {"destroy"}} /\ {"list"} \notin {{"restore"}, {"destroy"}}
    OBVIOUS
  <2>5. snaps' = snaps \/ CreateSnapshot(b) \/ DestroySnapshot(b)
    BY <1>6 DEF ListSnapshots, Discarded, targetVars
  <2> QED
    BY <2>1, <2>2, <2>3, <2>4, <2>5 DEF Restoring
<1>7. CASE RestoreSnapshot(b)
  BY <1>1, <1>7 DEF RestoreSnapshot, BTypeOK, TypeOK, Restoring
<1>8. CASE FixTools(b) \/ OpenLm(b) \/ WriteLm(b)
  <2>1. /\ pc[b] \in Restoring \ {"restore"} /\ snaps' = snaps
        /\ \E l \in Restoring \ {"restore"} : Goto(b, l)
    BY <1>8 DEF FixTools, OpenLm, WriteLm, Restoring
  <2> QED
    BY <1>1, <2>1, ControlOf DEF Restoring
<1>9. CASE Deferred(b)
  <2>1. pc[b] = "defer" /\ Exit(b, status[b]) /\ snaps' = snaps
    BY <1>9 DEF Deferred
  <2> QED
    BY <1>1, <2>1, ControlOf DEF Restoring, Exit, BTypeOK, TypeOK
<1>10. ~Discard(b)
  BY <1>1 DEF Discard, ChildInv
<1> QED
  BY <1>2, <1>3, <1>4, <1>5, <1>6, <1>7, <1>8, <1>9, <1>10 DEF Step

\* A step of the child, or its death.
LEMMA ChildStepTold ==
  ASSUME Alone, BTypeOK, BuildInv, NEW b \in Builders, ToldInv(b), ChildStep(b) \/ KillChild(b)
  PROVE  ToldInv(b)'
<1> USE BuildersAssumption
<1>1. /\ pc[b] # "idle"
      /\ pc'[b] # "idle" => cmd'[b] = cmd[b]
      /\ pc'[b] \in Restoring \ {"restore"} =>
           pc[b] \in Restoring \ {"restore"} \/ RestoreSnapshot(b)
      /\ status'[b] = "ok" /\ pc'[b] \in {"defer", "idle"} =>
           \/ pc[b] = "defer" /\ status[b] = "ok"
           \/ pc[b] = "discard" \/ DestroySnapshot(b)
           \/ cmd[b].flags \notin {{"restore"}, {"destroy"}}
      /\ snaps' = snaps \/ CreateSnapshot(b) \/ DestroySnapshot(b)
  BY ChildTells DEF ChildStep, KillChild
<1>2. UNCHANGED <<bpc, clean, told>>
  BY DEF ChildStep, KillChild, buildVars
<1>3. /\ restored[b] => restored'[b]
      /\ RestoreSnapshot(b) /\ ChildStep(b) => restored'[b]
      /\ ~CreateSnapshot(b) => mine' = mine
  BY DEF ChildStep, KillChild, buildVars, BTypeOK
<1>4. RestoreSnapshot(b) => ChildStep(b)
  <2>1. ASSUME RestoreSnapshot(b), KillChild(b) PROVE FALSE
    <3>1. pc'[b] = "tools" /\ pc'[b] = "idle"
      BY <2>1 DEF RestoreSnapshot, KillChild, Kill, Exit, BTypeOK, TypeOK
    <3> QED
      BY <3>1
  <2> QED
    BY <2>1
<1>5. ForkInv(b) /\ ChildInv(b)
  BY DEF BuildInv
<1>6. CreateSnapshot(b) => cmd[b].flags = {} /\ pc[b] = "work"
  BY DEF CreateSnapshot
<1>7. DestroySnapshot(b) => /\ cmd[b].flags = {"destroy"} /\ mine'[b] \notin snaps'
                            /\ pc[b] = "destroy"
  <2>1. ASSUME DestroySnapshot(b) PROVE mine'[b] \notin snaps'
    <3>1. target[b] # NoSnap /\ pc[b] = "destroy" /\ cmd[b].flags = {"destroy"}
      BY <1>5, <2>1 DEF DestroySnapshot, ChildInv
    <3>2. ~CreateSnapshot(b)
      BY <3>1 DEF CreateSnapshot
    <3>3. target[b] = mine[b] /\ mine[b] \in snaps /\ mine' = mine
      BY <1>3, <3>1, <3>2 DEF BuildInv, OwnInv, Needed
    <3> QED
      BY <2>1, <3>3 DEF DestroySnapshot, BuildInv, ShotsInv
  <2> QED
    BY <1>5, <2>1 DEF DestroySnapshot, ChildInv
<1>8. {} # {"restore"} /\ {} # {"destroy"} /\ {"restore"} # {"destroy"}
  OBVIOUS
<1>9. pc[b] = "discard" => restored[b] /\ cmd[b].flags = {"restore"}
  BY <1>5 DEF ToldInv, ChildInv, Restoring
<1>10. \/ pc'[b] \in Restoring \ {"restore"}
       \/ pc'[b] = "defer" /\ cmd'[b].flags = {"restore"} /\ status'[b] = "ok"
       \/ bpc'[b] = "restoreWait" /\ pc'[b] = "idle" /\ status'[b] = "ok"
       => restored'[b]
  <2>1. CASE pc'[b] \in Restoring \ {"restore"}
    BY <1>1, <1>3, <1>4, <2>1 DEF ToldInv
  <2>2. CASE /\ cmd[b].flags = {"restore"} /\ status'[b] = "ok"
             /\ pc'[b] \in {"defer", "idle"}
    BY <1>1, <1>3, <1>7, <1>8, <1>9, <2>2 DEF ToldInv
  <2>3. bpc'[b] = "restoreWait" => cmd[b].flags = {"restore"}
    BY <1>1, <1>2, <1>5 DEF ForkInv
  <2> QED
    BY <1>1, <2>1, <2>2, <2>3
<1>11. \/ bpc'[b] \in {"destroy", "destroyWait"}
       \/ pc'[b] # "idle" /\ cmd'[b].flags = {"destroy"}
       => restored'[b] \/ "restore" \in told'[b]
  BY <1>1, <1>2, <1>3 DEF ToldInv
<1>12. bpc'[b] = "destroyWait" => cmd[b].flags = {"destroy"}
  BY <1>1, <1>2 DEF ToldInv
<1>13. \/ pc'[b] = "defer" /\ cmd'[b].flags = {"destroy"} /\ status'[b] = "ok"
       \/ bpc'[b] = "destroyWait" /\ pc'[b] = "idle" /\ status'[b] = "ok"
       => mine'[b] \notin snaps'
  <2>1. SUFFICES ASSUME cmd[b].flags = {"destroy"}, status'[b] = "ok", pc'[b] \in {"defer", "idle"}
                 PROVE  mine'[b] \notin snaps'
    BY <1>1, <1>12
  <2>2. DestroySnapshot(b) \/ (pc[b] = "defer" /\ status[b] = "ok")
    BY <1>1, <1>8, <1>9, <2>1
  <2>3. ~CreateSnapshot(b)
    BY <1>6, <1>8, <2>1
  <2> QED
    BY <1>1, <1>3, <1>7, <2>1, <2>2, <2>3 DEF ToldInv
<1>14. bpc'[b] = "idle" => told'[b] # {}
  BY <1>1, <1>2 DEF ToldInv
<1>15. bpc'[b] \notin {"boot", "build"}
  BY <1>1, <1>2, <1>5 DEF ForkInv
<1> QED
  BY <1>1, <1>2, <1>10, <1>11, <1>12, <1>13, <1>14, <1>15 DEF ToldInv

\* A step of the build itself.
LEMMA PlanStepTold ==
  ASSUME BTypeOK, BuildInv, NEW b \in Builders, ToldInv(b),
         \/ \E n \in BOOLEAN : Begin(b, n)
         \/ SnapshotTaken(b) \/ Boot(b) \/ Edit(b) \/ BuildEnds(b)
         \/ RestoreWait(b) \/ DestroyWait(b) \/ KillBuilder(b)
  PROVE  ToldInv(b)'
<1> USE BuildersAssumption, NoneAssumption
<1>1. snaps' = snaps /\ UNCHANGED <<pc, cmd, status>>
  BY DEF Begin, SnapshotTaken, Boot, Edit, OtherEdit, BuildEnds, RestoreWait,
     DestroyWait, KillBuilder, vars, procVars
<1>2. NoSnap \notin snaps
  BY DEF BTypeOK, TypeOK, Snapshot
<1>3. ForkInv(b) /\ AheadInv(b) /\ ChildInv(b)
  BY DEF BuildInv
<1>4. ASSUME NEW n \in BOOLEAN, Begin(b, n) PROVE ToldInv(b)'
  <2>1. /\ pc[b] = "idle" /\ bpc'[b] = (IF n THEN "boot" ELSE "snapshot")
        /\ mine'[b] = NoSnap /\ clean'[b] = ~n
    BY <1>4 DEF Begin, BGoto, BTypeOK
  <2> QED
    BY <1>1, <2>1 DEF ToldInv, Restoring
<1>5. ASSUME NEW child \in Troubles, Report(b, child), status[b] # "ok" PROVE child \in told'[b]
  BY <1>5 DEF Report, BTypeOK
<1>6. ASSUME NEW child, Report(b, child) PROVE told[b] \subseteq told'[b]
  BY <1>6 DEF Report, BTypeOK
<1>7. ASSUME End(b) PROVE bpc'[b] = "idle" /\ mine' = mine /\ restored' = restored
  BY <1>7 DEF End, BGoto, BTypeOK
<1>8. ASSUME SnapshotTaken(b) PROVE ToldInv(b)'
  <2>1. pc[b] = "idle" /\ bpc[b] = "snapshotWait" /\ told[b] \subseteq told'[b]
    BY <1>6, <1>8 DEF SnapshotTaken
  <2>2. CASE status[b] = "ok"
    <3>1. bpc'[b] = "boot" /\ mine' = mine /\ restored' = restored /\ clean' = clean
      BY <1>8, <2>2 DEF SnapshotTaken, BGoto, BTypeOK
    <3> QED
      BY <1>1, <2>1, <3>1 DEF ToldInv, Restoring
  <2>3. CASE status[b] # "ok"
    <3>1. "snapshot" \in told'[b] /\ End(b)
      BY <1>5, <1>8, <2>3 DEF SnapshotTaken, Troubles
    <3> QED
      BY <1>1, <1>7, <2>1, <3>1 DEF ToldInv, Restoring
  <2> QED
    BY <2>2, <2>3
<1>9. ASSUME Boot(b) \/ Edit(b) PROVE ToldInv(b)'
  <2>1. /\ bpc[b] \in {"boot", "build"} /\ bpc'[b] = "build"
        /\ UNCHANGED <<clean, mine, restored, told>>
    BY <1>9 DEF Boot, Edit, BGoto, BTypeOK, buildVars
  <2> QED
    BY <1>1, <2>1 DEF ToldInv
<1>10. ASSUME BuildEnds(b) PROVE ToldInv(b)'
  <2>1. bpc[b] \in {"boot", "build"} /\ pc[b] = "idle" /\ UNCHANGED <<mine, restored, told>>
    BY <1>3, <1>10 DEF BuildEnds, Leave, End, ForkInv
  <2>2. bpc'[b] = IF clean[b] THEN "restore" ELSE "idle"
    BY <1>10 DEF BuildEnds, Leave, End, BGoto, BTypeOK
  <2> QED
    BY <1>1, <1>2, <2>1, <2>2 DEF ToldInv, Restoring
<1>11. ASSUME RestoreWait(b) PROVE ToldInv(b)'
  <2>1. /\ bpc[b] = "restoreWait" /\ pc[b] = "idle" /\ bpc'[b] = "destroy"
        /\ UNCHANGED <<mine, restored>>
    BY <1>11 DEF RestoreWait, BGoto, BTypeOK
  <2>2. restored[b] \/ "restore" \in told'[b]
    BY <1>5, <1>11, <2>1 DEF RestoreWait, ToldInv, Troubles
  <2> QED
    BY <1>1, <2>1, <2>2 DEF ToldInv, Restoring
<1>12. ASSUME DestroyWait(b) PROVE ToldInv(b)'
  <2>1. /\ bpc[b] = "destroyWait" /\ pc[b] = "idle" /\ End(b)
    BY <1>12 DEF DestroyWait
  <2>2. mine[b] \notin snaps \/ "destroy" \in told'[b]
    BY <1>5, <1>12, <2>1 DEF DestroyWait, ToldInv, Troubles
  <2> QED
    BY <1>1, <1>7, <2>1, <2>2 DEF ToldInv, Restoring
<1>13. ASSUME KillBuilder(b) PROVE ToldInv(b)'
  <2>1. End(b) /\ told'[b] = told[b] \cup {"killed"}
    BY <1>13 DEF KillBuilder, BTypeOK
  <2> QED
    BY <1>1, <1>7, <2>1 DEF ToldInv, Restoring
<1> QED
  BY <1>4, <1>8, <1>9, <1>10, <1>11, <1>12, <1>13

\* The start of a child.
LEMMA ForkTold ==
  ASSUME BTypeOK, BuildInv, NEW b \in Builders, ToldInv(b),
         \/ Fork(b, "snapshot", "snapshotWait", {})
         \/ Fork(b, "restore", "restoreWait", {"restore"})
         \/ Fork(b, "destroy", "destroyWait", {"destroy"})
  PROVE  ToldInv(b)'
<1> USE BuildersAssumption
<1>1. PICK f \in SUBSET Flags, wait \in BuilderLocations :
        /\ \/ bpc[b] = "snapshot" /\ wait = "snapshotWait" /\ f = {}
           \/ bpc[b] = "restore" /\ wait = "restoreWait" /\ f = {"restore"}
           \/ bpc[b] = "destroy" /\ wait = "destroyWait" /\ f = {"destroy"}
        /\ Load(b, [flags |-> f, name |-> NoName]) \/ LoadFails(b)
        /\ BGoto(b, wait)
        /\ UNCHANGED <<clean, mine, restored, told>>
  <2>1. /\ {} \in SUBSET Flags /\ {"restore"} \in SUBSET Flags /\ {"destroy"} \in SUBSET Flags
        /\ {"snapshotWait", "restoreWait", "destroyWait"} \subseteq BuilderLocations
    BY DEF Flags, BuilderLocations
  <2> QED
    BY <2>1 DEF Fork
<1>2. bpc'[b] = wait
  BY <1>1 DEF BGoto, BTypeOK
<1>3. /\ \/ pc'[b] \in {"stop", "work"} /\ cmd'[b].flags = f
         \/ pc'[b] = "idle" /\ status'[b] = "err"
      /\ snaps' = snaps
  BY <1>1 DEF Load, LoadFails, Exit, targetVars, BTypeOK, TypeOK
<1>4. {} # {"destroy"} /\ {"restore"} # {"destroy"}
  OBVIOUS
<1> QED
  BY <1>1, <1>2, <1>3, <1>4 DEF ToldInv, Restoring

\* What the others do.
LEMMA OthersTold ==
  ASSUME BTypeOK, BuildInv, NEW b \in Builders, ToldInv(b), UNCHANGED buildVars, snaps' = snaps,
         cmd'[b] = cmd[b] /\ status'[b] = status[b],
         pc'[b] = pc[b] \/ (pc[b] = "writeLm" /\ pc'[b] = "writeGone")
  PROVE  ToldInv(b)'
BY DEF ToldInv, Restoring, buildVars

\* Another user's command does not touch the child of a build.
LEMMA UserApart ==
  ASSUME BTypeOK, BuildInv, NEW b \in Builders, NEW u \in Procs \ Builders, User(u)
  PROVE  /\ cmd'[b] = cmd[b] /\ status'[b] = status[b]
         /\ pc'[b] = pc[b] \/ (pc[b] = "writeLm" /\ pc'[b] = "writeGone")
<1> USE BuildersAssumption
<1>1. b \in Procs \ {u}
  OBVIOUS
<1>2. ASSUME \/ LoadFails(u) \/ Stop(u) \/ UsageExit(u) \/ ListSnapshots(u)
             \/ SelectNothing(u) \/ Fails(u) \/ RestoreSnapshot(u) \/ RestoreLoses(u)
             \/ FixTools(u) \/ OpenLm(u) \/ WriteLm(u) \/ FinalizeFails(u)
             \/ Discarded(u) \/ Deferred(u) \/ Kill(u)
      PROVE  Moves(u)
  BY <1>2, StepMoves
<1>3. ASSUME CreateSnapshot(u) \/ DestroySnapshot(u)
      PROVE  pc'[b] = pc[b] /\ cmd'[b] = cmd[b] /\ status'[b] = status[b]
  <2>1. Return(u, "ok")
    BY <1>3 DEF CreateSnapshot, DestroySnapshot
  <2> QED
    BY <1>1, <2>1, ControlOf
<1>4. ASSUME \/ \E c \in Commands : Load(u, c)
             \/ \E s \in snaps : Select(u, s)
             \/ Discard(u)
      PROVE  pc'[b] = pc[b] /\ cmd'[b] = cmd[b] /\ status'[b] = status[b]
  BY <1>1, <1>4 DEF Load, Select, Discard, BTypeOK, TypeOK
<1> QED
  BY <1>1, <1>2, <1>3, <1>4 DEF User, Step, Moves

LEMMA ToldNext ==
  ASSUME Alone, BTypeOK, BuildInv, \A b \in Builders : ToldInv(b), [BNext]_bvars
  PROVE  \A b \in Builders : ToldInv(b)'
<1> SUFFICES ASSUME NEW b \in Builders PROVE ToldInv(b)'
  OBVIOUS
<1>1. CASE \E c \in Builders : Builder(c)
  <2>1. Builder(b)
    BY <1>1 DEF Alone
  <2> QED
    BY <2>1, ChildStepTold, PlanStepTold, ForkTold DEF Builder
<1>2. ASSUME NEW u \in Procs \ Builders, User(u) PROVE ToldInv(b)'
  <2>1. UNCHANGED buildVars /\ snaps' = snaps
    BY <1>2, UserKeeps DEF User
  <2> QED
    BY <1>2, <2>1, UserApart, OthersTold
<1>3. CASE (Environment \/ OtherEdit) /\ UNCHANGED buildVars
  <2>1. snaps' = snaps /\ UNCHANGED <<pc, cmd, status>>
    BY <1>3 DEF Environment, OtherBoot, Tick, OtherEdit, procVars
  <2> QED
    BY <1>3, <2>1, OthersTold
<1>4. CASE UNCHANGED bvars
  <2>1. UNCHANGED buildVars /\ snaps' = snaps /\ UNCHANGED <<pc, cmd, status>>
    BY <1>4 DEF bvars, vars
  <2> QED
    BY <2>1, OthersTold
<1> QED
  BY <1>1, <1>2, <1>3, <1>4 DEF BNext

\* The snapshot of the build stays the newest one, and in the list, until the
\* build has restored and destroyed it or has told its user that it could not,
\* whatever fails or is killed.
THEOREM InductiveInvTheorem ==
  ASSUME Alone
  PROVE  BSpec => []InductiveInv
<1>1. BInit => InductiveInv
  BY BTypeInit, BuildInit, ToldInit DEF InductiveInv
<1>2. InductiveInv /\ [BNext]_bvars => InductiveInv'
  BY BTypeNext, BuildNext, ToldNext DEF InductiveInv
<1> QED
  BY <1>1, <1>2, PTL DEF BSpec

\* "Delete the created snapshot after build" (rpmbuild.go:332): what the
\* children find as the newest snapshot is the one that the build took.
THEOREM OwnSnapshotTheorem ==
  ASSUME Alone
  PROVE  BSpec => []OwnSnapshot
<1>1. InductiveInv => OwnSnapshot
  BY DEF InductiveInv, BuildInv, OwnInv, OwnSnapshot
<1> QED
  BY <1>1, InductiveInvTheorem, PTL

-----------------------------------------------------------------------------
(* The promise of a clean build.                                            *)

LEMMA PromiseInit == BInit => Promise!Init
BY InitialAssumption, TimeAssumption DEF BInit, Init, Promise!Init

\* Steps that leave the snapshots and the history alone may change the target.
LEMMA PromiseChange ==
  ASSUME ShotsInv', UNCHANGED <<snaps, mine, restored, told>>
  PROVE  Promise!Next
BY DEF ShotsInv, Promise!Next, Promise!Change

\* Of other steps the user is told.
LEMMA PromiseTell ==
  ASSUME NEW b \in Builders, NEW t \in Troubles, told' = [told EXCEPT ![b] = @ \cup {t}],
         UNCHANGED <<rootfs, snaps, mine, restored>>
  PROVE  Promise!Next
BY DEF Promise!Next, Promise!Tell

LEMMA PromiseChild ==
  ASSUME Alone, BTypeOK, BuildInv, BuildInv', NEW b \in Builders, ToldInv(b), ChildStep(b)
  PROVE  Promise!Next
<1> USE BuildersAssumption, TimeAssumption, NoneAssumption
<1>1. ShotsInv'
  BY DEF BuildInv
<1>2. CASE CreateSnapshot(b)
  <2>1. /\ mine[b] = NoSnap /\ rootfs' = rootfs
        /\ clock' \in Nat /\ clock' <= MaxClock
    BY <1>2, Taken DEF CreateSnapshot
  <2>2. rootfs \in 0 .. MaxEdits
    BY <1>2 DEF CreateSnapshot, BuildInv, ShotsInv
  <2>3. PICK new \in Snapshot \ snaps :
          /\ new.root = rootfs /\ new.name \in SnapNames
          /\ snaps' = snaps \cup {new}
          /\ mine' = [mine EXCEPT ![b] = new] /\ restored' = restored
          /\ new = [name |-> new.name, time |-> clock', root |-> rootfs]
    BY <1>2, Taken
  <2>4. new \in [name : SnapNames, time : 0 .. MaxClock, root : 0 .. MaxEdits] \ snaps
    BY <2>1, <2>2, <2>3
  <2>5. told' = told
    BY DEF ChildStep
  <2>6. Promise!Take(b)
    BY <2>1, <2>3, <2>4, <2>5 DEF Promise!Take
  <2> QED
    BY <2>6 DEF Promise!Next
<1>3. CASE RestoreSnapshot(b)
  <2>1. /\ pc[b] = "restore" /\ snaps' = snaps /\ ~CreateSnapshot(b)
        /\ \E s \in snaps : s.name = target[b].name /\ rootfs' = s.root
    BY <1>3 DEF RestoreSnapshot, CreateSnapshot
  <2>2. cmd[b].flags = {"restore"} /\ target[b] # NoSnap
    BY <2>1 DEF BuildInv, ChildInv, Restoring
  <2>3. target[b] = mine[b] /\ mine[b] \in snaps /\ ~restored[b]
    BY <2>1, <2>2 DEF BuildInv, OwnInv, Needed, AheadInv
  <2>4. rootfs' = mine[b].root /\ mine[b] # NoSnap
    BY <2>1, <2>2, <2>3 DEF BuildInv, ShotsInv
  <2>5. mine' = mine /\ restored' = [restored EXCEPT ![b] = TRUE] /\ told' = told
    BY <1>3, <2>1 DEF ChildStep
  <2> QED
    BY <2>1, <2>3, <2>4, <2>5 DEF Promise!Next, Promise!Restore
<1>4. CASE ~CreateSnapshot(b) /\ ~RestoreSnapshot(b)
  <2>1. UNCHANGED buildVars /\ UNCHANGED <<mine, restored, told>>
    BY <1>4 DEF ChildStep, buildVars
  <2>2. CASE DestroySnapshot(b)
    <3>1. mine[b] \in snaps /\ snaps' = snaps \ {mine[b]} /\ rootfs' = rootfs
      BY <2>1, <2>2, DestroyKeeps DEF DestroySnapshot
    <3>2. pc[b] = "destroy" /\ cmd[b].flags = {"destroy"}
      BY <2>2 DEF DestroySnapshot, BuildInv, ChildInv
    <3>3. restored[b] \/ "restore" \in told[b]
      BY <3>2 DEF ToldInv
    <3> QED
      BY <2>1, <3>1, <3>3 DEF Promise!Next, Promise!Drop
  <2>3. CASE ~DestroySnapshot(b)
    <3>1. ~Discard(b)
      BY DEF Discard, BuildInv, ChildInv
    <3>2. snaps' = snaps
      BY <1>4, <2>3, <3>1, StepMoves DEF ChildStep, Step, Select, targetVars
    <3> QED
      BY <1>1, <2>1, <3>2, PromiseChange
  <2> QED
    BY <2>2, <2>3
<1> QED
  BY <1>2, <1>3, <1>4

LEMMA PromiseNext ==
  ASSUME Alone, BTypeOK, BuildInv, \A b \in Builders : ToldInv(b), [BNext]_bvars
  PROVE  [Promise!Next]_(Promise!vars)
<1> USE BuildersAssumption
<1>1. BuildInv' /\ ShotsInv'
  BY BuildNext DEF BuildInv
<1>2. ASSUME NEW b \in Builders, Builder(b) PROVE Promise!Next
  <2>1. ASSUME NEW n \in BOOLEAN, Begin(b, n) PROVE Promise!Next
    <3>1. mine[b] \in snaps => told[b] # {}
      BY <2>1 DEF Begin, ToldInv
    <3> QED
      BY <2>1, <3>1 DEF Begin, vars, Promise!Next, Promise!End
  <2>2. ASSUME SnapshotTaken(b) \/ RestoreWait(b) \/ DestroyWait(b) \/ KillBuilder(b)
        PROVE  Promise!Next
    <3>1. UNCHANGED <<rootfs, snaps, mine, restored>>
      BY <2>2 DEF SnapshotTaken, RestoreWait, DestroyWait, KillBuilder, End, vars
    <3>2. \/ told' = told
          \/ \E t \in Troubles : told' = [told EXCEPT ![b] = @ \cup {t}]
      BY <2>2 DEF SnapshotTaken, RestoreWait, DestroyWait, KillBuilder, Report, Troubles
    <3> QED
      BY <1>1, <3>1, <3>2, PromiseChange, PromiseTell
  <2>3. ASSUME \/ Boot(b) \/ Edit(b) \/ BuildEnds(b)
               \/ Fork(b, "snapshot", "snapshotWait", {})
               \/ Fork(b, "restore", "restoreWait", {"restore"})
               \/ Fork(b, "destroy", "destroyWait", {"destroy"})
        PROVE  Promise!Next
    <3>1. snaps' = snaps
      BY <2>3, PlanStepKeeps, ForkKeeps
    <3>2. mine' = mine /\ restored' = restored /\ told' = told
      BY <2>3 DEF Boot, Edit, buildVars, BuildEnds, Leave, End, Fork
    <3> QED
      BY <1>1, <3>1, <3>2, PromiseChange
  <2>4. ASSUME KillChild(b) PROVE Promise!Next
    <3>1. snaps' = snaps /\ mine' = mine /\ restored' = restored /\ told' = told
      BY <2>4, StepMoves DEF KillChild, buildVars
    <3> QED
      BY <1>1, <3>1, PromiseChange
  <2> QED
    BY <1>1, <1>2, <2>1, <2>2, <2>3, <2>4, PromiseChild DEF Builder
<1>3. ASSUME NEW u \in Procs \ Builders, User(u) PROVE Promise!Next
  <2>1. snaps' = snaps /\ mine' = mine /\ restored' = restored /\ told' = told
    BY <1>3, UserKeeps DEF User, buildVars
  <2> QED
    BY <1>1, <2>1, PromiseChange
<1>4. CASE (Environment \/ OtherEdit) /\ UNCHANGED buildVars
  <2>1. snaps' = snaps /\ mine' = mine /\ restored' = restored /\ told' = told
    BY <1>4, OthersKeep DEF buildVars
  <2> QED
    BY <1>1, <2>1, PromiseChange
<1>5. CASE UNCHANGED bvars
  BY <1>5 DEF bvars, vars, buildVars, Promise!vars
<1> QED
  BY <1>2, <1>3, <1>4, <1>5 DEF BNext

\* A build next to others who list and restore implements CleanBuild: it takes
\* one snapshot, the target goes back to that one only, and that one alone is
\* removed, once the target has gone back or the user knows that it did not; it
\* is not left without the user knowing (rpmbuild.go:320-353).
THEOREM CleanBuildTheorem ==
  ASSUME Alone
  PROVE  BSpec => CleanBuildPromise
<1>1. BInit => Promise!Init
  BY PromiseInit
<1>2. InductiveInv /\ [BNext]_bvars => [Promise!Next]_(Promise!vars)
  BY PromiseNext DEF InductiveInv
<1> QED
  BY <1>1, <1>2, InductiveInvTheorem, PTL
     DEF BSpec, CleanBuildPromise, Promise!Spec
=============================================================================
