-------------------------- MODULE SnapshotsProofs ---------------------------
(* What holds of the snapshot command for any number of processes, command  *)
(* lines, snapshots, and any faults, and of findSnapshot for any list.      *)
EXTENDS Snapshots, FindSnapshot, TLAPS

\* What a process does to its own state is well typed, wherever it goes.
LEMMA ControlType ==
  ASSUME TypeOK, NEW p \in Procs, NEW l \in Locations, NEW s \in {"ok", "err"},
         Goto(p, l) \/ Exit(p, s) \/ Return(p, s)
  PROVE  /\ pc' \in [Procs -> Locations]
         /\ cmd' \in [Procs -> CommandLines]
         /\ restart' \in [Procs -> BOOLEAN]
         /\ target' \in [Procs -> Snapshot \cup {NoSnap}]
         /\ todo' \in [Procs -> SUBSET Snapshot]
         /\ status' \in [Procs -> {"ok", "err"}]
<1>1. NoCommand \in CommandLines
  BY DEF NoCommand, CommandLines
<1>2. CASE Goto(p, l)
  BY <1>2 DEF TypeOK, Goto
<1>3. ASSUME Exit(p, s)
      PROVE  /\ pc' \in [Procs -> Locations]
             /\ cmd' \in [Procs -> CommandLines]
             /\ restart' \in [Procs -> BOOLEAN]
             /\ target' \in [Procs -> Snapshot \cup {NoSnap}]
             /\ todo' \in [Procs -> SUBSET Snapshot]
             /\ status' \in [Procs -> {"ok", "err"}]
  BY <1>1, <1>3 DEF TypeOK, Exit, Locations
<1>4. CASE Return(p, s)
  BY <1>3, <1>4 DEF TypeOK, Return, Locations
<1> QED
  BY <1>2, <1>3, <1>4

LEMMA TypeInit == Init => TypeOK
<1> SUFFICES ASSUME Init PROVE TypeOK
  OBVIOUS
<1>1. NoCommand \in CommandLines
  BY DEF NoCommand, CommandLines
<1>2. snaps \subseteq Snapshot
  BY InitialAssumption DEF Init, Snapshot
<1> QED
  BY <1>1, <1>2 DEF Init, TypeOK, Locations

\* Also a command line that another program puts together, see RpmBuild.
LEMMA LoadType ==
  ASSUME TypeOK, NEW p \in Procs, NEW c \in CommandLines, Load(p, c)
  PROVE  TypeOK'
<1>1. (lxc # "STOPPED" /\ c.flags # {"list"}) \in BOOLEAN
  OBVIOUS
<1> QED
  BY <1>1 DEF Load, TypeOK, targetVars, Locations

LEMMA StepType ==
  ASSUME TypeOK, NEW p \in Procs, LoadFails(p) \/ Step(p) \/ Kill(p)
  PROVE  TypeOK'
<1> USE TimeAssumption
<1>1. ASSUME LoadFails(p) PROVE TypeOK'
  BY <1>1, ControlType DEF LoadFails, TypeOK, targetVars, Locations
<1>2. ASSUME Stop(p) PROVE TypeOK'
  BY <1>2, ControlType DEF Stop, TypeOK, Locations
<1>3. ASSUME UsageExit(p) PROVE TypeOK'
  BY <1>3, ControlType DEF UsageExit, TypeOK, Locations, Incidents
<1>4. ASSUME CreateSnapshot(p) PROVE TypeOK'
  <2>1. clock' \in Nat
    BY <1>4 DEF CreateSnapshot, TypeOK
  <2>2. snaps' \subseteq Snapshot
    BY <1>4, <2>1 DEF CreateSnapshot, TypeOK, Snapshot
  <2> QED
    BY <1>4, <2>1, <2>2, ControlType DEF CreateSnapshot, TypeOK, Locations
<1>5. ASSUME \/ ListSnapshots(p) \/ SelectNothing(p)
             \/ Fails(p) \/ Discarded(p)
      PROVE TypeOK'
  <2>1. \E s \in {"ok", "err"} : Return(p, s)
    BY <1>5 DEF ListSnapshots, SelectNothing, Fails, Discarded
  <2>2. UNCHANGED targetVars
    BY <1>5 DEF ListSnapshots, SelectNothing, Fails, Discarded
  <2> QED
    BY <2>1, <2>2, ControlType DEF TypeOK, targetVars, Locations
<1>6. ASSUME NEW s \in snaps, Select(p, s) PROVE TypeOK'
  BY <1>6 DEF Select, TypeOK, targetVars, Locations
<1>7. ASSUME RestoreSnapshot(p) PROVE TypeOK'
  <2>1. rootfs' \in Nat
    BY <1>7 DEF RestoreSnapshot, TypeOK, Snapshot
  <2>2. pc' \in [Procs -> Locations]
    BY <1>7 DEF RestoreSnapshot, TypeOK, Locations
  <2> QED
    BY <1>7, <2>1, <2>2 DEF RestoreSnapshot, TypeOK
<1>8. ASSUME RestoreLoses(p) PROVE TypeOK'
  BY <1>8, ControlType DEF RestoreLoses, TypeOK, Locations, Incidents
<1>9. ASSUME FixTools(p) \/ OpenLm(p) \/ WriteLm(p) PROVE TypeOK'
  <2>1. lmFiles' \subseteq {"tools", "config", "partial"}
    BY <1>9 DEF FixTools, OpenLm, WriteLm, TypeOK
  <2> QED
    BY <1>9, <2>1, ControlType DEF FixTools, OpenLm, WriteLm, TypeOK, Locations
<1>10. ASSUME FinalizeFails(p) PROVE TypeOK'
  BY <1>10, ControlType DEF FinalizeFails, TypeOK, Locations, Incidents
<1>11. ASSUME Discard(p) PROVE TypeOK'
  BY <1>11 DEF Discard, TypeOK
<1>12. ASSUME DestroySnapshot(p) PROVE TypeOK'
  BY <1>12, ControlType DEF DestroySnapshot, TypeOK, Locations
<1>13. ASSUME Deferred(p) PROVE TypeOK'
  <2>1. status[p] \in {"ok", "err"}
    BY DEF TypeOK
  <2> QED
    BY <1>13, <2>1, ControlType DEF Deferred, TypeOK, Locations, Incidents
<1>14. ASSUME Kill(p) PROVE TypeOK'
  BY <1>14, ControlType DEF Kill, TypeOK, Locations, Incidents
<1> QED
  BY <1>1, <1>2, <1>3, <1>4, <1>5, <1>6, <1>7, <1>8, <1>9, <1>10, <1>11, <1>12,
     <1>13, <1>14 DEF Step

LEMMA TypeNext == TypeOK /\ [Next]_vars => TypeOK'
<1> SUFFICES ASSUME TypeOK, [Next]_vars PROVE TypeOK'
  OBVIOUS
<1>1. ASSUME NEW p \in Procs, NEW c \in Commands, Load(p, c) PROVE TypeOK'
  BY <1>1, LoadType, CommandsAssumption
<1>2. CASE Environment
  <2>1. CASE OtherBoot
    BY <2>1 DEF OtherBoot, TypeOK, procVars
  <2>2. CASE Tick
    BY <2>2 DEF Tick, TypeOK, procVars
  <2> QED
    BY <1>2, <2>1, <2>2 DEF Environment
<1>3. CASE UNCHANGED vars
  BY <1>3 DEF vars, TypeOK
<1> QED
  BY <1>1, <1>2, <1>3, StepType DEF Next

\* The variables of the target and of every process keep their types.
THEOREM TypeCorrect == Spec => []TypeOK
BY TypeInit, TypeNext, PTL DEF Spec
-----------------------------------------------------------------------------
(* config-lm comes back.                                                    *)

\* Only the process itself moves, so the others keep their place.
LEMMA ControlMoves ==
  ASSUME TypeOK, NEW p \in Procs, NEW l \in Locations, NEW s \in {"ok", "err"},
         Goto(p, l) \/ Exit(p, s) \/ Return(p, s)
  PROVE  /\ \A q \in Procs \ {p} : pc'[q] = pc[q]
         /\ Goto(p, l) => pc'[p] = l
BY DEF TypeOK, Goto, Exit, Return

LEMMA ConfigLmNext == TypeOK /\ ConfigLmInv /\ [Next]_vars => ConfigLmInv'
<1> SUFFICES ASSUME TypeOK, ConfigLmInv, [Next]_vars PROVE ConfigLmInv'
  OBVIOUS
\* A step that leaves the files alone, adds to the incidents and moves no
\* process out of FinalizeContainer.
<1>1. ASSUME NEW p \in Procs, pc[p] \notin {"tools", "openLm", "writeLm"},
             \A q \in Procs \ {p} : pc'[q] = pc[q],
             lmFiles' = lmFiles, incidents \subseteq incidents'
      PROVE ConfigLmInv'
  BY <1>1 DEF ConfigLmInv
<1>2. ASSUME NEW p \in Procs, NEW c \in Commands, Load(p, c) PROVE ConfigLmInv'
  BY <1>2, <1>1 DEF Load, targetVars, TypeOK
<1>3. ASSUME NEW p \in Procs,
             \/ LoadFails(p) \/ Stop(p) \/ UsageExit(p) \/ CreateSnapshot(p)
             \/ ListSnapshots(p) \/ SelectNothing(p) \/ Fails(p)
             \/ Discarded(p) \/ DestroySnapshot(p) \/ Deferred(p)
      PROVE ConfigLmInv'
  <2>1. \E l \in Locations, s \in {"ok", "err"} : Goto(p, l) \/ Exit(p, s) \/ Return(p, s)
    BY <1>3 DEF LoadFails, Stop, UsageExit, CreateSnapshot, ListSnapshots,
       SelectNothing, Fails, Discarded, DestroySnapshot, Deferred, Locations, TypeOK
  <2>2. pc[p] \notin {"tools", "openLm", "writeLm"}
    BY <1>3 DEF LoadFails, Stop, UsageExit, CreateSnapshot, ListSnapshots,
       SelectNothing, Fails, Discarded, DestroySnapshot, Deferred
  <2>3. lmFiles' = lmFiles /\ incidents \subseteq incidents'
    BY <1>3 DEF LoadFails, Stop, UsageExit, CreateSnapshot, ListSnapshots,
       SelectNothing, Fails, Discarded, DestroySnapshot, Deferred, targetVars
  <2> QED
    BY <1>1, <2>1, <2>2, <2>3, ControlMoves
<1>4. ASSUME NEW p \in Procs, NEW s \in snaps, Select(p, s) PROVE ConfigLmInv'
  BY <1>4, <1>1 DEF Select, targetVars, TypeOK
<1>5. ASSUME NEW p \in Procs, RestoreSnapshot(p) PROVE ConfigLmInv'
  <2>1. pc'[p] = "tools"
    BY <1>5 DEF RestoreSnapshot
  <2> QED
    BY <2>1 DEF ConfigLmInv
<1>6. ASSUME NEW p \in Procs, RestoreLoses(p) \/ FinalizeFails(p) \/ Kill(p)
      PROVE ConfigLmInv'
  BY <1>6 DEF RestoreLoses, FinalizeFails, Kill, ConfigLmInv
<1>7. ASSUME NEW p \in Procs, FixTools(p) PROVE ConfigLmInv'
  <2>1. pc'[p] = "openLm" /\ \A q \in Procs \ {p} : pc'[q] = pc[q]
    BY <1>7, ControlMoves DEF FixTools, Locations
  <2> QED
    BY <1>7, <2>1 DEF FixTools, ConfigLmInv
<1>8. ASSUME NEW p \in Procs, OpenLm(p) PROVE ConfigLmInv'
  <2>1. pc'[p] = "writeLm"
    BY <1>8, ControlMoves DEF OpenLm, Locations
  <2> QED
    BY <1>8, <2>1 DEF OpenLm, ConfigLmInv
<1>9. ASSUME NEW p \in Procs, WriteLm(p) PROVE ConfigLmInv'
  <2>1. pc[p] \in {"writeLm", "writeGone"} /\ \A q \in Procs \ {p} : pc'[q] = pc[q]
    BY <1>9, ControlMoves DEF WriteLm, Locations
  <2>2. CASE pc[p] = "writeLm" /\ "partial" \in lmFiles
    BY <1>9, <2>2 DEF WriteLm, ConfigLmInv
  <2>3. CASE pc[p] = "writeGone" \/ "partial" \notin lmFiles
    BY <1>9, <2>1, <2>3 DEF WriteLm, ConfigLmInv
  <2> QED
    BY <2>1, <2>2, <2>3
<1>10. ASSUME NEW p \in Procs, Discard(p) PROVE ConfigLmInv'
  BY <1>10, <1>1 DEF Discard
<1>11. CASE Environment
  BY <1>11 DEF Environment, OtherBoot, Tick, ConfigLmInv, procVars
<1>12. CASE UNCHANGED vars
  BY <1>12 DEF vars, ConfigLmInv
<1> QED
  BY <1>2, <1>3, <1>4, <1>5, <1>6, <1>7, <1>8, <1>9, <1>10, <1>11, <1>12 DEF Next, Step

\* After any number of restores, one after the other or at once, config-lm is
\* there or about to be written, if nothing was killed, lost or failed to be
\* written (snapshot.go:131).
THEOREM ConfigLmTheorem == Spec => []ConfigLmRecreated
<1>1. Init => ConfigLmInv
  BY DEF Init, ConfigLmInv
<1>2. ConfigLmInv => ConfigLmRecreated
  BY DEF ConfigLmInv, ConfigLmRecreated
<1> QED
  BY <1>1, <1>2, TypeInit, TypeNext, ConfigLmNext, PTL DEF Spec

\* Once it is missing and no command is on its way, no command will ever load
\* the target again (snapshot.go:63).
THEOREM LostConfigTheorem == Spec => LostConfigIsFinal
<1>1. ASSUME TypeOK, [Next]_vars, "config" \notin lmFiles,
             \A p \in Procs : pc[p] = "idle"
      PROVE  "config" \notin lmFiles' /\ \A p \in Procs : pc'[p] = "idle"
  <2>1. ASSUME NEW p \in Procs, LoadFails(p)
        PROVE  "config" \notin lmFiles' /\ \A q \in Procs : pc'[q] = "idle"
    BY <1>1, <2>1 DEF LoadFails, Exit, targetVars, TypeOK
  <2>2. ASSUME NEW p \in Procs
        PROVE  ~Step(p) /\ ~Kill(p) /\ \A c \in Commands : ~Load(p, c)
    BY <1>1 DEF Step, Kill, Load, Loadable, Stop, UsageExit, CreateSnapshot,
       ListSnapshots, Select, SelectNothing, Fails, RestoreSnapshot, RestoreLoses,
       FixTools, OpenLm, WriteLm, FinalizeFails, Discard, Discarded,
       DestroySnapshot, Deferred
  <2>3. CASE Environment
    BY <1>1, <2>3 DEF Environment, OtherBoot, Tick, procVars
  <2>4. CASE UNCHANGED vars
    BY <1>1, <2>4 DEF vars
  <2> QED
    BY <1>1, <2>1, <2>2, <2>3, <2>4 DEF Next
<1>2. TypeOK /\ [Next]_vars =>
        [("config" \notin lmFiles /\ \A p \in Procs : pc[p] = "idle")
          => ("config" \notin lmFiles' /\ \A p \in Procs : pc'[p] = "idle")]_vars
  BY <1>1
<1> QED
  BY <1>2, TypeInit, TypeNext, PTL DEF Spec, LostConfigIsFinal

-----------------------------------------------------------------------------
(* Resets keep the first taken snapshot.                                    *)

\* The command lines of OldestSurvives, and snapshots of different seconds.
TakesAndResets ==
  /\ \A c \in Commands : c.flags \in {{}, {"reset"}} /\ c.name = NoName
  /\ CopyTime > 0
  /\ \A S \in InitialSnaps : \A s, t \in S : s = t

LEMMA OldestInit == TakesAndResets /\ Init => OldestInv
BY InitialAssumption, TimeAssumption DEF TakesAndResets, Init, OldestInv, NoCommand

\* Steps that keep the snapshots and every target.
LEMMA OldestKept ==
  ASSUME TypeOK, OldestInv, snaps' = snaps, clock' = clock,
         \A q \in Procs :
           /\ pc'[q] # "destroy"
           /\ cmd'[q] \in {cmd[q], NoCommand}
           /\ \/ target'[q] = target[q] /\ todo'[q] = todo[q]
              \/ target'[q] = NoSnap /\ todo'[q] = {}
  PROVE  OldestInv'
BY DEF OldestInv, NoCommand, Oldest

LEMMA OldestControl ==
  ASSUME TypeOK, OldestInv, NEW p \in Procs, NEW l \in Locations, l # "destroy",
         NEW s \in {"ok", "err"}, Goto(p, l) \/ Exit(p, s) \/ Return(p, s)
  PROVE  \A q \in Procs :
           /\ pc'[q] # "destroy"
           /\ cmd'[q] \in {cmd[q], NoCommand}
           /\ \/ target'[q] = target[q] /\ todo'[q] = todo[q]
              \/ target'[q] = NoSnap /\ todo'[q] = {}
BY DEF TypeOK, OldestInv, Goto, Exit, Return

\* A newer snapshot does not become the oldest one, if there is one.
LEMMA OldestCreate ==
  ASSUME TakesAndResets, TypeOK, OldestInv, NEW p \in Procs, CreateSnapshot(p)
  PROVE  OldestInv'
<1> USE TimeAssumption
<1>1. PICK n \in SnapNames \ {s.name : s \in snaps} :
        snaps' = snaps \cup {[name |-> n, time |-> clock', root |-> rootfs]}
  BY DEF CreateSnapshot
<1>2. clock' = clock + CopyTime /\ clock' \in Nat /\ clock' > clock
  BY DEF CreateSnapshot, TakesAndResets, TypeOK
<1>3. \A s \in snaps : s.time \in Nat /\ s.time < clock' /\ s.name # n
  BY <1>1, <1>2 DEF OldestInv, TypeOK, Snapshot
<1>4. \A q \in Procs :
        /\ pc'[q] # "destroy"
        /\ cmd'[q] \in {cmd[q], NoCommand}
        /\ \/ target'[q] = target[q] /\ todo'[q] = todo[q]
           \/ target'[q] = NoSnap /\ todo'[q] = {}
  BY OldestControl DEF CreateSnapshot, Locations
<1>5. Oldest(snaps) \subseteq Oldest(snaps')
  BY <1>1, <1>2, <1>3 DEF Oldest
<1>6. \A s \in snaps' : s.time <= clock'
  BY <1>1, <1>2, <1>3
<1>7. \A s, t \in snaps' : (s.name = t.name \/ s.time = t.time) => s = t
  BY <1>1, <1>2, <1>3 DEF OldestInv
<1> QED
  BY <1>4, <1>5, <1>6, <1>7 DEF OldestInv, NoCommand, Oldest

\* What reset removes has another name than its target, the oldest snapshot.
LEMMA OldestDiscard ==
  ASSUME TypeOK, OldestInv, NEW p \in Procs, Discard(p)
  PROVE  OldestInv' /\ Oldest(snaps) \subseteq snaps'
<1>1. PICK s \in todo[p] :
        /\ snaps' \in {snaps, {t \in snaps : t.name # s.name}}
        /\ todo' = [todo EXCEPT ![p] = @ \ {s}]
  BY DEF Discard
<1>2. target[p] \in Oldest(snaps) /\ s.name # target[p].name
  BY <1>1 DEF OldestInv
<1>3. \A t \in Oldest(snaps) : t = target[p]
  <2> SUFFICES ASSUME NEW t \in Oldest(snaps) PROVE t = target[p]
    OBVIOUS
  <2>1. t \in snaps /\ target[p] \in snaps /\ t.time \in Nat /\ target[p].time \in Nat
    BY <1>2 DEF Oldest, TypeOK, Snapshot
  <2>2. t.time = target[p].time
    BY <1>2, <2>1 DEF Oldest
  <2> QED
    BY <2>1, <2>2 DEF OldestInv
<1>4. snaps' \subseteq snaps /\ Oldest(snaps) \subseteq snaps'
  BY <1>1, <1>2, <1>3 DEF Oldest
<1>5. Oldest(snaps) \subseteq Oldest(snaps')
  BY <1>4 DEF Oldest
<1>6. /\ pc' = pc /\ cmd' = cmd /\ target' = target /\ clock' = clock
      /\ \A q \in Procs : todo'[q] \subseteq todo[q]
  BY <1>1 DEF Discard, TypeOK
<1> QED
  BY <1>4, <1>5, <1>6 DEF OldestInv, Oldest

LEMMA OldestNext ==
  TakesAndResets /\ TypeOK /\ OldestInv /\ [Next]_vars
    => OldestInv' /\ Oldest(snaps) \subseteq snaps'
<1> SUFFICES ASSUME TakesAndResets, TypeOK, OldestInv, [Next]_vars
             PROVE  OldestInv' /\ Oldest(snaps) \subseteq snaps'
  OBVIOUS
<1>1. ASSUME snaps' = snaps PROVE Oldest(snaps) \subseteq snaps'
  BY <1>1 DEF Oldest
<1>2. ASSUME NEW p \in Procs, NEW c \in Commands, Load(p, c)
      PROVE  OldestInv' /\ snaps' = snaps
  BY <1>2 DEF Load, targetVars, OldestInv, TakesAndResets, TypeOK, Oldest
<1>3. ASSUME NEW p \in Procs,
             \/ LoadFails(p) \/ Stop(p) \/ UsageExit(p)
             \/ ListSnapshots(p) \/ SelectNothing(p) \/ Fails(p)
             \/ RestoreLoses(p) \/ FixTools(p) \/ OpenLm(p) \/ WriteLm(p)
             \/ FinalizeFails(p) \/ Discarded(p) \/ Deferred(p) \/ Kill(p)
      PROVE  OldestInv' /\ snaps' = snaps
  <2>1. \E l \in Locations \ {"destroy"}, s \in {"ok", "err"} :
          Goto(p, l) \/ Exit(p, s) \/ Return(p, s)
    BY <1>3 DEF LoadFails, Stop, UsageExit, ListSnapshots, SelectNothing, Fails,
       RestoreSnapshot, RestoreLoses, FixTools, OpenLm, WriteLm, FinalizeFails,
       Discarded, Deferred, Kill, Locations, TypeOK
  <2>2. snaps' = snaps /\ clock' = clock
    BY <1>3 DEF LoadFails, Stop, UsageExit, ListSnapshots, SelectNothing, Fails,
       RestoreSnapshot, RestoreLoses, FixTools, OpenLm, WriteLm, FinalizeFails,
       Discarded, Deferred, Kill, targetVars
  <2> QED
    BY <2>1, <2>2, OldestControl, OldestKept
<1>4. ASSUME NEW p \in Procs, NEW s \in snaps, Select(p, s)
      PROVE  OldestInv' /\ snaps' = snaps
  <2>1. cmd[p].flags = {"reset"} /\ cmd[p].name = NoName
    BY <1>4 DEF Select, OldestInv
  <2>2. s \in Oldest(snaps) /\ \A t \in snaps \ {s} : t.name # s.name
    BY <1>4, <2>1 DEF Select, Candidates, OldestInv
  <2>3. s # NoSnap
    BY NoneAssumption DEF TypeOK, Snapshot
  <2>4. /\ target' = [target EXCEPT ![p] = s] /\ todo' = [todo EXCEPT ![p] = snaps \ {s}]
        /\ pc' = [pc EXCEPT ![p] = "restore"] /\ cmd' = cmd
        /\ snaps' = snaps /\ clock' = clock
    BY <1>4, <2>1 DEF Select, targetVars
  <2> QED
    BY <2>2, <2>3, <2>4 DEF OldestInv, TypeOK, Oldest
<1>5. ASSUME NEW p \in Procs, CreateSnapshot(p)
      PROVE  OldestInv' /\ Oldest(snaps) \subseteq snaps'
  BY <1>5, OldestCreate DEF CreateSnapshot, Oldest
<1>6. ASSUME NEW p \in Procs PROVE ~DestroySnapshot(p)
  BY DEF DestroySnapshot, OldestInv
<1>7. CASE Environment
  <2>1. /\ snaps' = snaps /\ clock <= clock' /\ clock' \in Nat
        /\ UNCHANGED <<pc, cmd, target, todo>>
    BY <1>7 DEF Environment, OtherBoot, Tick, procVars, TypeOK
  <2> QED
    BY <1>1, <2>1 DEF OldestInv, Oldest, TypeOK, Snapshot
<1>8. CASE UNCHANGED vars
  BY <1>1, <1>8 DEF vars, OldestInv, Oldest
<1>9. ASSUME NEW p \in Procs, RestoreSnapshot(p) PROVE OldestInv' /\ snaps' = snaps
  <2>1. /\ \A q \in Procs : pc'[q] # "destroy"
        /\ cmd' = cmd /\ target' = target /\ todo' = todo
        /\ snaps' = snaps /\ clock' = clock
    BY <1>9 DEF RestoreSnapshot, OldestInv
  <2> QED
    BY <2>1, OldestKept
<1> QED
  BY <1>1, <1>2, <1>3, <1>4, <1>5, <1>6, <1>7, <1>8, <1>9, OldestDiscard DEF Next, Step

\* In the commands of the theorem below, a reset's target is the oldest
\* snapshot, of one name and one second, from its choice on.
THEOREM OldestInvTheorem ==
  ASSUME TakesAndResets
  PROVE  Spec => []OldestInv
<1>1. TypeOK /\ OldestInv /\ [Next]_vars => OldestInv'
  BY OldestNext
<1>2. Init => OldestInv
  BY OldestInit
<1> QED
  BY <1>1, <1>2, TypeInit, TypeNext, PTL DEF Spec

\* "Reset container to first taken snapshot, discarding all others"
\* (snapshot.go:49): where snapshots are only taken and reset, no two within
\* one second, no interleaving of resets removes the oldest one.
THEOREM OldestTheorem ==
  ASSUME TakesAndResets
  PROVE  Spec => OldestSurvives
<1>1. TypeOK /\ OldestInv /\ [Next]_vars => [Oldest(snaps) \subseteq snaps']_vars
  BY OldestNext
<1> QED
  BY <1>1, OldestInvTheorem, TypeInit, TypeNext, PTL DEF Spec, OldestSurvives

-----------------------------------------------------------------------------
(* findSnapshot is right for a list of any length.                          *)

LEMMA ScanInitInv == AnyLists /\ ScanInit => ScanInv
<1> SUFFICES ASSUME AnyLists, ScanInit PROVE ScanInv
  OBVIOUS
<1>1. snapshots \in Seq(Nat \cup {Unparsable}) /\ Len(snapshots) \in Nat
  BY DEF AnyLists, ScanInit
<1>2. ScanTypeOK
  <2>1. err \in BOOLEAN
    BY DEF ScanInit
  <2>2. pos \in 1 .. Len(snapshots) + 1 /\ currSnap \in 0 .. Len(snapshots)
    BY <1>1 DEF ScanInit
  <2> QED
    BY <2>1, <2>2 DEF ScanInit, ScanTypeOK
<1>3. /\ pos = 1 /\ currSnap = 0 /\ err = FALSE
      /\ \A j \in 1 .. pos - 1 : FALSE
  BY DEF ScanInit
<1> QED
  BY <1>2, <1>3 DEF ScanInv

LEMMA ScanNextInv == AnyLists /\ ScanInv /\ [ScanNext]_scanVars => ScanInv'
<1> SUFFICES ASSUME AnyLists, ScanInv, [ScanNext]_scanVars PROVE ScanInv'
  OBVIOUS
<1> USE DEF AnyLists, ScanInv, ScanTypeOK, Scanning
<1>1. snapshots \in Seq(Nat \cup {Unparsable}) /\ Len(snapshots) \in Nat
  OBVIOUS
<1>2. CASE ParseFails
  BY <1>1, <1>2 DEF ParseFails
<1>3. CASE Take
  <2>1. /\ pos \in 1 .. Len(snapshots) /\ snapshots[pos] \in Nat
        /\ UNCHANGED <<snapshots, mode, err>>
        /\ pos' = pos + 1 /\ currSnap' = pos /\ currTime' = snapshots[pos]
    BY <1>1, <1>3 DEF Take
  <2>2. ScanTypeOK'
    BY <1>1, <2>1
  <2>3. ASSUME NEW j \in 1 .. pos
        PROVE  /\ snapshots[j] # Unparsable
               /\ ~Beats(snapshots[j], snapshots[pos])
               /\ j < pos => Beats(snapshots[pos], snapshots[j])
    <3>1. CASE j = pos
      BY <1>1, <2>1, <3>1 DEF Beats
    <3>2. CASE j < pos
      <4>1. /\ currSnap # 0 /\ currSnap \in 1 .. pos - 1 /\ currTime = snapshots[currSnap]
            /\ j \in 1 .. pos - 1 /\ j \in 1 .. Len(snapshots)
        BY <1>1, <1>3, <3>2 DEF Take
      <4>2. snapshots[j] # Unparsable /\ ~Beats(snapshots[j], currTime)
        BY <1>1, <1>3, <4>1 DEF Take
      <4>3. Beats(snapshots[pos], currTime)
        BY <1>3, <4>1 DEF Take
      <4>4. snapshots[j] \in Nat /\ currTime \in Nat
        BY <1>1, <4>1, <4>2
      <4> QED
        BY <2>1, <3>2, <4>2, <4>3, <4>4 DEF Beats
    <3> QED
      BY <2>1, <3>1, <3>2
  <2> QED
    BY <1>1, <1>3, <2>1, <2>2, <2>3 DEF Take, Beats
<1>4. CASE Skip
  <2>1. /\ pos \in 1 .. Len(snapshots) /\ snapshots[pos] \in Nat
        /\ UNCHANGED <<snapshots, mode, currSnap, currTime, err>>
        /\ pos' = pos + 1 /\ currSnap # 0 /\ ~Beats(snapshots[pos], currTime)
    BY <1>1, <1>4 DEF Skip
  <2> QED
    BY <1>1, <1>4, <2>1 DEF Skip, Beats
<1>5. CASE UNCHANGED scanVars
  BY <1>5 DEF scanVars, Beats
<1> QED
  BY <1>2, <1>3, <1>4, <1>5 DEF ScanNext

\* The invariant of the scan says of a finished one what the callers rely on.
LEMMA ScanInvFirstExtremal == AnyLists /\ ScanInv => FirstExtremal
<1> SUFFICES ASSUME AnyLists, ScanInv, Returned PROVE FirstExtremal
  BY DEF FirstExtremal
<1> USE DEF AnyLists, ScanInv, ScanTypeOK, Scanning, Returned
<1>1. snapshots \in Seq(Nat \cup {Unparsable}) /\ Len(snapshots) \in Nat
  OBVIOUS
<1>2. CASE err
  BY <1>2 DEF FirstExtremal
<1>3. CASE ~err
  <2>1. pos = Len(snapshots) + 1
    BY <1>1, <1>3
  <2>2. CASE currSnap = 0
    BY <1>1, <1>3, <2>1, <2>2 DEF FirstExtremal
  <2>3. CASE currSnap # 0
    BY <1>1, <1>3, <2>1, <2>3 DEF FirstExtremal
  <2> QED
    BY <2>2, <2>3
<1> QED
  BY <1>2, <1>3

\* findSnapshot returns the first extremal entry of every list, -1 for the
\* empty one, and an error when it meets an unparsable timestamp
\* (snapshot.go:215-250).
THEOREM FindSnapshotCorrect ==
  ASSUME AnyLists
  PROVE  ScanSpec => []FirstExtremal
<1>1. ScanInit => ScanInv
  BY ScanInitInv
<1>2. ScanInv /\ [ScanNext]_scanVars => ScanInv'
  BY ScanNextInv
<1>3. ScanInv => FirstExtremal
  BY ScanInvFirstExtremal
<1> QED
  BY <1>1, <1>2, <1>3, PTL DEF ScanSpec
=============================================================================
