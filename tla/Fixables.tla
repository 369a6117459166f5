------------------------------ MODULE Fixables ------------------------------
(***************************************************************************)
(* The fixables (fixables/devices.go, fixables/tools.go) as autofix runs   *)
(* them and initialized checks them: for all targets first the mounts of   *)
(* devices that the host no longer has, then the links of the tools.       *)
(* Several of these commands run at once, while devices come and go and    *)
(* targets are half made or half restored.                                 *)
(*                                                                         *)
(* A line of a container's configuration file is a record: what kind it is *)
(* and the devices whose path occurs in it, of which a mount has one as    *)
(* its source.  Lines take equal room in the file.  The links of a         *)
(* container are one link.                                                 *)
(***************************************************************************)
EXTENDS Naturals, Sequences, SequencesExt

CONSTANTS Procs, Targets, Devices,
          NoDevice,     \* the source of a line that is no mount of a device
          NoTarget,
          Config,       \* the configuration files to start with
          MayFail,      \* steps that may fail: "read", "create", "unwritten",
                        \* "unlink", "symlink" and "killed"
          MaxChanges    \* bound on what happens to devices and targets

\* The path of a mount's source is in its line.
Line == {l \in [kind : {"mount", "tmpfs", "other"}, source : Devices \cup {NoDevice},
                names : SUBSET Devices] :
           l.kind = "mount" => l.source \in l.names}

ASSUME ConfigAssumption == Config \in [Targets -> Seq(Line)]
ASSUME FailAssumption ==
  MayFail \subseteq {"read", "create", "unwritten", "unlink", "symlink", "killed"}

VARIABLES file,         \* the configuration files
          link,         \* the link of each target: "ok", "wrong", "missing"
          whole,        \* the targets with a config-lm
          present,      \* the devices of the host
          changes,      \* what has happened to whole and present so far
          dropped,      \* history: the devices taken out of each file
          incidents     \* history: "rewrite" (one was cut off by a kill, was not
                        \* written, or overlapped another one of the same
                        \* file), "two" (more than one broken mount at once),
                        \* "link" (an old one not removed, or none made then)

VARIABLES pc,
          fix,          \* autofix, and not initialized
          loaded,       \* the configurations in the memory of the process
          todo,         \* targets left to look at
          cur,          \* the target at hand
          broken,       \* brokenDevices
          conf,         \* what was read of the file
          ok,           \* the last command reported no error
          gone          \* history: devices that were never there since its start

hostVars == <<present, whole, changes>>
targetVars == <<file, link, dropped, incidents>>
vars == <<file, link, whole, present, changes, dropped, incidents,
          pc, fix, loaded, todo, cur, broken, conf, ok, gone>>

Init ==
  /\ file = Config
  /\ link \in [Targets -> {"ok", "wrong"}]
  /\ whole = Targets
  /\ present \in SUBSET Devices
  /\ changes = 0
  /\ dropped = [t \in Targets |-> {}] /\ incidents = {}
  /\ pc = [p \in Procs |-> "idle"]
  /\ fix = [p \in Procs |-> FALSE]
  /\ loaded = [p \in Procs |-> Config]
  /\ todo = [p \in Procs |-> {}]
  /\ cur = [p \in Procs |-> NoTarget]
  /\ broken = [p \in Procs |-> << >>] /\ conf = [p \in Procs |-> << >>]
  /\ ok = [p \in Procs |-> FALSE]
  /\ gone = [p \in Procs |-> {}]

-----------------------------------------------------------------------------
Goto(p, l) == pc' = [pc EXCEPT ![p] = l]

\* What a command has read is forgotten with it.
Exit(p, success) ==
  /\ Goto(p, "idle")
  /\ ok' = [ok EXCEPT ![p] = success]
  /\ fix' = [fix EXCEPT ![p] = FALSE]
  /\ gone' = [gone EXCEPT ![p] = IF success THEN @ ELSE {}]
  /\ loaded' = [loaded EXCEPT ![p] = Config]
  /\ todo' = [todo EXCEPT ![p] = {}] /\ cur' = [cur EXCEPT ![p] = NoTarget]
  /\ broken' = [broken EXCEPT ![p] = << >>] /\ conf' = [conf EXCEPT ![p] = << >>]

Begin(p, f) ==
  /\ pc[p] = "idle"
  /\ Goto(p, "findDevices")
  /\ fix' = [fix EXCEPT ![p] = f]
  /\ ok' = [ok EXCEPT ![p] = FALSE]
  /\ gone' = [gone EXCEPT ![p] = Devices \ present]
  /\ UNCHANGED <<loaded, todo, cur, broken, conf>>
  /\ UNCHANGED hostVars /\ UNCHANGED targetVars

\* Another process is between the read of a file and the write of it.
Changing(p, t) == \E q \in Procs \ {p} : cur[q] = t /\ pc[q] \in {"create", "write"}
Writing(p, t) == \E q \in Procs \ {p} : cur[q] = t /\ pc[q] = "write"

\* mutant: a target that does not load is left out of the list
FindWhole(p) ==
  /\ pc[p] \in {"findDevices", "findTools"}
  /\ Goto(p, IF pc[p] = "findDevices" THEN "device" ELSE "tool")
  /\ loaded' = [loaded EXCEPT ![p] = IF pc[p] = "findDevices" THEN file ELSE @]
  /\ todo' = [todo EXCEPT ![p] = whole]
  /\ incidents' = IF \E t \in Targets : Writing(p, t)
                  THEN incidents \cup {"rewrite"} ELSE incidents
  /\ UNCHANGED <<fix, cur, broken, conf, ok, gone, file, link, dropped>>
  /\ UNCHANGED hostVars

\* FindLMTargets: all targets and their configurations (of no use to the tools)
\* are loaded ...
FindLMTargets(p) ==
  /\ pc[p] \in {"findDevices", "findTools"} /\ whole = Targets
  /\ Goto(p, IF pc[p] = "findDevices" THEN "device" ELSE "tool")
  /\ loaded' = [loaded EXCEPT ![p] = IF pc[p] = "findDevices" THEN file ELSE @]
  /\ todo' = [todo EXCEPT ![p] = Targets]
  /\ incidents' = IF \E t \in Targets : Writing(p, t)
                  THEN incidents \cup {"rewrite"} ELSE incidents
  /\ UNCHANGED <<fix, cur, broken, conf, ok, gone, file, link, dropped>>
  /\ UNCHANGED hostVars

\* ... and one without a config-lm fails them all.
FindFails(p) ==
  /\ pc[p] \in {"findDevices", "findTools"} /\ whole # Targets
  /\ Exit(p, FALSE)
  /\ UNCHANGED hostVars /\ UNCHANGED targetVars

-----------------------------------------------------------------------------
(* DevicesFixable.run                                                       *)

\* mutant: the type of the mount is not looked at
BrokenMountsOfAny(lines) ==
  FlattenSeq([i \in DOMAIN lines |->
    IF lines[i].kind # "other" /\ lines[i].source \notin present
    THEN <<lines[i].source>> ELSE << >>])

\* The sources of the mounts that are missing.
BrokenMounts(lines) ==
  FlattenSeq([i \in DOMAIN lines |->
    IF lines[i].kind = "mount" /\ lines[i].source \notin present
    THEN <<lines[i].source>> ELSE << >>])

\* The mounts of the loaded configuration are looked for on the host.
CheckMounts(p, t) ==
  LET b == BrokenMounts(loaded[p][t])
  IN  /\ pc[p] = "device" /\ t \in todo[p]
      /\ todo' = [todo EXCEPT ![p] = @ \ {t}]
      /\ b = << >> \/ fix[p]
      /\ IF b = << >>
         THEN UNCHANGED <<pc, cur, broken, incidents>>
         ELSE /\ Goto(p, "read")
              /\ cur' = [cur EXCEPT ![p] = t]
              /\ broken' = [broken EXCEPT ![p] = b]
              /\ incidents' = IF Len(b) > 1 THEN incidents \cup {"two"} ELSE incidents
      /\ UNCHANGED <<fix, loaded, conf, ok, gone, file, link, dropped>>
      /\ UNCHANGED hostVars

\* The check of initialized ends at the first target with a broken mount.
CheckFails(p, t) ==
  /\ pc[p] = "device" /\ t \in todo[p] /\ ~fix[p]
  /\ BrokenMounts(loaded[p][t]) # << >>
  /\ Exit(p, FALSE)
  /\ UNCHANGED hostVars /\ UNCHANGED targetVars

ReadFile(p) ==
  /\ pc[p] = "read"
  /\ conf' = [conf EXCEPT ![p] = file[cur[p]]]
  /\ Goto(p, "create")
  /\ incidents' = IF Writing(p, cur[p]) THEN incidents \cup {"rewrite"} ELSE incidents
  /\ UNCHANGED <<fix, loaded, todo, cur, broken, ok, gone, file, link, dropped>>
  /\ UNCHANGED hostVars

\* mutant: the file is read after it was opened for writing
CreateFirst(p) ==
  /\ pc[p] = "create"
  /\ file' = [file EXCEPT ![cur[p]] = << >>]
  /\ conf' = [conf EXCEPT ![p] = << >>]
  /\ Goto(p, "write")
  /\ UNCHANGED <<fix, loaded, todo, cur, broken, ok, gone, link, dropped, incidents>>
  /\ UNCHANGED hostVars

\* os.Create empties the file.
CreateFile(p) ==
  /\ pc[p] = "create"
  /\ file' = [file EXCEPT ![cur[p]] = << >>]
  /\ Goto(p, "write")
  /\ incidents' = IF Changing(p, cur[p]) THEN incidents \cup {"rewrite"} ELSE incidents
  /\ UNCHANGED <<fix, loaded, todo, cur, broken, conf, ok, gone, link, dropped>>
  /\ UNCHANGED hostVars

\* One of the two fails, and the error is returned.
RewriteFails(p) ==
  /\ pc[p] \in {"read", "create"} \cap MayFail
  /\ Exit(p, FALSE)
  /\ UNCHANGED hostVars /\ UNCHANGED targetVars

\* A line is written once for every broken device whose path is not in it.
Copies(l, b) ==
  FlattenSeq([i \in DOMAIN b |-> IF b[i] \in l.names THEN << >> ELSE <<l>>])
Rewritten(lines, b) == FlattenSeq([i \in DOMAIN lines |-> Copies(lines[i], b)])

\* Written from the beginning of the file over what is there.
WrittenOver(old, new) == new \o SubSeq(old, Len(new) + 1, Len(old))

\* The writer is flushed; its errors are not looked at.
WriteFile(p) ==
  /\ pc[p] = "write"
  /\ \/ /\ file' = [file EXCEPT ![cur[p]] = WrittenOver(@, Rewritten(conf[p], broken[p]))]
        /\ dropped' = [dropped EXCEPT ![cur[p]] = @ \cup ToSet(broken[p])]
        /\ UNCHANGED incidents
     \/ /\ "unwritten" \in MayFail
        /\ incidents' = incidents \cup {"rewrite"}
        /\ UNCHANGED <<file, dropped>>
  /\ Goto(p, "device")
  /\ cur' = [cur EXCEPT ![p] = NoTarget]
  /\ broken' = [broken EXCEPT ![p] = << >>] /\ conf' = [conf EXCEPT ![p] = << >>]
  /\ UNCHANGED <<fix, loaded, todo, ok, gone, link>>
  /\ UNCHANGED hostVars

DevicesDone(p) ==
  /\ pc[p] = "device" /\ todo[p] = {}
  /\ Goto(p, "findTools")
  /\ loaded' = [loaded EXCEPT ![p] = Config]
  /\ UNCHANGED <<fix, todo, cur, broken, conf, ok, gone>>
  /\ UNCHANGED hostVars /\ UNCHANGED targetVars

-----------------------------------------------------------------------------
(* ToolsFixable.run, which does not look at doFix: Check and Fix are one.   *)

\* mutant: any link counts as the tool's
CheckLinkThere(p, t) ==
  /\ pc[p] = "tool" /\ t \in todo[p]
  /\ todo' = [todo EXCEPT ![p] = @ \ {t}]
  /\ IF link[t] # "missing"
     THEN UNCHANGED <<pc, cur>>
     ELSE Goto(p, "remove") /\ cur' = [cur EXCEPT ![p] = t]
  /\ UNCHANGED <<fix, loaded, broken, conf, ok, gone>>
  /\ UNCHANGED hostVars /\ UNCHANGED targetVars

CheckLink(p, t) ==
  /\ pc[p] = "tool" /\ t \in todo[p]
  /\ todo' = [todo EXCEPT ![p] = @ \ {t}]
  /\ IF link[t] = "ok"
     THEN UNCHANGED <<pc, cur>>
     ELSE Goto(p, "remove") /\ cur' = [cur EXCEPT ![p] = t]
  /\ UNCHANGED <<fix, loaded, broken, conf, ok, gone>>
  /\ UNCHANGED hostVars /\ UNCHANGED targetVars

\* The error is not looked at.
RemoveLink(p) ==
  /\ pc[p] = "remove"
  /\ \/ /\ link' = [link EXCEPT ![cur[p]] = "missing"]
        /\ UNCHANGED incidents
     \/ /\ "unlink" \in MayFail /\ link[cur[p]] # "missing"
        /\ incidents' = incidents \cup {"link"}
        /\ UNCHANGED link
  /\ Goto(p, "symlink")
  /\ UNCHANGED <<fix, loaded, todo, cur, broken, conf, ok, gone, file, dropped>>
  /\ UNCHANGED hostVars

\* A failure is printed, also the one for a link that another process has made,
\* or that was not removed.
MakeLink(p) ==
  /\ pc[p] = "symlink"
  /\ \/ /\ link' = [link EXCEPT ![cur[p]] = IF @ = "missing" THEN "ok" ELSE @]
        /\ UNCHANGED incidents
     \/ /\ "symlink" \in MayFail
        /\ incidents' = incidents \cup {"link"}
        /\ UNCHANGED link
  /\ Goto(p, "tool")
  /\ cur' = [cur EXCEPT ![p] = NoTarget]
  /\ UNCHANGED <<fix, loaded, todo, broken, conf, ok, gone, file, dropped>>
  /\ UNCHANGED hostVars

Finish(p) ==
  /\ pc[p] = "tool" /\ todo[p] = {}
  /\ Exit(p, TRUE)
  /\ UNCHANGED hostVars /\ UNCHANGED targetVars

Kill(p) ==
  /\ "killed" \in MayFail
  /\ pc[p] # "idle"
  /\ Exit(p, FALSE)
  /\ incidents' = incidents \cup (IF pc[p] = "write" THEN {"rewrite"}
                                 ELSE IF pc[p] = "symlink" THEN {"link"} ELSE {})
  /\ UNCHANGED <<file, link, dropped>> /\ UNCHANGED hostVars

-----------------------------------------------------------------------------
(* The environment.                                                         *)

\* A device is plugged in or taken away.
DeviceChanges(d) ==
  /\ changes < MaxChanges /\ changes' = changes + 1
  /\ present' = IF d \in present THEN present \ {d} ELSE present \cup {d}
  /\ gone' = [p \in Procs |-> gone[p] \ present']
  /\ UNCHANGED <<whole, pc, fix, loaded, todo, cur, broken, conf, ok>>
  /\ UNCHANGED targetVars

\* A create or a restore has not yet written the config-lm of the target, or
\* has now.
TargetChanges(t) ==
  /\ changes < MaxChanges /\ changes' = changes + 1
  /\ whole' = IF t \in whole THEN whole \ {t} ELSE whole \cup {t}
  /\ UNCHANGED <<present, pc, fix, loaded, todo, cur, broken, conf, ok, gone>>
  /\ UNCHANGED targetVars

Step(p) ==
  \/ FindLMTargets(p) \/ FindFails(p)
  \/ \E t \in Targets : CheckMounts(p, t) \/ CheckFails(p, t)
  \/ ReadFile(p) \/ CreateFile(p) \/ RewriteFails(p) \/ WriteFile(p) \/ DevicesDone(p)
  \/ \E t \in Targets : CheckLink(p, t)
  \/ RemoveLink(p) \/ MakeLink(p) \/ Finish(p)

Next ==
  \/ \E p \in Procs : Step(p) \/ Kill(p) \/ \E f \in BOOLEAN : Begin(p, f)
  \/ \E d \in Devices : DeviceChanges(d)
  \/ \E t \in Targets : TargetChanges(t)

Spec == Init /\ [][Next]_vars

-----------------------------------------------------------------------------
(* Properties. *)

Locations == {"idle", "findDevices", "device", "read", "create", "write",
              "findTools", "tool", "remove", "symlink"}

TypeOK ==
  /\ file \in [Targets -> Seq(Line)]
  /\ link \in [Targets -> {"ok", "wrong", "missing"}]
  /\ whole \subseteq Targets /\ present \subseteq Devices /\ changes \in Nat
  /\ dropped \in [Targets -> SUBSET Devices]
  /\ incidents \subseteq {"rewrite", "two", "link"}
  /\ pc \in [Procs -> Locations] /\ fix \in [Procs -> BOOLEAN]
  /\ loaded \in [Procs -> [Targets -> Seq(Line)]]
  /\ todo \in [Procs -> SUBSET Targets]
  /\ cur \in [Procs -> Targets \cup {NoTarget}]
  /\ broken \in [Procs -> Seq(Devices)] /\ conf \in [Procs -> Seq(Line)]
  /\ ok \in [Procs -> BOOLEAN]
  /\ gone \in [Procs -> SUBSET Devices]

\* The lines of c that name none of the devices D.
Without(c, D) ==
  FlattenSeq([i \in DOMAIN c |->
    IF c[i].names \cap D = {} THEN <<c[i]>> ELSE << >>])

\* "Checking for and removing broken devices" (devices.go:142), and nothing
\* else: a configuration file that no one is writing has lost the lines of
\* the devices that were missing at a fix, and has kept all others in their
\* order, once each, unless a rewrite was cut off, overlapped another one, was
\* not written, or had two broken mounts to remove.
RestIsKept ==
  incidents \cap {"rewrite", "two"} = {} =>
    \A t \in Targets :
      \/ \E p \in Procs : cur[p] = t /\ pc[p] = "write"
      \/ file[t] = Without(Config[t], dropped[t])

\* A mount that is sure to be broken for the whole of p's command.
StillBroken(p) ==
  \E t \in Targets : \E i \in DOMAIN file[t] :
    file[t][i].kind = "mount" /\ file[t][i].source \in gone[p]

\* "Automatically fixes problems in the container backends" (autofix.go:37),
\* and the check of initialized: a command that reports no error has seen all
\* targets, and none has a mount of a device that was missing all the time,
\* with the exceptions of RestIsKept.
OkMeansClean ==
  incidents \cap {"rewrite", "two"} = {} =>
    \A p \in Procs : ok[p] => ~StillBroken(p)

\* "Fixing missing tools" (tools.go:128): after a command that reported no
\* error every target has its links when no other command is about to make
\* them, unless one was killed between the removal of a link and the new one,
\* or could not do either.
LinksAreThere ==
  "link" \notin incidents =>
    \A p \in Procs : ok[p] =>
      \A t \in Targets : \/ link[t] = "ok"
                         \/ \E q \in Procs : cur[q] = t /\ pc[q] = "symlink"

\* "Checking for and removing broken devices" (devices.go:142), of a single
\* command on files that nobody else writes: without the exception of two
\* broken mounts.
FixRemoves ==
  incidents \subseteq {"two"} => \A p \in Procs : ok[p] => ~StillBroken(p)

-----------------------------------------------------------------------------
(* What keeps the properties, step by step. *)

Sound == incidents \cap {"rewrite", "two"} = {}

\* The target at hand, and when a command counts as without an error.
PlaceInv ==
  \A p \in Procs :
    /\ pc[p] \in {"read", "create", "write", "remove", "symlink"} => cur[p] \in Targets
    /\ ok[p] => pc[p] = "idle"
    /\ gone[p] \cap present = {}

\* A command has in its memory a file, or what it was before other fixes.
FileInv ==
  /\ RestIsKept
  /\ Sound => \A p \in Procs :
       /\ pc[p] = "write" => file[cur[p]] = << >>
       /\ pc[p] \in {"create", "write"} => conf[p] = Without(Config[cur[p]], dropped[cur[p]])
       /\ pc[p] \in {"read", "create", "write"} => Len(broken[p]) = 1
       /\ pc[p] = "write" => ~Changing(p, cur[p])
       /\ pc[p] \in {"device", "read", "create", "write"} =>
            \A t \in Targets : \E D \in SUBSET dropped[t] :
              loaded[p][t] = Without(Config[t], D)

\* Of the mounts that a command has found missing none is left in t, once D is
\* dropped.
CleanOf(p, t, D) ==
  \A i \in DOMAIN Config[t] :
    Config[t][i].kind = "mount" /\ Config[t][i].source \in gone[p] =>
      Config[t][i].names \cap D # {}

\* p has done with the devices of t.
DevicesSeen(p, t) ==
  \/ ok[p] \/ pc[p] \in {"findTools", "tool", "remove", "symlink"}
  \/ pc[p] = "device" /\ t \notin todo[p]
  \/ pc[p] \in {"read", "create", "write"} /\ t \notin todo[p] \cup {cur[p]}

CleanInv ==
  Sound => \A p \in Procs : \A t \in Targets :
    /\ DevicesSeen(p, t) => CleanOf(p, t, dropped[t])
    /\ pc[p] \in {"read", "create", "write"} /\ cur[p] = t =>
         CleanOf(p, t, dropped[t] \cup ToSet(broken[p]))

\* p has done with the link of t.
LinkSeen(p, t) ==
  \/ ok[p]
  \/ pc[p] = "tool" /\ t \notin todo[p]
  \/ pc[p] \in {"remove", "symlink"} /\ t \notin todo[p] \cup {cur[p]}

LinkInv ==
  "link" \notin incidents => \A p \in Procs :
    /\ pc[p] = "symlink" => link[cur[p]] # "wrong"
    /\ \A t \in Targets : LinkSeen(p, t) =>
         \/ link[t] = "ok" \/ \E q \in Procs : cur[q] = t /\ pc[q] = "symlink"

\* The commands and the files between any two steps (devices.go:38-103,
\* tools.go:60-142): the other properties follow from it.
InductiveInv == TypeOK /\ PlaceInv /\ FileInv /\ CleanInv /\ LinkInv
=============================================================================
