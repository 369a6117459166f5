------------------------------ MODULE Packages ------------------------------
(***************************************************************************)
(* The commands that install packages into a target: rpminstall and        *)
(* rpmbuild (with its child upgrade), which make a temporary repository    *)
(* of a directory of preferred packages, add it to the target under a name *)
(* of the command, and remove the directory, and the repository or not, at *)
(* the end.  Several commands work on one target, one of them at most a    *)
(* clean build: its snapshot and its restore, see RpmBuild, are the        *)
(* content of the target that it keeps and puts back.                      *)
(*                                                                         *)
(* zypper is external.  It takes a package from the repositories that have *)
(* it, rather than from the server's; a repository without a directory     *)
(* contributes nothing.  What it reports may be an error at any time, as   *)
(* when another zypper runs.                                               *)
(***************************************************************************)
EXTENDS Naturals

CONSTANTS Procs, Commands,
          Requests,     \* which process may run which command
          Dirs,         \* the temporary directories of the repositories
          NoDir,
          Packages,
          Preferred,    \* the packages that preferred directories have
          Requirements, \* of the spec file
          Providers,    \* the packages that provide a requirement
          MayFail       \* "zypper" and "killed"

Command == [kind : {"rpminstall", "rpmbuild"}, packages : SUBSET Packages,
            prefer : BOOLEAN, clean : BOOLEAN, upgrade : BOOLEAN, deps : BOOLEAN]
NoCommand == [kind |-> "none"]

ASSUME CommandsAssumption == Commands \subseteq Command
ASSUME RequestsAssumption == Requests \subseteq Procs \X Commands
ASSUME DirsAssumption == NoDir \notin Dirs /\ Dirs \cap {"none", "server"} = {}
ASSUME PackagesAssumption ==
  Preferred \subseteq Packages /\ Providers \in [Requirements -> SUBSET Packages]

\* AddZypperRepository's names
Names == {"rpminstallpackages", "preferredpackages"}
Origins == {"none", "server"} \cup Dirs

VARIABLES running,      \* the target
          repos,        \* the directory of each repository in it
          installed,    \* where each package was installed from
          there,        \* the directories that exist
          used,         \* those that were made
          incidents     \* history: "shared" (two commands with preferred
                        \* directories at once), "clean" (one and a clean build),
                        \* "ignored" (zypper failed to change a repository),
                        \* "kept" (a build left its repository), "leaked" (an
                        \* rpminstall its directory), "killed" (one with its own)

VARIABLES pc, cmd,
          dir,          \* repoDir
          todo,         \* requirements left to look at
          wanted,       \* packages to install
          saved,        \* what the clean build's snapshot holds
          took          \* history: the origins of what it installed of Preferred

targetVars == <<running, repos, installed>>
hostVars == <<there, used>>
procVars == <<pc, cmd, dir, todo, wanted, saved, took>>
vars == <<targetVars, hostVars, incidents, procVars>>

Content == [repos : [Names -> Dirs \cup {NoDir}], installed : [Packages -> Origins]]
NoContent == [repos |-> [n \in Names |-> NoDir],
              installed |-> [k \in Packages |-> "none"]]

Init ==
  /\ running \in BOOLEAN
  /\ repos = NoContent.repos /\ installed = NoContent.installed
  /\ there = {} /\ used = {} /\ incidents = {}
  /\ pc = [p \in Procs |-> "idle"]
  /\ cmd = [p \in Procs |-> NoCommand]
  /\ dir = [p \in Procs |-> NoDir]
  /\ todo = [p \in Procs |-> {}] /\ wanted = [p \in Procs |-> {}]
  /\ saved = [p \in Procs |-> NoContent]
  /\ took = [p \in Procs |-> {}]

-----------------------------------------------------------------------------
Name(p) == IF cmd[p].kind = "rpminstall" THEN "rpminstallpackages" ELSE "preferredpackages"

Goto(p, l) == pc' = [pc EXCEPT ![p] = l]
Local == <<cmd, dir, todo, wanted, saved, took>>

Exit(p) ==
  /\ Goto(p, "idle")
  /\ cmd' = [cmd EXCEPT ![p] = NoCommand]
  /\ dir' = [dir EXCEPT ![p] = NoDir]
  /\ todo' = [todo EXCEPT ![p] = {}] /\ wanted' = [wanted EXCEPT ![p] = {}]
  /\ saved' = [saved EXCEPT ![p] = NoContent]
  /\ took' = [took EXCEPT ![p] = {}]

\* run() returns, and the functions that it deferred so far are due: the
\* removals first, then the end of the clean build.
Leave(p) ==
  IF dir[p] # NoDir
  THEN /\ Goto(p, IF cmd[p].kind = "rpminstall" THEN "removeRepo" ELSE "removeDir")
       /\ UNCHANGED Local
  ELSE IF cmd[p].kind = "rpmbuild" /\ cmd[p].clean
       THEN Goto(p, "restore") /\ UNCHANGED Local
       ELSE Exit(p)

\* How c and a command under way get into each other's way.
Disturbs(c) ==
  LET others == {cmd[q] : q \in Procs} \ {NoCommand}
  IN  (IF c.prefer /\ \E d \in others : d.prefer THEN {"shared"} ELSE {})
      \cup (IF \E d \in others : (c.prefer /\ d.clean) \/ (c.clean /\ d.prefer)
            THEN {"clean"} ELSE {})

Begin(p, c) ==
  /\ pc[p] = "idle"
  /\ c.clean => \A q \in Procs : cmd[q] # NoCommand => ~cmd[q].clean
  /\ cmd' = [cmd EXCEPT ![p] = c]
  /\ wanted' = [wanted EXCEPT ![p] = c.packages]
  /\ Goto(p, IF c.kind = "rpmbuild" THEN IF c.clean THEN "snapshot" ELSE "boot"
             ELSE IF c.prefer THEN "copy" ELSE "install")
  /\ incidents' = incidents \cup Disturbs(c)
  /\ UNCHANGED <<targetVars, hostVars, dir, todo, saved, took>>

-----------------------------------------------------------------------------
(* rpmbuild: the snapshot, for which the target is stopped, and the boot.   *)
StopForSnapshot(p) ==
  /\ pc[p] = "snapshot"
  /\ running' = FALSE
  /\ Goto(p, "snapshotBoot")
  /\ UNCHANGED <<repos, installed, hostVars, incidents>> /\ UNCHANGED Local

SnapshotTaken(p) ==
  /\ pc[p] = "snapshotBoot"
  /\ running' \in BOOLEAN
  /\ \/ /\ saved' = [saved EXCEPT ![p] = [repos |-> repos, installed |-> installed]]
        /\ Goto(p, "boot")
        /\ UNCHANGED <<cmd, dir, todo, wanted, took>>
     \/ Exit(p)
  /\ UNCHANGED <<repos, installed, hostVars, incidents>>

AfterRepository(c) == IF c.upgrade THEN "upgrade" ELSE "sources"

Boot(p) ==
  /\ pc[p] = "boot"
  /\ \/ /\ running' = TRUE
        /\ Goto(p, IF cmd[p].prefer THEN "copy" ELSE AfterRepository(cmd[p]))
        /\ UNCHANGED Local
     \/ running' = running /\ Leave(p)
  /\ UNCHANGED <<repos, installed, hostVars, incidents>>

-----------------------------------------------------------------------------
(* AddZypperRepository                                                      *)

\* Its error is returned at once: rpminstall has nothing deferred then.
AddFails(p) ==
  IF cmd[p].kind = "rpminstall"
  THEN Exit(p) /\ incidents' = incidents \cup {"leaked"}
  ELSE Goto(p, "removeDir") /\ UNCHANGED Local /\ UNCHANGED incidents

\* A directory of its own, which the packages are copied to ...
Copy(p) ==
  /\ pc[p] = "copy"
  /\ \E d \in Dirs \ used :
       /\ used' = used \cup {d} /\ there' = there \cup {d}
       /\ dir' = [dir EXCEPT ![p] = d]
  /\ Goto(p, "rr")
  /\ UNCHANGED <<targetVars, incidents, cmd, todo, wanted, saved, took>>

\* ... without one, there is nothing to copy to ...
NoTempDir(p) ==
  /\ pc[p] = "copy"
  /\ Leave(p)
  /\ UNCHANGED <<targetVars, hostVars, incidents>>

\* ... and the copy may fail.
CopyFails(p) ==
  /\ pc[p] = "rr"
  /\ AddFails(p)
  /\ UNCHANGED <<targetVars, hostVars>>

\* mutant: the old repository of the name is not removed
KeepOld(p) ==
  /\ pc[p] = "rr" /\ running
  /\ Goto(p, "ar")
  /\ UNCHANGED <<targetVars, hostVars, incidents>> /\ UNCHANGED Local

\* zypper changes the repository of the process; that it failed is not noticed.
ChangeRepo(p, d) ==
  \/ repos' = [repos EXCEPT ![Name(p)] = d] /\ UNCHANGED incidents
  \/ /\ "zypper" \in MayFail /\ repos[Name(p)] # d
     /\ incidents' = incidents \cup {"ignored"}
     /\ UNCHANGED repos

RemoveOld(p) ==
  /\ pc[p] = "rr" /\ running
  /\ ChangeRepo(p, NoDir)
  /\ Goto(p, "ar")
  /\ UNCHANGED <<running, installed, hostVars>> /\ UNCHANGED Local

AfterAr(p) == IF cmd[p].kind = "rpmbuild" THEN "up" ELSE "install"

\* mutant: the repository is the directory that the packages were copied from
AddSource(p) ==
  /\ pc[p] = "ar" /\ running
  /\ ChangeRepo(p, "source")
  /\ Goto(p, AfterAr(p))
  /\ UNCHANGED <<running, installed, hostVars>> /\ UNCHANGED Local

\* A repository that is there by that name is not replaced.
Add(p) ==
  /\ pc[p] = "ar" /\ running
  /\ IF repos[Name(p)] = NoDir THEN ChangeRepo(p, dir[p])
     ELSE UNCHANGED <<repos, incidents>>
  /\ Goto(p, AfterAr(p))
  /\ UNCHANGED <<running, installed, hostVars>> /\ UNCHANGED Local

\* Only a target that does not run is an error.
Refused(p) ==
  /\ pc[p] \in {"ar", "up"} /\ ~running
  /\ AddFails(p)
  /\ UNCHANGED <<targetVars, hostVars>>

\* Where zypper takes a package from.
Sources(k) ==
  LET live == {repos[n] : n \in {m \in Names : repos[m] \in there}}
  IN  IF k \in Preferred /\ live # {} THEN live ELSE {"server"}

\* What may be installed after an upgrade, which may fail half way.
Upgrade == {new \in [Packages -> Origins] :
              \A k \in Packages :
                \/ new[k] = installed[k]
                \/ installed[k] # "none" /\ new[k] \in Sources(k)}

Update(p) ==
  /\ pc[p] = "up" /\ running
  /\ installed' \in Upgrade
  /\ Goto(p, AfterRepository(cmd[p]))
  /\ UNCHANGED <<running, repos, hostVars, incidents>> /\ UNCHANGED Local

-----------------------------------------------------------------------------
(* rpmbuild: the child upgrade, and the preparation of the sources.         *)
UpgradeChild(p) ==
  /\ pc[p] = "upgrade"
  /\ IF running THEN installed' \in Upgrade ELSE UNCHANGED installed
  /\ \/ running /\ Goto(p, "sources") /\ UNCHANGED Local
     \/ Leave(p)
  /\ UNCHANGED <<running, repos, hostVars, incidents>>

\* The spec file is found, the tarball is made, the requirements are read.
PrepareSources(p) ==
  /\ pc[p] = "sources" /\ running
  /\ Goto(p, IF cmd[p].deps THEN "query" ELSE "build")
  /\ todo' = [todo EXCEPT ![p] = IF cmd[p].deps THEN Requirements ELSE {}]
  /\ UNCHANGED <<targetVars, hostVars, incidents, cmd, dir, wanted, saved, took>>

\* Any of this fails, or the user cancels a choice, or the build fails.
BuildFails(p) ==
  /\ pc[p] \in {"sources", "query", "build"}
  /\ Leave(p)
  /\ UNCHANGED <<targetVars, hostVars, incidents>>

-----------------------------------------------------------------------------
(* installBuildDependencies                                                 *)
Provided(r) == \E k \in Providers[r] : installed[k] # "none"

\* mutant: what one requirement has found is not reset for the next
QueryOnce(p, r) ==
  /\ pc[p] = "query" /\ r \in todo[p] /\ running
  /\ IF Provided(r) \/ Providers[r] = {}
     THEN todo' = [todo EXCEPT ![p] = IF Provided(r) THEN {} ELSE @ \ {r}]
          /\ UNCHANGED wanted
     ELSE /\ todo' = [todo EXCEPT ![p] = @ \ {r}]
          /\ \E k \in Providers[r] : wanted' = [wanted EXCEPT ![p] = @ \cup {k}]
  /\ UNCHANGED <<targetVars, hostVars, incidents, pc, cmd, dir, saved, took>>

\* A requirement that nothing installed provides, but something can: the only
\* such package, or one that the user selects.
Query(p, r) ==
  /\ pc[p] = "query" /\ r \in todo[p] /\ running
  /\ todo' = [todo EXCEPT ![p] = @ \ {r}]
  /\ IF Provided(r) \/ Providers[r] = {} THEN UNCHANGED wanted
     ELSE \E k \in Providers[r] : wanted' = [wanted EXCEPT ![p] = @ \cup {k}]
  /\ UNCHANGED <<targetVars, hostVars, incidents, pc, cmd, dir, saved, took>>

QueryDone(p) ==
  /\ pc[p] = "query" /\ todo[p] = {}
  /\ Goto(p, IF wanted[p] = {} THEN "build" ELSE "install")
  /\ UNCHANGED <<targetVars, hostVars, incidents>> /\ UNCHANGED Local

\* zypper install, of either command; what is installed already stays.
Install(p) ==
  LET new == {k \in wanted[p] : installed[k] = "none"}
  IN  /\ pc[p] = "install" /\ running
      /\ \E from \in [new -> Origins] :
           /\ \A k \in new : from[k] \in Sources(k)
           /\ installed' = [k \in Packages |-> IF k \in new THEN from[k] ELSE installed[k]]
           /\ took' = [took EXCEPT ![p] = {from[k] : k \in new \cap Preferred}]
      /\ Goto(p, IF cmd[p].kind = "rpmbuild" THEN "build" ELSE "installed")
      /\ UNCHANGED <<running, repos, hostVars, incidents, cmd, dir, todo, wanted, saved>>

\* mutant: the repository is removed after a success only
InstallFailsHard(p) ==
  /\ pc[p] = "install"
  /\ IF dir[p] # NoDir THEN Goto(p, "removeDir") /\ UNCHANGED Local ELSE Leave(p)
  /\ UNCHANGED <<targetVars, hostVars, incidents>>

InstallFails(p) ==
  /\ pc[p] = "install"
  /\ Leave(p)
  /\ UNCHANGED <<targetVars, hostVars, incidents>>

\* The end of a rpminstall or a build that worked.
Done(p) ==
  /\ pc[p] \in {"installed", "build"} /\ (pc[p] = "build" => running)
  /\ Leave(p)
  /\ UNCHANGED <<targetVars, hostVars, incidents>>

-----------------------------------------------------------------------------
(* The deferred functions.                                                  *)

\* RemoveZypperRepository, whose error is dropped.
RemoveRepo(p) ==
  /\ pc[p] = "removeRepo"
  /\ IF running THEN ChangeRepo(p, NoDir) ELSE UNCHANGED <<repos, incidents>>
  /\ Goto(p, "removeDir")
  /\ UNCHANGED <<running, installed, hostVars>> /\ UNCHANGED Local

RemoveDir(p) ==
  /\ pc[p] = "removeDir"
  /\ there' = there \ {dir[p]}
  /\ IF cmd[p].kind = "rpmbuild" /\ cmd[p].clean
     THEN Goto(p, "restore") /\ UNCHANGED Local /\ UNCHANGED incidents
     ELSE /\ Exit(p)
          /\ incidents' = IF cmd[p].kind = "rpmbuild" /\ repos[Name(p)] # NoDir
                          THEN incidents \cup {"kept"} ELSE incidents
  /\ UNCHANGED <<targetVars, used>>

StopForRestore(p) ==
  /\ pc[p] = "restore"
  /\ running' = FALSE
  /\ Goto(p, "restoreBoot")
  /\ UNCHANGED <<repos, installed, hostVars, incidents>> /\ UNCHANGED Local

\* The content of the snapshot is back, unless the restore failed.
Restored(p) ==
  /\ pc[p] = "restoreBoot"
  /\ running' \in BOOLEAN
  /\ \/ repos' = saved[p].repos /\ installed' = saved[p].installed /\ UNCHANGED incidents
     \/ /\ UNCHANGED <<repos, installed>>
        /\ incidents' = IF repos = saved[p].repos THEN incidents ELSE incidents \cup {"kept"}
  /\ Exit(p)
  /\ UNCHANGED hostVars

\* Not while a snapshot command runs as a child, for which see RpmBuild.
Kill(p) ==
  /\ "killed" \in MayFail
  /\ pc[p] \notin {"idle", "snapshotBoot", "restoreBoot"}
  /\ Exit(p)
  /\ incidents' = IF dir[p] = NoDir THEN incidents ELSE incidents \cup {"killed"}
  /\ UNCHANGED <<targetVars, hostVars>>

Step(p) ==
  \/ StopForSnapshot(p) \/ SnapshotTaken(p) \/ Boot(p)
  \/ Copy(p) \/ NoTempDir(p) \/ CopyFails(p) \/ RemoveOld(p) \/ Add(p) \/ Refused(p)
  \/ Update(p)
  \/ UpgradeChild(p) \/ PrepareSources(p) \/ BuildFails(p)
  \/ \E r \in Requirements : Query(p, r)
  \/ QueryDone(p) \/ Install(p) \/ InstallFails(p) \/ Done(p)
  \/ RemoveRepo(p) \/ RemoveDir(p) \/ StopForRestore(p) \/ Restored(p)

Next == \E p \in Procs :
          \/ \E c \in Commands : <<p, c>> \in Requests /\ Begin(p, c)
          \/ Step(p) \/ Kill(p)

Spec == Init /\ [][Next]_vars

-----------------------------------------------------------------------------
(* Properties. *)

Locations ==
  {"idle", "snapshot", "snapshotBoot", "boot", "copy", "rr", "ar", "up", "upgrade",
   "sources", "query", "install", "installed", "build", "removeRepo", "removeDir",
   "restore", "restoreBoot"}

TypeOK ==
  /\ running \in BOOLEAN
  /\ [repos |-> repos, installed |-> installed] \in Content
  /\ used \subseteq Dirs /\ there \subseteq used
  /\ incidents \subseteq {"shared", "clean", "ignored", "kept", "leaked", "killed"}
  /\ pc \in [Procs -> Locations] /\ cmd \in [Procs -> Commands \cup {NoCommand}]
  /\ \A p \in Procs : IF pc[p] = "idle" THEN cmd[p] = NoCommand ELSE cmd[p] \in Commands
  /\ dir \in [Procs -> Dirs \cup {NoDir}]
  /\ todo \in [Procs -> SUBSET Requirements] /\ wanted \in [Procs -> SUBSET Packages]
  /\ saved \in [Procs -> Content]
  /\ took \in [Procs -> SUBSET Origins]

\* "Directory of packages to be preferred during build" (rpmbuild.go:62,
\* rpminstall.go:42): what a command with such a directory installs of the
\* packages in it comes from there, whatever earlier commands, builds without a
\* clean-up included, have left in the target; unless another such command or
\* a clean build was under way at the same time, zypper failed to change a
\* repository, or a command was killed with its repository.
PreferredIsUsed ==
  incidents \cap {"shared", "clean", "ignored", "killed"} = {} =>
    \A p \in Procs : dir[p] # NoDir => took[p] \subseteq {dir[p]}

\* "Caller must delete it after use" (helpers.go:653), and rpminstall's
\* RemoveZypperRepository: when no command is under way, the target has none
\* of their repositories and the host none of their directories; but for a
\* kill, for an rpminstall that could not add its repository, for a build
\* without a clean-up, which leaves the repository, for a zypper that failed,
\* and for a clean build at the same time as an rpminstall, which may bring the
\* repository back.
CleanedUp ==
  (\A p \in Procs : pc[p] = "idle") =>
    /\ incidents \cap {"killed", "leaked"} = {} => there = {}
    /\ \A n \in Names :
         \/ repos[n] = NoDir
         \/ incidents \cap {"killed", "ignored", "clean"} # {}
         \/ n = "preferredpackages" /\ "kept" \in incidents

\* "the list of packages we need to install" (rpmbuild.go:207): when a build
\* with --build-deps begins, every requirement that some package provides has
\* one in the target, also when the user selected it, another command
\* installed it in between, or none was missing.
BuildDepsThere ==
  \A p \in Procs : pc[p] = "build" /\ cmd[p].deps =>
    \A r \in Requirements : Providers[r] # {} => Provided(r)

\* The three of them, made inductive.  What holds of a command ...
Restoring == {"restore", "restoreBoot"}

CommandInv(p) ==
  /\ pc[p] \in {"idle", "snapshot", "snapshotBoot", "boot", "copy"} =>
       dir[p] = NoDir /\ took[p] = {}
  /\ pc[p] \in {"rr", "ar", "up", "removeRepo", "removeDir"} => dir[p] # NoDir
  /\ pc[p] = "copy" \/ dir[p] # NoDir => cmd[p].prefer
  /\ pc[p] \in {"snapshot", "snapshotBoot"} \cup Restoring => cmd[p].clean
  /\ pc[p] \in {"snapshot", "snapshotBoot", "boot", "up", "upgrade", "sources",
                "query", "build"} \cup Restoring => cmd[p].kind = "rpmbuild"
  /\ dir[p] # NoDir => dir[p] \in used /\ (dir[p] \in there <=> pc[p] \notin Restoring)

\* ... of two commands under way ...
PairInv(p, q) ==
  /\ dir[p] # NoDir => dir[p] # dir[q]
  /\ pc[p] # "idle" /\ pc[q] # "idle" /\ cmd[p].prefer =>
       /\ cmd[q].prefer => "shared" \in incidents
       /\ cmd[q].clean => "clean" \in incidents

\* ... of what they leave on the host and in the target, a snapshot of it
\* included, each with the command that will remove it ...
Excused(n) ==
  \/ incidents \cap {"killed", "ignored", "clean"} # {}
  \/ n = "preferredpackages" /\ "kept" \in incidents

Remover(p, n) ==
  /\ dir[p] # NoDir /\ n = Name(p)
  /\ n = "rpminstallpackages" => pc[p] \in {"install", "installed", "removeRepo"}

LeftInv ==
  /\ \A d \in there : (\E p \in Procs : dir[p] = d) \/ incidents \cap {"killed", "leaked"} # {}
  /\ \A n \in Names : repos[n] = NoDir \/ Excused(n) \/ \E p \in Procs : Remover(p, n)
  /\ \A n \in Names, p \in Procs : saved[p].repos[n] = NoDir \/ Excused(n)
  /\ \A p \in Procs :
       pc[p] \in {"ar", "install", "installed", "removeRepo"} /\ dir[p] # NoDir
         => running \/ "clean" \in incidents \/ cmd[p].kind = "rpmbuild"

\* ... and of the directories that zypper finds in the target.
Undisturbed == incidents \cap {"shared", "clean", "ignored", "killed"} = {}

FoundInv ==
  /\ \A n \in Names :
       /\ repos[n] \in used \cup {NoDir}
       /\ \A p \in Procs :
            /\ saved[p].repos[n] \in used \cup {NoDir}
            /\ pc[p] \in {"rr", "ar"} => repos[n] # dir[p] /\ \A q \in Procs : saved[q].repos[n] # dir[p]
  /\ Undisturbed =>
       /\ \A n \in Names :
            /\ repos[n] \in there => \E p \in Procs : dir[p] = repos[n]
            /\ \A p \in Procs : saved[p].repos[n] \notin there
       /\ \A p \in Procs :
            /\ pc[p] = "ar" => repos[Name(p)] = NoDir
            /\ pc[p] \in {"up", "upgrade", "sources", "query", "install"} /\ dir[p] # NoDir
                 => repos[Name(p)] = dir[p]
            /\ dir[p] # NoDir => took[p] \subseteq {dir[p]}

PackagesInv ==
  /\ \A p \in Procs : CommandInv(p)
  /\ \A p, q \in Procs : p # q => PairInv(p, q)
  /\ LeftInv
  /\ FoundInv

DepsInv ==
  \A p \in Procs : pc[p] # "idle" /\ cmd[p].deps =>
    \A r \in Requirements : Providers[r] # {} =>
      /\ pc[p] = "query" => Provided(r) \/ r \in todo[p] \/ Providers[r] \cap wanted[p] # {}
      /\ pc[p] = "install" /\ cmd[p].kind = "rpmbuild" =>
           Provided(r) \/ Providers[r] \cap wanted[p] # {}
      /\ pc[p] = "build" => Provided(r)

\* What the commands (rpminstall.go:46-90, rpmbuild.go:189-545) keep from step
\* to step: who is to clean up what is there, and how far the dependencies of a
\* build have come.
InductiveInv == PackagesInv /\ DepsInv
=============================================================================
