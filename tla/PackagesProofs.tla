--------------------------- MODULE PackagesProofs ---------------------------
(* The commands that install packages clean up, and use what they prefer,    *)
(* for any number of them.                                                   *)
EXTENDS Packages, TLAPS

-----------------------------------------------------------------------------
(* Types. *)

LEMMA KindOf ==
  ASSUME NEW c \in Commands
  PROVE  /\ c \in Command /\ c # NoCommand
         /\ c.kind \in {"rpminstall", "rpmbuild"} /\ c.packages \in SUBSET Packages
         /\ c.prefer \in BOOLEAN /\ c.clean \in BOOLEAN
         /\ c.upgrade \in BOOLEAN /\ c.deps \in BOOLEAN
BY CommandsAssumption DEF Command, NoCommand

LEMMA NoContentType == NoContent \in Content
BY DEF NoContent, Content, Origins

LEMMA TypeInit == Init => TypeOK
BY NoContentType, SMTT(30) DEF Init, TypeOK, Locations, NoContent

\* A process goes on with its command, or ends it.
LEMMA ControlType ==
  ASSUME TypeOK, NEW p \in Procs, pc[p] # "idle",
         \/ Exit(p)
         \/ \E l \in Locations \ {"idle"} : Goto(p, l) /\ UNCHANGED Local
  PROVE  /\ pc' \in [Procs -> Locations] /\ cmd' \in [Procs -> Commands \cup {NoCommand}]
         /\ \A q \in Procs : IF pc'[q] = "idle" THEN cmd'[q] = NoCommand
                             ELSE cmd'[q] \in Commands
         /\ dir' \in [Procs -> Dirs \cup {NoDir}]
         /\ todo' \in [Procs -> SUBSET Requirements]
         /\ wanted' \in [Procs -> SUBSET Packages]
         /\ saved' \in [Procs -> Content]
         /\ took' \in [Procs -> SUBSET Origins]
<1>1. CASE Exit(p)
  BY <1>1, NoContentType DEF TypeOK, Exit, Goto, Locations
<1>2. CASE \E l \in Locations \ {"idle"} : Goto(p, l) /\ UNCHANGED Local
  BY <1>2 DEF TypeOK, Goto, Local
<1> QED
  BY <1>1, <1>2

LEMMA LeaveMoves ==
  ASSUME NEW p \in Procs, Leave(p)
  PROVE  \/ dir[p] = NoDir /\ Exit(p)
         \/ \E l \in Locations \ {"idle"} : Goto(p, l) /\ UNCHANGED Local
BY DEF Leave, Locations

LEMMA AddFailsMoves ==
  ASSUME NEW p \in Procs, AddFails(p)
  PROVE  \/ cmd[p].kind = "rpminstall" /\ Exit(p)
         \/ \E l \in Locations \ {"idle"} : Goto(p, l) /\ UNCHANGED Local
BY DEF AddFails, Locations

LEMMA UpgradeType ==
  ASSUME TypeOK, NEW new \in Upgrade
  PROVE  new \in [Packages -> Origins]
BY DEF Upgrade

\* ... and so does the content of the target.
LEMMA ChangeRepoType ==
  ASSUME TypeOK, NEW p \in Procs, NEW d \in Dirs \cup {NoDir}, ChangeRepo(p, d)
  PROVE  /\ repos' \in [Names -> Dirs \cup {NoDir}]
         /\ incidents' \in {incidents, incidents \cup {"ignored"}}
BY DEF ChangeRepo, TypeOK, Content, Name, Names

LEMMA TypeNext == TypeOK /\ [Next]_vars => TypeOK'
<1> SUFFICES ASSUME TypeOK, [Next]_vars PROVE TypeOK'
  OBVIOUS
<1>1. /\ repos \in [Names -> Dirs \cup {NoDir}] /\ installed \in [Packages -> Origins]
  BY DEF TypeOK, Content
<1>2. ASSUME NEW p \in Procs, NEW c \in Commands, Begin(p, c) PROVE TypeOK'
  <2>1. c \in Command /\ c.packages \in SUBSET Packages
    BY KindOf
  <2>2. incidents' \subseteq incidents \cup {"shared", "clean"}
    BY <1>2 DEF Begin, Disturbs
  <2> QED
    BY <1>2, <2>1, <2>2 DEF Begin, Goto, TypeOK, Locations, targetVars, hostVars
\* Most steps leave the target and the host alone, or do not.
<1>3. ASSUME NEW p \in Procs, pc[p] # "idle",
             \/ Exit(p)
             \/ \E l \in Locations \ {"idle"} : Goto(p, l) /\ UNCHANGED Local,
             running' \in BOOLEAN, repos' \in [Names -> Dirs \cup {NoDir}],
             installed' \in [Packages -> Origins],
             used' \subseteq Dirs, there' \subseteq used',
             incidents' \subseteq incidents \cup {"ignored", "kept", "leaked", "killed"}
      PROVE  TypeOK'
  BY <1>3, ControlType DEF TypeOK, Content
<1>4. ASSUME NEW p \in Procs,
             \/ StopForSnapshot(p) \/ Boot(p) \/ NoTempDir(p) \/ BuildFails(p)
             \/ QueryDone(p) \/ InstallFails(p) \/ Done(p) \/ StopForRestore(p)
             \/ CopyFails(p) \/ Refused(p) \/ Kill(p)
      PROVE  TypeOK'
  <2>1. pc[p] # "idle" /\ UNCHANGED <<repos, installed>> /\ UNCHANGED hostVars
    BY <1>4 DEF StopForSnapshot, Boot, NoTempDir, BuildFails, QueryDone, InstallFails,
       Done, StopForRestore, CopyFails, Refused, Kill, targetVars
  <2>2. running' \in BOOLEAN /\ incidents' \subseteq incidents \cup {"leaked", "killed"}
    BY <1>4 DEF StopForSnapshot, Boot, NoTempDir, BuildFails, QueryDone, InstallFails,
       Done, StopForRestore, CopyFails, Refused, Kill, AddFails, targetVars, TypeOK
  <2>3. \/ Exit(p)
        \/ \E l \in Locations \ {"idle"} : Goto(p, l) /\ UNCHANGED Local
    <3>1. CASE StopForSnapshot(p) \/ QueryDone(p) \/ StopForRestore(p) \/ Kill(p)
      BY <3>1 DEF StopForSnapshot, QueryDone, StopForRestore, Kill, Locations
    <3>2. CASE Boot(p)
      BY <3>2, LeaveMoves DEF Boot, AfterRepository, Locations
    <3>3. CASE NoTempDir(p) \/ BuildFails(p) \/ InstallFails(p) \/ Done(p)
      BY <3>3, LeaveMoves DEF NoTempDir, BuildFails, InstallFails, Done
    <3>4. CASE CopyFails(p) \/ Refused(p)
      BY <3>4, AddFailsMoves DEF CopyFails, Refused
    <3> QED
      BY <1>4, <3>1, <3>2, <3>3, <3>4
  <2> QED
    BY <1>1, <1>3, <2>1, <2>2, <2>3 DEF TypeOK, hostVars
<1>5. ASSUME NEW p \in Procs, SnapshotTaken(p) PROVE TypeOK'
  <2>1. CASE Exit(p)
    BY <1>1, <1>3, <1>5, <2>1 DEF SnapshotTaken, hostVars, TypeOK
  <2>2. CASE ~Exit(p)
    <3>1. [repos |-> repos, installed |-> installed] \in Content
      BY DEF TypeOK
    <3>2. saved' = [saved EXCEPT ![p] = [repos |-> repos, installed |-> installed]]
      BY <1>5, <2>2 DEF SnapshotTaken
    <3>3. saved' \in [Procs -> Content]
      BY <3>1, <3>2 DEF TypeOK
    <3>4. /\ pc[p] # "idle" /\ pc' = [pc EXCEPT ![p] = "boot"] /\ running' \in BOOLEAN
          /\ UNCHANGED <<cmd, dir, todo, wanted, took, repos, installed, there, used,
                         incidents>>
      BY <1>5, <2>2 DEF SnapshotTaken, Goto, hostVars
    <3> QED
      BY <3>3, <3>4 DEF TypeOK, Locations
  <2> QED
    BY <2>1, <2>2
<1>6. ASSUME NEW p \in Procs, Copy(p) PROVE TypeOK'
  <2>1. PICK d \in Dirs \ used :
          /\ used' = used \cup {d} /\ there' = there \cup {d}
          /\ dir' = [dir EXCEPT ![p] = d]
    BY <1>6 DEF Copy
  <2> QED
    BY <1>6, <2>1 DEF Copy, Goto, targetVars, TypeOK, Locations
<1>7. ASSUME NEW p \in Procs, RemoveOld(p) \/ Add(p) \/ RemoveRepo(p) PROVE TypeOK'
  <2>1. /\ pc[p] # "idle" /\ UNCHANGED <<running, installed>> /\ UNCHANGED hostVars
        /\ \E l \in Locations \ {"idle"} : Goto(p, l) /\ UNCHANGED Local
    BY <1>7 DEF RemoveOld, Add, RemoveRepo, AfterAr, Locations
  <2>2. \/ ChangeRepo(p, NoDir) \/ ChangeRepo(p, dir[p]) \/ UNCHANGED <<repos, incidents>>
    BY <1>7 DEF RemoveOld, Add, RemoveRepo
  <2>3. /\ repos' \in [Names -> Dirs \cup {NoDir}]
        /\ incidents' \in {incidents, incidents \cup {"ignored"}}
    BY <1>1, <2>2, ChangeRepoType DEF TypeOK
  <2> QED
    BY <1>1, <1>3, <2>1, <2>3 DEF TypeOK, hostVars
<1>8. ASSUME NEW p \in Procs, Update(p) \/ UpgradeChild(p) PROVE TypeOK'
  <2>1. /\ pc[p] # "idle" /\ UNCHANGED <<running, repos, incidents>> /\ UNCHANGED hostVars
        /\ installed' \in Upgrade \cup {installed}
    BY <1>8 DEF Update, UpgradeChild
  <2>2. \/ Exit(p)
        \/ \E l \in Locations \ {"idle"} : Goto(p, l) /\ UNCHANGED Local
    BY <1>8, LeaveMoves DEF Update, UpgradeChild, AfterRepository, Locations
  <2> QED
    BY <1>1, <1>3, <2>1, <2>2, UpgradeType DEF TypeOK, hostVars
<1>9. ASSUME NEW p \in Procs,
             PrepareSources(p) \/ \E r \in Requirements : Query(p, r)
      PROVE  TypeOK'
  <2>1. CASE PrepareSources(p)
    BY <2>1 DEF PrepareSources, Goto, targetVars, hostVars, TypeOK, Locations
  <2>2. ASSUME NEW r \in Requirements, Query(p, r) PROVE TypeOK'
    <3>1. Providers[r] \subseteq Packages
      BY PackagesAssumption
    <3>2. wanted' \in [Procs -> SUBSET Packages] /\ todo' \in [Procs -> SUBSET Requirements]
      BY <2>2, <3>1 DEF Query, TypeOK
    <3> QED
      BY <2>2, <3>2 DEF Query, targetVars, hostVars, TypeOK
  <2> QED
    BY <1>9, <2>1, <2>2
<1>10. ASSUME NEW p \in Procs, Install(p) PROVE TypeOK'
  <2> DEFINE new == {k \in wanted[p] : installed[k] = "none"}
  <2>1. PICK from \in [new -> Origins] :
          /\ installed' = [k \in Packages |-> IF k \in new THEN from[k] ELSE installed[k]]
          /\ took' = [took EXCEPT ![p] = {from[k] : k \in new \cap Preferred}]
    BY <1>10 DEF Install
  <2>2. installed' \in [Packages -> Origins] /\ took' \in [Procs -> SUBSET Origins]
    BY <1>1, <2>1 DEF TypeOK
  <2> QED
    BY <1>10, <2>2 DEF Install, Goto, hostVars, TypeOK, Content, Locations
<1>11. ASSUME NEW p \in Procs, RemoveDir(p) PROVE TypeOK'
  <2>1. \/ Exit(p)
        \/ \E l \in Locations \ {"idle"} : Goto(p, l) /\ UNCHANGED Local
    BY <1>11 DEF RemoveDir, Locations
  <2>2. pc[p] # "idle" /\ incidents' \subseteq incidents \cup {"kept"}
    BY <1>11 DEF RemoveDir
  <2> QED
    BY <1>1, <1>3, <1>11, <2>1, <2>2 DEF RemoveDir, targetVars, TypeOK
<1>12. ASSUME NEW p \in Procs, Restored(p) PROVE TypeOK'
  <2>1. saved[p] \in Content
    BY DEF TypeOK
  <2>2. saved[p].repos \in [Names -> Dirs \cup {NoDir}]
        /\ saved[p].installed \in [Packages -> Origins]
    BY <2>1 DEF Content
  <2>3. pc[p] # "idle" /\ incidents' \subseteq incidents \cup {"kept"}
    BY <1>12 DEF Restored
  <2> QED
    BY <1>1, <1>3, <1>12, <2>2, <2>3 DEF Restored, hostVars, TypeOK
<1>13. CASE UNCHANGED vars
  BY <1>13 DEF vars, targetVars, hostVars, procVars, TypeOK
<1> QED
  BY <1>2, <1>4, <1>5, <1>6, <1>7, <1>8, <1>9, <1>10, <1>11, <1>12, <1>13 DEF Next, Step

\* The target, its repositories and every command keep their types, for any
\* number of commands and packages.
THEOREM TypeCorrect == Spec => []TypeOK
BY TypeInit, TypeNext, PTL DEF Spec

-----------------------------------------------------------------------------
(* What a step keeps, whatever it is.                                       *)

Others(p) ==
  \A q \in Procs \ {p} :
    /\ pc'[q] = pc[q] /\ cmd'[q] = cmd[q] /\ dir'[q] = dir[q]
    /\ saved'[q] = saved[q] /\ took'[q] = took[q]

Gone(p) ==
  /\ pc'[p] = "idle" /\ cmd'[p] = NoCommand /\ dir'[p] = NoDir
  /\ saved'[p] = NoContent /\ took'[p] = {}

Stays(p, l) ==
  /\ pc'[p] = l /\ cmd'[p] = cmd[p] /\ dir'[p] = dir[p] /\ saved'[p] = saved[p]

LEMMA Controls ==
  ASSUME TypeOK, NEW p \in Procs, NEW l
  PROVE  /\ Exit(p) => Others(p) /\ Gone(p)
         /\ Goto(p, l) /\ UNCHANGED Local =>
              Others(p) /\ Stays(p, l) /\ took'[p] = took[p]
BY DEF TypeOK, Exit, Goto, Local, Others, Gone, Stays

LEMMA IsActive ==
  ASSUME TypeOK, NEW p \in Procs
  PROVE  /\ pc[p] = "idle" <=> cmd[p] = NoCommand
         /\ pc[p] # "idle" => cmd[p] \in Commands
BY KindOf DEF TypeOK

\* The other commands keep what holds of each, and of two of them.
LEMMA CommandsKept ==
  ASSUME PackagesInv, NEW p \in Procs, Others(p), CommandInv(p)', used \subseteq used',
         \A q \in Procs \ {p} : dir[q] # NoDir => (dir[q] \in there' <=> dir[q] \in there)
  PROVE  \A q \in Procs : CommandInv(q)'
<1> SUFFICES ASSUME NEW q \in Procs, q # p PROVE CommandInv(q)'
  OBVIOUS
<1>1. /\ pc'[q] = pc[q] /\ cmd'[q] = cmd[q] /\ dir'[q] = dir[q] /\ took'[q] = took[q]
  BY DEF Others
<1> QED
  BY <1>1 DEF PackagesInv, CommandInv

LEMMA PairsKept ==
  ASSUME PackagesInv, NEW p \in Procs, Others(p), incidents \subseteq incidents',
         Gone(p) \/ (pc[p] # "idle" /\ \E l : Stays(p, l))
  PROVE  \A q, r \in Procs : q # r => PairInv(q, r)'
<1> SUFFICES ASSUME NEW q \in Procs, NEW r \in Procs, q # r PROVE PairInv(q, r)'
  OBVIOUS
<1>1. PairInv(q, r)
  BY DEF PackagesInv
<1>2. ASSUME NEW s \in {q, r}
      PROVE  \/ pc'[s] = "idle" /\ dir'[s] = NoDir
             \/ /\ pc'[s] # "idle" => pc[s] # "idle"
                /\ cmd'[s] = cmd[s] /\ dir'[s] = dir[s]
  BY DEF Others, Gone, Stays
<1> QED
  BY <1>1, <1>2 DEF PairInv

\* What is left has a command that removes it, if this command sees to its own.
LEMMA LeftKept ==
  ASSUME TypeOK, PackagesInv, NEW p \in Procs, Others(p),
         incidents \subseteq incidents', there' \subseteq there \cup {dir'[p]},
         \/ dir'[p] = dir[p] \/ dir[p] = NoDir \/ dir[p] \notin there'
         \/ incidents' \cap {"killed", "leaked"} # {},
         \A n \in Names :
           /\ repos'[n] \in {repos[n], NoDir} \/ Excused(n)' \/ Remover(p, n)'
           /\ Remover(p, n) => repos'[n] = NoDir \/ Excused(n)' \/ Remover(p, n)'
           /\ saved'[p].repos[n] \in {saved[p].repos[n], NoDir} \/ Excused(n)',
         \/ running' = running \/ running' = TRUE
         \/ pc[p] # "idle" /\ cmd[p].clean /\ cmd[p].kind = "rpmbuild",
         pc'[p] \in {"ar", "install", "installed", "removeRepo"} /\ dir'[p] # NoDir
           => \/ running' = TRUE \/ cmd'[p].kind = "rpmbuild"
              \/ /\ pc[p] \in {"ar", "install", "installed", "removeRepo"}
                 /\ dir'[p] = dir[p] /\ cmd'[p] = cmd[p]
  PROVE  LeftInv'
<1>1. LeftInv
  BY DEF PackagesInv
<1>2. \A n \in Names : Excused(n) => Excused(n)'
  BY DEF Excused
<1>3. ASSUME NEW d \in there'
      PROVE  (\E q \in Procs : dir'[q] = d) \/ incidents' \cap {"killed", "leaked"} # {}
  <2>1. CASE d = dir'[p]
    BY <2>1
  <2>2. CASE d # dir'[p]
    <3>1. d \in there /\ d # NoDir
      BY <1>3, <2>2, DirsAssumption DEF TypeOK
    <3>2. CASE incidents \cap {"killed", "leaked"} # {}
      BY <3>2
    <3>3. CASE \E q \in Procs : dir[q] = d
      BY <1>3, <2>2, <3>1, <3>3 DEF Others
    <3> QED
      BY <1>1, <3>1, <3>2, <3>3 DEF LeftInv
  <2> QED
    BY <2>1, <2>2
<1>4. ASSUME NEW n \in Names
      PROVE  repos'[n] = NoDir \/ Excused(n)' \/ \E q \in Procs : Remover(q, n)'
  <2>1. ASSUME NEW q \in Procs \ {p}, Remover(q, n) PROVE Remover(q, n)'
    BY <2>1 DEF Remover, Name, Others
  <2> QED
    BY <1>1, <1>2, <2>1 DEF LeftInv
<1>5. ASSUME NEW n \in Names, NEW q \in Procs
      PROVE  saved'[q].repos[n] = NoDir \/ Excused(n)'
  BY <1>1, <1>2 DEF LeftInv, Others
<1>6. ASSUME NEW q \in Procs, dir'[q] # NoDir,
             pc'[q] \in {"ar", "install", "installed", "removeRepo"}
      PROVE  running' \/ "clean" \in incidents' \/ cmd'[q].kind = "rpmbuild"
  <2>1. CASE q = p
    BY <1>1, <1>6, <2>1 DEF LeftInv, TypeOK
  <2>2. CASE q # p
    <3>1. pc'[q] = pc[q] /\ dir'[q] = dir[q] /\ cmd'[q] = cmd[q]
      BY <2>2 DEF Others
    <3>2. running \/ "clean" \in incidents \/ cmd[q].kind = "rpmbuild"
      BY <1>1, <1>6, <3>1 DEF LeftInv
    <3>3. cmd[q].prefer /\ pc[q] # "idle"
      BY <1>6, <3>1 DEF PackagesInv, CommandInv
    <3>4. CASE pc[p] # "idle" /\ cmd[p].clean
      BY <2>2, <3>3, <3>4 DEF PackagesInv, PairInv
    <3> QED
      BY <3>1, <3>2, <3>4 DEF TypeOK
  <2> QED
    BY <2>1, <2>2
<1> QED
  BY <1>3, <1>4, <1>5, <1>6 DEF LeftInv

\* zypper finds the directories of commands under way only, and its own.
LEMMA FoundKept ==
  ASSUME TypeOK, TypeOK', PackagesInv, NEW p \in Procs, Others(p),
         incidents \subseteq incidents', used \subseteq used',
         there' \subseteq there \cup (used' \ used),
         \A n \in Names :
           /\ repos'[n] \in {repos[n], NoDir, dir[p], saved[p].repos[n]}
           /\ saved'[p].repos[n] \in {saved[p].repos[n], NoDir, repos[n]}
           /\ repos'[n] = repos[n]
                \/ (pc[p] # "idle" /\ (cmd[p].prefer \/ cmd[p].clean))
           /\ pc'[p] \in {"rr", "ar"} =>
                repos'[n] # dir'[p] /\ \A q \in Procs : saved'[q].repos[n] # dir'[p]
           /\ Undisturbed' =>
                /\ dir'[p] = dir[p] \/ repos'[n] \notin there' \/ repos'[n] # dir[p]
                /\ \/ saved'[p].repos[n] \in {saved[p].repos[n], NoDir}
                   \/ saved'[p].repos[n] \notin there',
         Undisturbed' =>
           /\ pc'[p] = "ar" => repos'[Name(p)'] = NoDir
           /\ pc'[p] \in {"up", "upgrade", "sources", "query", "install"} /\ dir'[p] # NoDir
                => repos'[Name(p)'] = dir'[p]
           /\ dir'[p] # NoDir => took'[p] \subseteq {dir'[p]}
  PROVE  FoundInv'
<1>1. FoundInv /\ CommandInv(p)
  BY DEF PackagesInv
<1>2. NoDir \notin there' /\ dir[p] \in used \cup {NoDir}
  BY <1>1, DirsAssumption DEF TypeOK, CommandInv
<1>3. ASSUME NEW n \in Names
      PROVE  /\ repos'[n] \in used' \cup {NoDir}
             /\ \A q \in Procs : saved'[q].repos[n] \in used' \cup {NoDir}
  BY <1>1, <1>2 DEF FoundInv, Others
<1>4. ASSUME NEW n \in Names, NEW q \in Procs, pc'[q] \in {"rr", "ar"}
      PROVE  repos'[n] # dir'[q] /\ \A r \in Procs : saved'[r].repos[n] # dir'[q]
  <2>1. CASE q = p
    BY <1>4, <2>1
  <2>2. CASE q # p
    <3>1. pc'[q] = pc[q] /\ dir'[q] = dir[q]
      BY <2>2 DEF Others
    <3>2. dir[q] # NoDir /\ dir[q] # dir[p]
      BY <1>4, <2>2, <3>1 DEF PackagesInv, CommandInv, PairInv
    <3>3. repos[n] # dir[q] /\ \A r \in Procs : saved[r].repos[n] # dir[q]
      BY <1>1, <1>4, <3>1 DEF FoundInv
    <3> QED
      BY <3>1, <3>2, <3>3 DEF Others
  <2> QED
    BY <2>1, <2>2
<1>5. Undisturbed' => Undisturbed
  BY DEF Undisturbed
<1>6. ASSUME Undisturbed', NEW n \in Names
      PROVE  /\ repos'[n] \in there' => \E q \in Procs : dir'[q] = repos'[n]
             /\ \A q \in Procs : saved'[q].repos[n] \notin there'
  <2>1. /\ repos[n] \in there => \E q \in Procs : dir[q] = repos[n]
        /\ \A q \in Procs : saved[q].repos[n] \notin there
        /\ repos[n] \in used \cup {NoDir}
        /\ \A q \in Procs : saved[q].repos[n] \in used \cup {NoDir}
    BY <1>1, <1>5, <1>6 DEF FoundInv
  <2>2. \A d \in used \cup {NoDir} : d \in there' => d \in there
    BY <1>2
  <2>3. \A q \in Procs : saved'[q].repos[n] \notin there'
    BY <1>2, <1>6, <2>1, <2>2 DEF Others
  <2>4. ASSUME repos'[n] \in there' PROVE \E q \in Procs : dir'[q] = repos'[n]
    <3>1. CASE repos'[n] = dir[p]
      BY <1>6, <2>4, <3>1
    <3>2. CASE repos'[n] # dir[p]
      <4>1. repos'[n] = repos[n] /\ repos[n] \in there
        BY <1>2, <2>1, <2>2, <2>4, <3>2
      <4>2. PICK q \in Procs : dir[q] = repos[n]
        BY <2>1, <4>1
      <4>3. q # p
        BY <3>2, <4>1, <4>2
      <4> QED
        BY <4>1, <4>2, <4>3 DEF Others
    <3> QED
      BY <3>1, <3>2
  <2> QED
    BY <2>3, <2>4
<1>7. ASSUME Undisturbed', NEW q \in Procs
      PROVE  /\ pc'[q] = "ar" => repos'[Name(q)'] = NoDir
             /\ pc'[q] \in {"up", "upgrade", "sources", "query", "install"} /\ dir'[q] # NoDir
                  => repos'[Name(q)'] = dir'[q]
             /\ dir'[q] # NoDir => took'[q] \subseteq {dir'[q]}
  <2>1. CASE q = p
    BY <1>7, <2>1
  <2>2. CASE q # p
    <3>1. /\ pc'[q] = pc[q] /\ dir'[q] = dir[q] /\ took'[q] = took[q] /\ Name(q)' = Name(q)
      BY <2>2 DEF Others, Name
    <3>2. CASE dir[q] # NoDir
      <4>1. cmd[q].prefer /\ pc[q] # "idle"
        BY <3>2 DEF PackagesInv, CommandInv
      <4>2. ~(pc[p] # "idle" /\ (cmd[p].prefer \/ cmd[p].clean))
        BY <1>5, <1>7, <2>2, <4>1 DEF PackagesInv, PairInv, Undisturbed
      <4>3. repos'[Name(q)] = repos[Name(q)]
        BY <4>2 DEF Name, Names
      <4> QED
        BY <1>1, <1>5, <1>7, <3>1, <4>3 DEF FoundInv
    <3>3. CASE dir[q] = NoDir
      BY <3>1, <3>3 DEF PackagesInv, CommandInv
    <3> QED
      BY <3>2, <3>3
  <2> QED
    BY <2>1, <2>2
<1> QED
  BY <1>3, <1>4, <1>6, <1>7 DEF FoundInv

-----------------------------------------------------------------------------
(* The steps.                                                               *)

\* A command goes on, or puts its deferred functions off no longer, and
\* changes neither a repository nor a directory.
LEMMA QuietKept ==
  ASSUME TypeOK, TypeOK', PackagesInv, NEW p \in Procs, pc[p] # "idle", NEW l,
         Goto(p, l), UNCHANGED Local, CommandInv(p)',
         UNCHANGED <<repos, there, used, incidents>>,
         \/ running' = running \/ running' = TRUE
         \/ cmd[p].clean /\ cmd[p].kind = "rpmbuild",
         l \notin {"rr", "ar"},
         dir[p] # NoDir => l # "up",
         l \in {"upgrade", "sources", "query", "install"} /\ dir[p] # NoDir
           => pc[p] \in {"up", "upgrade", "sources", "query"} \/ cmd[p].kind = "rpminstall",
         cmd[p].kind = "rpminstall" /\ dir[p] # NoDir =>
           /\ pc[p] \in {"install", "installed", "removeRepo"} =>
                l \in {"installed", "removeRepo"}
           /\ l \in {"installed", "removeRepo"} =>
                pc[p] \in {"ar", "install", "installed"}
           /\ l \notin {"upgrade", "sources", "query", "install"}
  PROVE  PackagesInv'
<1>1. Others(p) /\ Stays(p, l) /\ took'[p] = took[p] /\ LeftInv /\ FoundInv
  BY Controls DEF PackagesInv
<1>2. CommandInv(p) /\ cmd[p].kind \in {"rpminstall", "rpmbuild"}
  BY IsActive, KindOf DEF PackagesInv
<1>3. \A q \in Procs : CommandInv(q)'
  BY <1>1, CommandsKept
<1>4. \A q, r \in Procs : q # r => PairInv(q, r)'
  BY <1>1, PairsKept
<1>5. \A n \in Names : Remover(p, n) => Remover(p, n)'
  BY <1>1 DEF Stays, Remover, Name
<1>6. LeftInv'
  BY <1>1, <1>2, <1>5, LeftKept DEF Stays
<1>7. FoundInv'
  <2>1. Name(p)' = Name(p) /\ (Undisturbed' => Undisturbed)
    BY <1>1 DEF Stays, Name, Undisturbed
  <2>2. Undisturbed' /\ l \in {"up", "upgrade", "sources", "query", "install"} /\ dir[p] # NoDir
          => repos[Name(p)] = dir[p]
    BY <1>1, <1>2, <2>1 DEF FoundInv
  <2>3. Undisturbed' /\ dir[p] # NoDir => took[p] \subseteq {dir[p]}
    BY <1>1, <2>1 DEF FoundInv
  <2> QED
    BY <1>1, <2>1, <2>2, <2>3, FoundKept DEF Stays
<1> QED
  BY <1>3, <1>4, <1>6, <1>7 DEF PackagesInv

\* A command ends without a directory that it would leave unnoticed.
LEMMA GoneKept ==
  ASSUME TypeOK, TypeOK', PackagesInv, NEW p \in Procs, Exit(p),
         UNCHANGED <<repos, there, used>>, incidents \subseteq incidents',
         \/ running' = running
         \/ pc[p] # "idle" /\ cmd[p].clean /\ cmd[p].kind = "rpmbuild",
         \/ dir[p] = NoDir \/ "killed" \in incidents'
         \/ /\ cmd[p].kind = "rpminstall" /\ pc[p] \in {"rr", "ar"}
            /\ "leaked" \in incidents'
  PROVE  PackagesInv'
<1>1. Others(p) /\ Gone(p) /\ LeftInv /\ FoundInv
  BY Controls DEF PackagesInv
<1>2. CommandInv(p)'
  BY <1>1 DEF Gone, CommandInv, Restoring
<1>3. \A q \in Procs : CommandInv(q)'
  BY <1>1, <1>2, CommandsKept
<1>4. \A q, r \in Procs : q # r => PairInv(q, r)'
  BY <1>1, PairsKept
<1>5. \A n \in Names : saved'[p].repos[n] = NoDir
  BY <1>1 DEF Gone, NoContent
<1>6. \A n \in Names : Remover(p, n) => Excused(n)'
  BY <1>1 DEF Remover, Name, Names, Excused
<1>7. LeftInv'
  BY <1>1, <1>5, <1>6, LeftKept DEF Gone
<1>8. FoundInv'
  <2>1. ASSUME NEW n \in Names, Undisturbed' PROVE repos'[n] \notin there' \/ repos'[n] # dir[p]
    <3>1. CASE dir[p] = NoDir
      BY <3>1, DirsAssumption DEF TypeOK
    <3>2. CASE pc[p] \in {"rr", "ar"}
      BY <1>1, <3>2 DEF FoundInv
    <3> QED
      BY <2>1, <3>1, <3>2 DEF Undisturbed
  <2> QED
    BY <1>1, <1>5, <2>1, FoundKept DEF Gone
<1> QED
  BY <1>3, <1>4, <1>7, <1>8 DEF PackagesInv

\* Every return of run().
LEMMA LeaveKept ==
  ASSUME TypeOK, TypeOK', PackagesInv, NEW p \in Procs, Leave(p),
         pc[p] \in {"boot", "copy", "upgrade", "sources", "query", "install",
                    "installed", "build"},
         UNCHANGED <<running, repos, there, used, incidents>>
  PROVE  PackagesInv'
<1>1. CommandInv(p) /\ cmd[p].kind \in {"rpminstall", "rpmbuild"}
  BY IsActive, KindOf DEF PackagesInv
<1>2. CASE dir[p] # NoDir /\ cmd[p].kind = "rpminstall"
  <2>1. Goto(p, "removeRepo") /\ UNCHANGED Local
    BY <1>2 DEF Leave
  <2>2. Stays(p, "removeRepo")
    BY <2>1, Controls
  <2>3. CommandInv(p)'
    BY <1>1, <1>2, <2>2 DEF Stays, CommandInv, Restoring
  <2>4. pc[p] \in {"install", "installed"}
    BY <1>1, <1>2 DEF CommandInv
  <2> QED
    BY <2>1, <2>3, <2>4, QuietKept
<1>3. CASE dir[p] # NoDir /\ cmd[p].kind = "rpmbuild"
  <2>1. Goto(p, "removeDir") /\ UNCHANGED Local
    BY <1>3 DEF Leave
  <2>2. Stays(p, "removeDir")
    BY <2>1, Controls
  <2>3. CommandInv(p)'
    BY <1>1, <1>3, <2>2 DEF Stays, CommandInv, Restoring
  <2> QED
    BY <1>3, <2>1, <2>3, QuietKept
<1>4. CASE dir[p] = NoDir /\ cmd[p].kind = "rpmbuild" /\ cmd[p].clean
  <2>1. Goto(p, "restore") /\ UNCHANGED Local
    BY <1>4 DEF Leave
  <2>2. Stays(p, "restore")
    BY <2>1, Controls
  <2>3. CommandInv(p)'
    BY <1>1, <1>4, <2>2 DEF Stays, CommandInv, Restoring
  <2> QED
    BY <1>4, <2>1, <2>3, QuietKept
<1>5. CASE dir[p] = NoDir /\ ~(cmd[p].kind = "rpmbuild" /\ cmd[p].clean)
  BY <1>5, GoneKept DEF Leave
<1> QED
  BY <1>1, <1>2, <1>3, <1>4, <1>5

LEMMA AddFailsKept ==
  ASSUME TypeOK, TypeOK', PackagesInv, NEW p \in Procs, AddFails(p),
         pc[p] \in {"rr", "ar", "up"}, UNCHANGED <<running, repos, there, used>>
  PROVE  PackagesInv'
<1>1. CommandInv(p) /\ cmd[p].kind \in {"rpminstall", "rpmbuild"}
  BY IsActive, KindOf DEF PackagesInv
<1>2. CASE cmd[p].kind = "rpminstall"
  BY <1>1, <1>2, GoneKept DEF AddFails, CommandInv
<1>3. CASE cmd[p].kind = "rpmbuild"
  <2>1. Goto(p, "removeDir") /\ UNCHANGED Local /\ UNCHANGED incidents
    BY <1>3 DEF AddFails
  <2>2. Stays(p, "removeDir")
    BY <2>1, Controls
  <2>3. CommandInv(p)'
    BY <1>1, <1>3, <2>2 DEF Stays, CommandInv, Restoring
  <2> QED
    BY <1>3, <2>1, <2>3, QuietKept
<1> QED
  BY <1>1, <1>2, <1>3

\* The other steps of which neither a repository nor a directory changes.
LEMMA QuietSteps ==
  ASSUME TypeOK, TypeOK', PackagesInv, NEW p \in Procs,
         \/ StopForSnapshot(p) \/ Boot(p) \/ NoTempDir(p) \/ CopyFails(p) \/ Refused(p)
         \/ Update(p) \/ UpgradeChild(p) \/ PrepareSources(p) \/ BuildFails(p)
         \/ (\E r \in Requirements : Query(p, r)) \/ QueryDone(p) \/ InstallFails(p)
         \/ Done(p) \/ StopForRestore(p)
  PROVE  PackagesInv'
<1>1. CommandInv(p)
  BY DEF PackagesInv
<1>2. ASSUME NEW l, Goto(p, l), UNCHANGED Local, pc[p] # "idle",
             UNCHANGED <<repos, there, used, incidents>>,
             \/ pc[p] = "snapshot" /\ l = "snapshotBoot"
             \/ pc[p] = "boot" /\ l = "copy" /\ cmd[p].prefer
             \/ pc[p] = "boot" /\ l \in {"upgrade", "sources"}
             \/ pc[p] = "up" /\ l \in {"upgrade", "sources"}
             \/ pc[p] = "upgrade" /\ l = "sources"
             \/ pc[p] = "query" /\ l \in {"build", "install"}
             \/ pc[p] = "restore" /\ l = "restoreBoot",
             \/ running' = running \/ running' = TRUE
             \/ pc[p] \in {"snapshot", "restore"}
      PROVE  PackagesInv'
  <2>1. Stays(p, l) /\ took'[p] = took[p]
    BY <1>2, Controls
  <2>2. CommandInv(p)'
    BY <1>1, <1>2, <2>1 DEF Stays, CommandInv, Restoring
  <2> QED
    BY <1>1, <1>2, <2>2, QuietKept DEF CommandInv, Restoring
<1>3. CASE StopForSnapshot(p) \/ StopForRestore(p) \/ QueryDone(p)
  BY <1>2, <1>3 DEF StopForSnapshot, StopForRestore, QueryDone, hostVars, targetVars
<1>4. CASE Boot(p)
  BY <1>2, <1>4, LeaveKept DEF Boot, hostVars, AfterRepository
<1>5. CASE NoTempDir(p) \/ BuildFails(p) \/ InstallFails(p) \/ Done(p)
  BY <1>5, LeaveKept DEF NoTempDir, BuildFails, InstallFails, Done, hostVars, targetVars
<1>6. CASE CopyFails(p) \/ Refused(p)
  BY <1>6, AddFailsKept DEF CopyFails, Refused, hostVars, targetVars
<1>7. CASE Update(p) \/ UpgradeChild(p)
  BY <1>2, <1>7, LeaveKept DEF Update, UpgradeChild, hostVars, AfterRepository
<1>8. CASE PrepareSources(p) \/ \E r \in Requirements : Query(p, r)
  <2>1. /\ UNCHANGED <<running, repos, there, used, incidents, cmd, dir, saved, took>>
        /\ pc[p] \in {"sources", "query"}
        /\ pc' = [pc EXCEPT ![p] = pc'[p]] /\ pc'[p] \in {"query", "build"}
        /\ pc[p] = "query" => pc'[p] = "query"
    BY <1>8 DEF PrepareSources, Query, Goto, targetVars, hostVars, TypeOK
  <2>2. Others(p) /\ Stays(p, pc'[p]) /\ took'[p] = took[p]
    BY <2>1 DEF Others, Stays, TypeOK
  <2>3. CommandInv(p)'
    BY <1>1, <2>1, <2>2 DEF Stays, CommandInv, Restoring
  <2>4. \A q \in Procs : CommandInv(q)'
    BY <2>1, <2>2, <2>3, CommandsKept
  <2>5. \A q, r \in Procs : q # r => PairInv(q, r)'
    BY <2>1, <2>2, PairsKept
  <2>6. cmd[p].kind = "rpmbuild" /\ Name(p)' = Name(p)
    BY <1>1, <2>1 DEF CommandInv, Name
  <2>7. \A n \in Names : Remover(p, n) => Remover(p, n)'
    BY <2>1, <2>2, <2>6 DEF Stays, Remover, Name, Names
  <2>8. LeftInv'
    BY <2>1, <2>2, <2>6, <2>7, LeftKept DEF Stays
  <2>9. FoundInv /\ (Undisturbed' => Undisturbed)
    BY <2>1 DEF PackagesInv, Undisturbed
  <2>10. Undisturbed' /\ dir[p] # NoDir =>
           repos[Name(p)] = dir[p] /\ took[p] \subseteq {dir[p]}
    BY <2>1, <2>9 DEF FoundInv
  <2>11. FoundInv'
    BY <2>1, <2>2, <2>6, <2>10, FoundKept DEF Stays
  <2> QED
    BY <2>4, <2>5, <2>8, <2>11 DEF PackagesInv
<1> QED
  BY <1>3, <1>4, <1>5, <1>6, <1>7, <1>8

LEMMA BeginKept ==
  ASSUME TypeOK, TypeOK', PackagesInv, NEW p \in Procs, NEW c \in Commands, Begin(p, c)
  PROVE  PackagesInv'
<1>1. /\ pc[p] = "idle" /\ pc'[p] \in {"snapshot", "boot", "copy", "install"}
      /\ pc'[p] \in {"snapshot", "boot"} => c.kind = "rpmbuild"
      /\ pc'[p] = "snapshot" => c.clean
      /\ pc'[p] = "copy" => c.prefer
      /\ cmd'[p] = c /\ dir' = dir /\ saved' = saved /\ took' = took
      /\ \A q \in Procs \ {p} : pc'[q] = pc[q] /\ cmd'[q] = cmd[q]
      /\ UNCHANGED <<running, repos, there, used>>
      /\ incidents' = incidents \cup Disturbs(c)
  BY DEF Begin, Goto, TypeOK, targetVars, hostVars
<1>2. CommandInv(p) /\ LeftInv /\ FoundInv
  BY DEF PackagesInv
<1>3. dir[p] = NoDir /\ took[p] = {}
  BY <1>1, <1>2 DEF CommandInv
<1>4. Others(p)
  BY <1>1 DEF Others
<1>5. CommandInv(p)'
  BY <1>1, <1>3 DEF CommandInv, Restoring
<1>6. \A q \in Procs : CommandInv(q)'
  BY <1>1, <1>4, <1>5, CommandsKept
<1>7. ASSUME NEW q \in Procs, q # p, pc[q] # "idle"
      PROVE  /\ c.prefer /\ cmd[q].prefer => "shared" \in incidents'
             /\ c.prefer /\ cmd[q].clean => "clean" \in incidents'
             /\ c.clean /\ cmd[q].prefer => "clean" \in incidents'
  <2>1. cmd[q] \in {cmd[r] : r \in Procs} \ {NoCommand}
    BY <1>7, IsActive
  <2> QED
    BY <1>1, <2>1 DEF Disturbs
<1>8. ASSUME NEW q \in Procs, NEW r \in Procs, q # r PROVE PairInv(q, r)'
  <2>1. PairInv(q, r)
    BY <1>8 DEF PackagesInv
  <2>2. CASE q = p
    BY <1>1, <1>3, <1>7, <1>8, <2>2 DEF PairInv
  <2>3. CASE r = p
    BY <1>1, <1>7, <1>8, <2>1, <2>3 DEF PairInv
  <2>4. CASE q # p /\ r # p
    BY <1>1, <2>1, <2>4 DEF PairInv
  <2> QED
    BY <2>2, <2>3, <2>4
<1>9. LeftInv'
  BY <1>1, <1>3, <1>4, LeftKept DEF Remover
<1>10. FoundInv'
  BY <1>1, <1>3, <1>4, FoundKept
<1> QED
  BY <1>6, <1>8, <1>9, <1>10 DEF PackagesInv

\* The snapshot of a clean build holds no repository that a command is yet to
\* remove, or the two have met.
LEMMA SnapshotKept ==
  ASSUME TypeOK, TypeOK', PackagesInv, NEW p \in Procs, SnapshotTaken(p)
  PROVE  PackagesInv'
<1>1. /\ pc[p] = "snapshotBoot" /\ CommandInv(p) /\ LeftInv /\ FoundInv
      /\ UNCHANGED <<repos, there, used, incidents>>
  BY DEF SnapshotTaken, PackagesInv, hostVars
<1>2. dir[p] = NoDir /\ took[p] = {} /\ cmd[p].clean /\ cmd[p].kind = "rpmbuild"
  BY <1>1 DEF CommandInv
<1>3. CASE Exit(p)
  BY <1>1, <1>2, <1>3, GoneKept
<1>4. CASE ~Exit(p)
  <2>1. /\ pc' = [pc EXCEPT ![p] = "boot"]
        /\ saved' = [saved EXCEPT ![p] = [repos |-> repos, installed |-> installed]]
        /\ UNCHANGED <<cmd, dir, took>>
    BY <1>4 DEF SnapshotTaken, Goto
  <2>2. /\ pc'[p] = "boot" /\ cmd'[p] = cmd[p] /\ dir'[p] = dir[p] /\ took'[p] = took[p]
        /\ saved'[p].repos = repos /\ Others(p)
    BY <2>1 DEF TypeOK, Others
  <2>3. CommandInv(p)'
    BY <1>1, <1>2, <2>2 DEF CommandInv, Restoring
  <2>4. \A q \in Procs : CommandInv(q)'
    BY <1>1, <2>2, <2>3, CommandsKept
  <2>5. ASSUME NEW q \in Procs, NEW r \in Procs, q # r PROVE PairInv(q, r)'
    BY <1>1, <2>1, <2>5 DEF PackagesInv, PairInv, TypeOK
  <2>6. ASSUME NEW q \in Procs, dir[q] # NoDir PROVE "clean" \in incidents
    <3>1. q # p /\ cmd[q].prefer /\ pc[q] # "idle"
      BY <1>2, <2>6 DEF PackagesInv, CommandInv
    <3> QED
      BY <1>1, <1>2, <3>1 DEF PackagesInv, PairInv
  <2>7. ASSUME NEW n \in Names PROVE repos[n] = NoDir \/ Excused(n)'
    BY <1>1, <2>6 DEF LeftInv, Remover, Excused
  <2>8. LeftInv'
    BY <1>1, <1>2, <2>2, <2>7, LeftKept DEF Remover
  <2>9. ASSUME Undisturbed', NEW n \in Names PROVE repos[n] \notin there
    <3>1. Undisturbed /\ "clean" \notin incidents
      BY <1>1, <2>9 DEF Undisturbed
    <3>2. \A q \in Procs : dir[q] = NoDir
      BY <2>6, <3>1
    <3> QED
      BY <1>1, <3>1, <3>2, DirsAssumption DEF FoundInv, TypeOK
  <2>10. FoundInv'
    BY <1>1, <1>2, <2>2, <2>9, FoundKept
  <2> QED
    BY <2>4, <2>5, <2>8, <2>10 DEF PackagesInv
<1> QED
  BY <1>3, <1>4

LEMMA CopyKept ==
  ASSUME TypeOK, TypeOK', PackagesInv, NEW p \in Procs, Copy(p)
  PROVE  PackagesInv'
<1>1. PICK d \in Dirs \ used :
        /\ used' = used \cup {d} /\ there' = there \cup {d}
        /\ dir' = [dir EXCEPT ![p] = d]
  BY DEF Copy
<1>2. /\ pc[p] = "copy" /\ pc' = [pc EXCEPT ![p] = "rr"]
      /\ UNCHANGED <<running, repos, incidents, cmd, saved, took>>
  BY DEF Copy, Goto, targetVars
<1>3. Others(p) /\ pc'[p] = "rr" /\ dir'[p] = d /\ d # NoDir
  BY <1>1, <1>2, DirsAssumption DEF Others, TypeOK
<1>4. LeftInv /\ FoundInv /\ dir[p] = NoDir /\ took[p] = {} /\ cmd[p].prefer
  BY <1>2 DEF PackagesInv, CommandInv
<1>5. \A q \in Procs : dir[q] \in used \cup {NoDir}
  BY DEF PackagesInv, CommandInv
<1>6. CommandInv(p)'
  BY <1>1, <1>2, <1>3, <1>4 DEF CommandInv, Restoring
<1>7. \A q \in Procs : CommandInv(q)'
  BY <1>1, <1>3, <1>5, <1>6, CommandsKept
<1>8. ASSUME NEW q \in Procs, NEW r \in Procs, q # r PROVE PairInv(q, r)'
  <2>1. PairInv(q, r)
    BY <1>8 DEF PackagesInv
  <2>2. dir'[q] # NoDir => dir'[q] # dir'[r]
    BY <1>1, <1>3, <1>5, <1>8, <2>1 DEF PairInv, TypeOK
  <2>3. /\ pc'[q] # "idle" => pc[q] # "idle"
        /\ pc'[r] # "idle" => pc[r] # "idle"
    BY <1>2 DEF TypeOK
  <2> QED
    BY <1>2, <2>1, <2>2, <2>3 DEF PairInv
<1>9. LeftInv'
  BY <1>1, <1>2, <1>3, <1>4, LeftKept DEF Remover
<1>10. \A n \in Names : repos[n] # d /\ \A q \in Procs : saved[q].repos[n] # d
  BY <1>1, <1>3, <1>4 DEF FoundInv
<1>11. NoDir \notin there'
  BY <1>1, DirsAssumption DEF TypeOK
<1>12. FoundInv'
  BY <1>1, <1>2, <1>3, <1>4, <1>10, <1>11, FoundKept
<1> QED
  BY <1>7, <1>8, <1>9, <1>12 DEF PackagesInv

\* The old repository of that name is gone, or the failure is noted.
LEMMA RemoveOldKept ==
  ASSUME TypeOK, TypeOK', PackagesInv, NEW p \in Procs, RemoveOld(p)
  PROVE  PackagesInv'
<1>1. /\ pc[p] = "rr" /\ running /\ ChangeRepo(p, NoDir)
      /\ UNCHANGED <<running, there, used>>
      /\ Others(p) /\ Stays(p, "ar") /\ took'[p] = took[p]
  BY Controls DEF RemoveOld, hostVars
<1>2. CommandInv(p) /\ LeftInv /\ FoundInv /\ dir[p] # NoDir /\ cmd[p].prefer
  BY <1>1 DEF PackagesInv, CommandInv
<1>3. /\ incidents \subseteq incidents'
      /\ \A n \in Names : repos'[n] \in {repos[n], NoDir}
      /\ Undisturbed' => repos'[Name(p)] = NoDir
  BY <1>1 DEF ChangeRepo, Undisturbed, TypeOK, Content, Names, Name
<1>4. CommandInv(p)'
  BY <1>1, <1>2 DEF Stays, CommandInv, Restoring
<1>5. \A q \in Procs : CommandInv(q)'
  BY <1>1, <1>4, CommandsKept
<1>6. \A q, r \in Procs : q # r => PairInv(q, r)'
  BY <1>1, <1>3, PairsKept
<1>7. Name(p)' = Name(p) /\ (Undisturbed' => Undisturbed)
  BY <1>1, <1>3 DEF Stays, Name, Undisturbed
<1>8. \A n \in Names : Remover(p, n) => Remover(p, n)'
  BY <1>1, <1>7 DEF Stays, Remover
<1>9. running' = TRUE
  BY <1>1 DEF TypeOK
<1>10. LeftInv'
  BY <1>1, <1>3, <1>8, <1>9, LeftKept DEF Stays
<1>11. \A n \in Names :
         repos'[n] # dir[p] /\ \A q \in Procs : saved'[q].repos[n] # dir[p]
  BY <1>1, <1>2, <1>3 DEF FoundInv, Others, Stays
<1>12. Undisturbed' => took[p] \subseteq {dir[p]}
  BY <1>2, <1>7 DEF FoundInv
<1>13. FoundInv'
  BY <1>1, <1>2, <1>3, <1>7, <1>11, <1>12, FoundKept DEF Stays
<1> QED
  BY <1>5, <1>6, <1>10, <1>13 DEF PackagesInv

LEMMA AddKept ==
  ASSUME TypeOK, TypeOK', PackagesInv, NEW p \in Procs, Add(p)
  PROVE  PackagesInv'
<1>1. /\ pc[p] = "ar" /\ running /\ UNCHANGED <<running, there, used>>
      /\ Others(p) /\ Stays(p, AfterAr(p)) /\ took'[p] = took[p]
  BY Controls DEF Add, hostVars
<1>2. CommandInv(p) /\ LeftInv /\ FoundInv /\ dir[p] # NoDir /\ cmd[p].prefer
      /\ cmd[p].kind \in {"rpminstall", "rpmbuild"}
  BY <1>1, IsActive, KindOf DEF PackagesInv, CommandInv
<1>3. Name(p)' = Name(p)
  BY <1>1 DEF Stays, Name
<1>4. /\ incidents \subseteq incidents'
      /\ \A n \in Names : repos'[n] = repos[n] \/ (n = Name(p) /\ repos'[n] = dir[p])
      /\ Undisturbed' /\ repos[Name(p)] = NoDir => repos'[Name(p)] = dir[p]
  BY DEF Add, ChangeRepo, Undisturbed, TypeOK, Content, Names, Name
<1>5. CommandInv(p)'
  BY <1>1, <1>2 DEF Stays, CommandInv, Restoring, AfterAr
<1>6. \A q \in Procs : CommandInv(q)'
  BY <1>1, <1>5, CommandsKept
<1>7. \A q, r \in Procs : q # r => PairInv(q, r)'
  BY <1>1, <1>4, <1>2, PairsKept
<1>8. Remover(p, Name(p))'
  BY <1>1, <1>2, <1>3 DEF Stays, Remover, AfterAr, Name
<1>9. \A n \in Names : Remover(p, n) => Remover(p, n)'
  BY <1>8, <1>3 DEF Remover
<1>10. running' = TRUE
  BY <1>1 DEF TypeOK
<1>11. LeftInv'
  BY <1>1, <1>3, <1>4, <1>8, <1>9, <1>10, LeftKept DEF Stays
<1>12. Undisturbed' => Undisturbed
  BY <1>4 DEF Undisturbed
<1>13. Undisturbed' => repos'[Name(p)] = dir[p] /\ took[p] \subseteq {dir[p]}
  BY <1>1, <1>2, <1>4, <1>12 DEF FoundInv
<1>14. pc'[p] \notin {"rr", "ar"}
  BY <1>1 DEF Stays, AfterAr
<1>15. FoundInv'
  BY <1>1, <1>2, <1>3, <1>4, <1>13, <1>14, FoundKept DEF Stays
<1> QED
  BY <1>6, <1>7, <1>11, <1>15 DEF PackagesInv

\* An undisturbed command finds its own directory, and no other.
LEMMA OwnSources ==
  ASSUME TypeOK, PackagesInv, Undisturbed, NEW p \in Procs, pc[p] = "install",
         dir[p] # NoDir, NEW k \in Preferred
  PROVE  Sources(k) = {dir[p]}
<1>1. repos[Name(p)] = dir[p] /\ dir[p] \in there /\ Name(p) \in Names
  BY DEF PackagesInv, FoundInv, CommandInv, Restoring, Name, Names
<1>2. ASSUME NEW n \in Names, repos[n] \in there PROVE repos[n] = dir[p]
  <2>1. PICK q \in Procs : dir[q] = repos[n]
    BY <1>2 DEF PackagesInv, FoundInv
  <2>2. dir[q] # NoDir
    BY <1>2, <2>1, DirsAssumption DEF TypeOK
  <2>3. cmd[q].prefer /\ pc[q] # "idle" /\ cmd[p].prefer
    BY <2>2 DEF PackagesInv, CommandInv
  <2>4. q = p
    BY <2>3 DEF PackagesInv, PairInv, Undisturbed
  <2> QED
    BY <2>1, <2>4
<1>3. {repos[n] : n \in {m \in Names : repos[m] \in there}} = {dir[p]}
  BY <1>1, <1>2
<1> QED
  BY <1>3 DEF Sources

LEMMA InstallKept ==
  ASSUME TypeOK, TypeOK', PackagesInv, NEW p \in Procs, Install(p)
  PROVE  PackagesInv'
<1> DEFINE new == {k \in wanted[p] : installed[k] = "none"}
           l == IF cmd[p].kind = "rpmbuild" THEN "build" ELSE "installed"
<1>1. /\ pc[p] = "install" /\ running /\ UNCHANGED <<running, repos, there, used, incidents>>
      /\ pc' = [pc EXCEPT ![p] = l] /\ UNCHANGED <<cmd, dir, saved>>
  BY DEF Install, Goto, hostVars
<1>2. PICK from \in [new -> Origins] :
        /\ \A k \in new : from[k] \in Sources(k)
        /\ took' = [took EXCEPT ![p] = {from[k] : k \in new \cap Preferred}]
  BY DEF Install
<1>3. Others(p) /\ Stays(p, l)
  BY <1>1, <1>2 DEF TypeOK, Others, Stays
<1>4. CommandInv(p) /\ LeftInv /\ FoundInv /\ cmd[p].kind \in {"rpminstall", "rpmbuild"}
  BY <1>1, IsActive, KindOf DEF PackagesInv
<1>5. CommandInv(p)'
  BY <1>1, <1>3, <1>4 DEF Stays, CommandInv, Restoring
<1>6. \A q \in Procs : CommandInv(q)'
  BY <1>1, <1>3, <1>5, CommandsKept
<1>7. \A q, r \in Procs : q # r => PairInv(q, r)'
  BY <1>1, <1>3, PairsKept
<1>8. \A n \in Names : Remover(p, n) => Remover(p, n)'
  BY <1>1, <1>3, <1>4 DEF Stays, Remover, Name
<1>9. LeftInv'
  BY <1>1, <1>3, <1>8, LeftKept DEF Stays
<1>10. ASSUME Undisturbed', dir[p] # NoDir PROVE took'[p] \subseteq {dir[p]}
  <2>1. Undisturbed
    BY <1>1, <1>10 DEF Undisturbed
  <2>2. \A k \in new \cap Preferred : from[k] = dir[p]
    BY <1>1, <1>2, <1>10, <2>1, OwnSources
  <2> QED
    BY <1>2, <2>2 DEF TypeOK
<1>11. FoundInv'
  BY <1>1, <1>3, <1>10, FoundKept DEF Stays
<1> QED
  BY <1>6, <1>7, <1>9, <1>11 DEF PackagesInv

\* rpminstall's repository is gone, unless a clean build has stopped the target.
LEMMA RemoveRepoKept ==
  ASSUME TypeOK, TypeOK', PackagesInv, NEW p \in Procs, RemoveRepo(p)
  PROVE  PackagesInv'
<1>1. /\ pc[p] = "removeRepo" /\ UNCHANGED <<running, there, used>>
      /\ Others(p) /\ Stays(p, "removeDir") /\ took'[p] = took[p]
  BY Controls DEF RemoveRepo, hostVars
<1>2. CommandInv(p) /\ LeftInv /\ FoundInv /\ dir[p] # NoDir /\ cmd[p].prefer
      /\ cmd[p].kind \in {"rpminstall", "rpmbuild"}
  BY <1>1, IsActive, KindOf DEF PackagesInv, CommandInv
<1>3. /\ incidents \subseteq incidents'
      /\ \A n \in Names : repos'[n] \in {repos[n], NoDir}
      /\ running => repos'[Name(p)] = NoDir \/ "ignored" \in incidents'
  BY DEF RemoveRepo, ChangeRepo, TypeOK, Content, Names, Name
<1>4. Name(p)' = Name(p) /\ (Undisturbed' => Undisturbed)
  BY <1>1, <1>3 DEF Stays, Name, Undisturbed
<1>5. CommandInv(p)'
  BY <1>1, <1>2 DEF Stays, CommandInv, Restoring
<1>6. \A q \in Procs : CommandInv(q)'
  BY <1>1, <1>5, CommandsKept
<1>7. \A q, r \in Procs : q # r => PairInv(q, r)'
  BY <1>1, <1>2, <1>3, PairsKept
<1>8. ASSUME NEW n \in Names, Remover(p, n)
      PROVE  repos'[n] = NoDir \/ Excused(n)' \/ Remover(p, n)'
  <2>1. CASE cmd[p].kind = "rpmbuild"
    BY <1>1, <1>8, <2>1, <1>4 DEF Stays, Remover, Name
  <2>2. CASE cmd[p].kind = "rpminstall"
    BY <1>1, <1>2, <1>3, <1>8, <2>2 DEF LeftInv, Remover, Excused
  <2> QED
    BY <1>2, <2>1, <2>2
<1>9. LeftInv'
  BY <1>1, <1>3, <1>8, LeftKept DEF Stays
<1>10. Undisturbed' => took[p] \subseteq {dir[p]}
  BY <1>2, <1>4 DEF FoundInv
<1>11. FoundInv'
  BY <1>1, <1>2, <1>3, <1>4, <1>10, FoundKept DEF Stays
<1> QED
  BY <1>6, <1>7, <1>9, <1>11 DEF PackagesInv

LEMMA RemoveDirKept ==
  ASSUME TypeOK, TypeOK', PackagesInv, NEW p \in Procs, RemoveDir(p)
  PROVE  PackagesInv'
<1>1. /\ pc[p] = "removeDir" /\ there' = there \ {dir[p]}
      /\ UNCHANGED <<running, repos, used>>
  BY DEF RemoveDir, targetVars
<1>2. CommandInv(p) /\ LeftInv /\ FoundInv /\ dir[p] # NoDir /\ dir[p] \notin there'
      /\ cmd[p].kind \in {"rpminstall", "rpmbuild"}
  BY <1>1, IsActive, KindOf DEF PackagesInv, CommandInv
<1>3. \A q \in Procs \ {p} : dir[q] # NoDir => dir[q] # dir[p]
  BY DEF PackagesInv, PairInv
<1>4. CASE cmd[p].kind = "rpmbuild" /\ cmd[p].clean
  <2>1. Others(p) /\ Stays(p, "restore") /\ took'[p] = took[p] /\ incidents' = incidents
    BY <1>4, Controls DEF RemoveDir
  <2>2. CommandInv(p)' /\ Name(p)' = Name(p)
    BY <1>1, <1>2, <1>4, <2>1 DEF Stays, CommandInv, Restoring, Name
  <2>3. \A q \in Procs : CommandInv(q)'
    BY <1>1, <1>3, <2>1, <2>2, CommandsKept
  <2>4. \A q, r \in Procs : q # r => PairInv(q, r)'
    BY <1>1, <2>1, PairsKept
  <2>5. \A n \in Names : Remover(p, n) => Remover(p, n)'
    BY <1>1, <2>1, <2>2 DEF Stays, Remover
  <2>6. LeftInv'
    BY <1>1, <2>1, <2>5, LeftKept DEF Stays
  <2>7. Undisturbed' => took[p] \subseteq {dir[p]}
    BY <1>2, <2>1 DEF FoundInv, Undisturbed
  <2>8. FoundInv'
    BY <1>1, <2>1, <2>7, FoundKept DEF Stays
  <2> QED
    BY <2>3, <2>4, <2>6, <2>8 DEF PackagesInv
<1>5. CASE ~(cmd[p].kind = "rpmbuild" /\ cmd[p].clean)
  <2>1. /\ Exit(p)
        /\ incidents' = IF cmd[p].kind = "rpmbuild" /\ repos[Name(p)] # NoDir
                        THEN incidents \cup {"kept"} ELSE incidents
    BY <1>5 DEF RemoveDir
  <2>2. Others(p) /\ Gone(p) /\ incidents \subseteq incidents'
    BY <2>1, Controls
  <2>3. CommandInv(p)'
    BY <2>2 DEF Gone, CommandInv, Restoring
  <2>4. \A q \in Procs : CommandInv(q)'
    BY <1>1, <1>3, <2>2, <2>3, CommandsKept
  <2>5. \A q, r \in Procs : q # r => PairInv(q, r)'
    BY <2>2, PairsKept
  <2>6. \A n \in Names : saved'[p].repos[n] = NoDir
    BY <2>2 DEF Gone, NoContent
  <2>7. \A n \in Names : Remover(p, n) => repos'[n] = NoDir \/ Excused(n)'
    BY <1>1, <1>2, <2>1 DEF Remover, Name, Excused
  <2>8. LeftInv'
    BY <1>1, <1>2, <2>2, <2>6, <2>7, LeftKept DEF Gone
  <2>9. FoundInv'
    BY <1>1, <1>2, <2>2, <2>6, FoundKept DEF Gone
  <2> QED
    BY <2>4, <2>5, <2>8, <2>9 DEF PackagesInv
<1> QED
  BY <1>4, <1>5

\* What a clean build puts back was there when it began, and excused since.
LEMMA RestoredKept ==
  ASSUME TypeOK, TypeOK', PackagesInv, NEW p \in Procs, Restored(p)
  PROVE  PackagesInv'
<1>1. /\ pc[p] = "restoreBoot" /\ Exit(p) /\ UNCHANGED <<there, used>>
      /\ incidents \subseteq incidents'
      /\ \/ repos' = saved[p].repos
         \/ repos' = repos /\ "kept" \in incidents'
  BY DEF Restored, hostVars
<1>2. /\ LeftInv /\ FoundInv /\ cmd[p].clean /\ cmd[p].kind = "rpmbuild"
      /\ dir[p] \notin there
  BY <1>1, DirsAssumption DEF PackagesInv, CommandInv, Restoring, TypeOK
<1>3. Others(p) /\ Gone(p)
  BY <1>1, Controls
<1>4. CommandInv(p)'
  BY <1>3 DEF Gone, CommandInv, Restoring
<1>5. \A q \in Procs : CommandInv(q)'
  BY <1>1, <1>3, <1>4, CommandsKept
<1>6. \A q, r \in Procs : q # r => PairInv(q, r)'
  BY <1>1, <1>3, PairsKept
<1>7. \A n \in Names : saved'[p].repos[n] = NoDir
  BY <1>3 DEF Gone, NoContent
<1>8. ASSUME NEW n \in Names
      PROVE  /\ repos'[n] \in {repos[n], NoDir} \/ Excused(n)'
             /\ Remover(p, n) => repos'[n] = NoDir \/ Excused(n)'
  <2>1. saved[p].repos[n] = NoDir \/ Excused(n)'
    BY <1>1, <1>2 DEF LeftInv, Excused
  <2>2. Remover(p, n) => n = "preferredpackages"
    BY <1>2 DEF Remover, Name
  <2> QED
    BY <1>1, <2>1, <2>2 DEF Excused
<1>9. LeftInv'
  BY <1>1, <1>2, <1>3, <1>7, <1>8, LeftKept DEF Gone
<1>10. FoundInv'
  BY <1>1, <1>2, <1>3, <1>7, FoundKept DEF Gone
<1> QED
  BY <1>5, <1>6, <1>9, <1>10 DEF PackagesInv

LEMMA PackagesInit == Init => PackagesInv
<1> SUFFICES ASSUME Init PROVE PackagesInv
  OBVIOUS
<1>1. \A p \in Procs : CommandInv(p)
  BY DEF Init, CommandInv, Restoring
<1>2. \A p, q \in Procs : p # q => PairInv(p, q)
  BY DEF Init, PairInv
<1>3. \A n \in Names : repos[n] = NoDir /\ \A p \in Procs : saved[p].repos[n] = NoDir
  BY DEF Init, NoContent
<1>4. LeftInv /\ FoundInv
  BY <1>3, DirsAssumption DEF Init, LeftInv, FoundInv
<1> QED
  BY <1>1, <1>2, <1>4 DEF PackagesInv

LEMMA PackagesNext == TypeOK /\ TypeOK' /\ PackagesInv /\ [Next]_vars => PackagesInv'
<1> SUFFICES ASSUME TypeOK, TypeOK', PackagesInv, [Next]_vars PROVE PackagesInv'
  OBVIOUS
<1>1. ASSUME NEW p \in Procs, Kill(p) PROVE PackagesInv'
  BY <1>1, GoneKept DEF Kill, targetVars, hostVars
<1>2. CASE UNCHANGED vars
  BY <1>2 DEF vars, targetVars, hostVars, procVars, PackagesInv, CommandInv, PairInv,
     LeftInv, Excused, Remover, Name, FoundInv, Undisturbed
<1> QED
  BY <1>1, <1>2, BeginKept, SnapshotKept, CopyKept, RemoveOldKept, AddKept, InstallKept,
     RemoveRepoKept, RemoveDirKept, RestoredKept, QuietSteps DEF Next, Step

\* Each directory and each repository has a command that removes it or an
\* incident that explains it, for any number of commands at once.
THEOREM PackagesInvTheorem == Spec => []PackagesInv
BY TypeCorrect, PackagesInit, PackagesNext, PTL DEF Spec

\* "Caller must delete it after use" (helpers.go:653): when no command is under
\* way, what is left of repositories and directories is due to a kill, to
\* zypper or to a clean build at the same time, or is a build's repository.
THEOREM CleanedUpTheorem == Spec => []CleanedUp
<1>1. TypeOK /\ PackagesInv => CleanedUp
  <2> SUFFICES ASSUME TypeOK, PackagesInv, \A p \in Procs : pc[p] = "idle"
               PROVE  /\ incidents \cap {"killed", "leaked"} = {} => there = {}
                      /\ \A n \in Names : repos[n] = NoDir \/ Excused(n)
    BY DEF CleanedUp, Excused
  <2>1. \A p \in Procs : dir[p] = NoDir
    BY DEF PackagesInv, CommandInv
  <2>2. NoDir \notin there
    BY DirsAssumption DEF TypeOK
  <2> QED
    BY <2>1, <2>2 DEF PackagesInv, LeftInv, Remover
<1> QED
  BY <1>1, TypeCorrect, PackagesInvTheorem, PTL

\* "Directory of packages to be preferred during build" (rpmbuild.go:62,
\* rpminstall.go:42): an undisturbed command takes the preferred packages from
\* its own directory, whatever any earlier command has left.
THEOREM PreferredTheorem == Spec => []PreferredIsUsed
<1>1. PackagesInv => PreferredIsUsed
  BY DEF PackagesInv, FoundInv, Undisturbed, PreferredIsUsed
<1> QED
  BY <1>1, PackagesInvTheorem, PTL

-----------------------------------------------------------------------------
(* The build dependencies.                                                  *)

\* No process runs a clean build where another builds with --build-deps: its
\* restore would take away what the other has installed.
NoOtherRestores ==
  \A p, q \in Procs, c, d \in Commands :
    <<p, c>> \in Requests /\ <<q, d>> \in Requests /\ p # q /\ c.deps => ~d.clean

AsRequested == \A p \in Procs : pc[p] # "idle" => <<p, cmd[p]>> \in Requests

\* Of the process that takes a step, and of the others.
LEMMA OneMoves ==
  ASSUME TypeOK, NEW p \in Procs, Step(p) \/ Kill(p)
  PROVE  /\ pc[p] # "idle"
         /\ \A q \in Procs \ {p} :
              /\ pc'[q] = pc[q] /\ cmd'[q] = cmd[q] /\ todo'[q] = todo[q]
              /\ wanted'[q] = wanted[q]
         /\ \/ pc'[p] = "idle"
            \/ cmd'[p] = cmd[p] /\ (pc[p] # "query" => wanted'[p] = wanted[p])
<1>1. ASSUME \/ Exit(p)
             \/ \E l \in Locations \ {"idle"} : Goto(p, l) /\ UNCHANGED Local
      PROVE  /\ \A q \in Procs \ {p} :
                  /\ pc'[q] = pc[q] /\ cmd'[q] = cmd[q] /\ todo'[q] = todo[q]
                  /\ wanted'[q] = wanted[q]
             /\ \/ pc'[p] = "idle"
                \/ cmd'[p] = cmd[p] /\ (pc[p] # "query" => wanted'[p] = wanted[p])
  BY <1>1 DEF Exit, Goto, Local, TypeOK
<1>2. CASE \/ StopForSnapshot(p) \/ Boot(p) \/ NoTempDir(p) \/ BuildFails(p)
           \/ QueryDone(p) \/ InstallFails(p) \/ Done(p) \/ StopForRestore(p)
  <2>1. \/ Exit(p)
        \/ \E l \in Locations \ {"idle"} : Goto(p, l) /\ UNCHANGED Local
    BY <1>2, LeaveMoves DEF StopForSnapshot, Boot, NoTempDir, BuildFails, QueryDone,
       InstallFails, Done, StopForRestore, AfterRepository, Locations
  <2> QED
    BY <1>1, <1>2, <2>1 DEF StopForSnapshot, Boot, NoTempDir, BuildFails, QueryDone,
       InstallFails, Done, StopForRestore
<1>3. CASE \/ CopyFails(p) \/ Refused(p) \/ Update(p) \/ UpgradeChild(p) \/ RemoveOld(p)
           \/ Add(p) \/ RemoveRepo(p) \/ RemoveDir(p) \/ Restored(p) \/ Kill(p)
  <2>1. \/ Exit(p)
        \/ \E l \in Locations \ {"idle"} : Goto(p, l) /\ UNCHANGED Local
    BY <1>3, LeaveMoves, AddFailsMoves DEF CopyFails, Refused, Update, UpgradeChild,
       RemoveOld, Add, RemoveRepo, RemoveDir, Restored, Kill, AfterRepository, AfterAr,
       Locations
  <2> QED
    BY <1>1, <1>3, <2>1 DEF CopyFails, Refused, Update, UpgradeChild, RemoveOld, Add,
       RemoveRepo, RemoveDir, Restored, Kill
<1>4. CASE SnapshotTaken(p)
  <2>1. CASE Exit(p)
    BY <1>1, <1>4, <2>1 DEF SnapshotTaken
  <2>2. CASE ~Exit(p)
    BY <1>4, <2>2 DEF SnapshotTaken, Goto, TypeOK
  <2> QED
    BY <2>1, <2>2
<1>5. CASE \/ Copy(p) \/ PrepareSources(p) \/ Install(p)
           \/ \E r \in Requirements : Query(p, r)
  BY <1>5 DEF Copy, PrepareSources, Install, Query, Goto, TypeOK
<1> QED
  BY <1>2, <1>3, <1>4, <1>5 DEF Step

LEMMA RequestedNext == TypeOK /\ AsRequested /\ [Next]_vars => AsRequested'
<1> SUFFICES ASSUME TypeOK, AsRequested, [Next]_vars PROVE AsRequested'
  OBVIOUS
<1>1. ASSUME NEW p \in Procs, NEW c \in Commands, <<p, c>> \in Requests, Begin(p, c)
      PROVE  AsRequested'
  BY <1>1 DEF Begin, Goto, TypeOK, AsRequested
<1>2. ASSUME NEW p \in Procs, Step(p) \/ Kill(p) PROVE AsRequested'
  BY <1>2, OneMoves DEF AsRequested
<1>3. CASE UNCHANGED vars
  BY <1>3 DEF vars, procVars, AsRequested
<1> QED
  BY <1>1, <1>2, <1>3 DEF Next

\* What is installed stays, but for a restore.
LEMMA InstalledStays ==
  ASSUME TypeOK, NEW p \in Procs,
         \/ \E c \in Commands : Begin(p, c)
         \/ (Step(p) \/ Kill(p)) /\ pc[p] # "restoreBoot"
  PROVE  \A r \in Requirements : Provided(r) => Provided(r)'
<1> SUFFICES ASSUME NEW r \in Requirements, Provided(r) PROVE Provided(r)'
  OBVIOUS
<1>1. PICK k \in Providers[r] : installed[k] # "none"
  BY DEF Provided
<1>2. k \in Packages
  BY PackagesAssumption
<1> SUFFICES installed'[k] # "none"
  BY DEF Provided
<1>3. ASSUME installed' \in Upgrade PROVE installed'[k] # "none"
  <2>1. "none" \notin Sources(k)
    BY DirsAssumption DEF Sources, TypeOK
  <2> QED
    BY <1>1, <1>2, <1>3, <2>1 DEF Upgrade
<1>4. CASE Update(p) \/ UpgradeChild(p)
  BY <1>1, <1>3, <1>4 DEF Update, UpgradeChild
<1>5. CASE Install(p)
  <2> DEFINE new == {m \in wanted[p] : installed[m] = "none"}
  <2>1. PICK from \in [new -> Origins] :
          installed' = [m \in Packages |-> IF m \in new THEN from[m] ELSE installed[m]]
    BY <1>5 DEF Install
  <2> QED
    BY <1>1, <1>2, <2>1
<1>6. CASE ~(Update(p) \/ UpgradeChild(p) \/ Install(p))
  <2>1. installed' = installed
    BY <1>6 DEF Begin, Step, Kill, StopForSnapshot, SnapshotTaken, Boot, Copy, NoTempDir,
       CopyFails, RemoveOld, Add, Refused, PrepareSources, BuildFails, Query, QueryDone,
       InstallFails, Done, RemoveRepo, RemoveDir, StopForRestore, Restored, targetVars
  <2> QED
    BY <1>1, <2>1
<1> QED
  BY <1>4, <1>5, <1>6

\* How a command comes to query, install and build.
LEMMA Reaches ==
  ASSUME TypeOK, NEW p \in Procs, Step(p) \/ Kill(p),
         pc'[p] \in {"query", "install", "build"}
  PROVE  \/ PrepareSources(p) \/ (\E r \in Requirements : Query(p, r))
         \/ QueryDone(p) \/ Install(p)
         \/ pc'[p] = "install" /\ cmd'[p].kind # "rpmbuild"
<1>1. ASSUME NEW l, Goto(p, l) PROVE pc'[p] = l
  BY <1>1 DEF Goto, TypeOK
<1>2. ASSUME Exit(p) \/ Leave(p) \/ AddFails(p) PROVE FALSE
  <2>1. \E l \in {"idle", "removeRepo", "removeDir", "restore"} : Goto(p, l)
    BY <1>2 DEF Leave, AddFails, Exit
  <2> QED
    BY <1>1, <2>1
<1>3. CASE Add(p)
  <2>1. pc'[p] = AfterAr(p) /\ cmd'[p] = cmd[p]
    BY <1>1, <1>3 DEF Add, Local
  <2> QED
    BY <2>1 DEF AfterAr
<1>4. CASE \/ StopForSnapshot(p) \/ SnapshotTaken(p) \/ Boot(p) \/ Copy(p) \/ NoTempDir(p)
           \/ CopyFails(p) \/ RemoveOld(p) \/ Refused(p) \/ Update(p) \/ UpgradeChild(p)
           \/ BuildFails(p) \/ InstallFails(p) \/ Done(p) \/ RemoveRepo(p)
           \/ RemoveDir(p) \/ StopForRestore(p) \/ Restored(p) \/ Kill(p)
  <2>1. \/ Exit(p) \/ Leave(p) \/ AddFails(p)
        \/ \E l \in Locations \ {"query", "install", "build"} : Goto(p, l)
    BY <1>4 DEF StopForSnapshot, SnapshotTaken, Boot, Copy, NoTempDir, CopyFails,
       RemoveOld, Refused, Update, UpgradeChild, BuildFails, InstallFails, Done,
       RemoveRepo, RemoveDir, StopForRestore, Restored, Kill, AfterRepository, Locations
  <2> QED
    BY <1>1, <1>2, <2>1
<1> QED
  BY <1>3, <1>4 DEF Step

LEMMA DepsNext ==
  ASSUME NoOtherRestores, TypeOK, PackagesInv, AsRequested, DepsInv, [Next]_vars
  PROVE  DepsInv'
<1> USE PackagesAssumption
<1>1. ASSUME NEW p \in Procs, NEW c \in Commands, Begin(p, c) PROVE DepsInv'
  <2>1. \A r \in Requirements : Provided(r) => Provided(r)'
    BY <1>1, InstalledStays
  <2>2. /\ \A q \in Procs \ {p} :
             /\ pc'[q] = pc[q] /\ cmd'[q] = cmd[q] /\ todo'[q] = todo[q]
             /\ wanted'[q] = wanted[q]
        /\ cmd'[p] = c /\ pc'[p] \notin {"query", "build"}
        /\ pc'[p] = "install" => c.kind # "rpmbuild"
    BY <1>1 DEF Begin, Goto, TypeOK
  <2> QED
    BY <2>1, <2>2 DEF DepsInv
<1>2. ASSUME NEW p \in Procs, Step(p) \/ Kill(p) PROVE DepsInv'
  <2> SUFFICES ASSUME NEW q \in Procs, pc'[q] # "idle", cmd'[q].deps,
                      NEW r \in Requirements, Providers[r] # {}
               PROVE  /\ pc'[q] = "query" =>
                           Provided(r)' \/ r \in todo'[q] \/ Providers[r] \cap wanted'[q] # {}
                      /\ pc'[q] = "install" /\ cmd'[q].kind = "rpmbuild" =>
                           Provided(r)' \/ Providers[r] \cap wanted'[q] # {}
                      /\ pc'[q] = "build" => Provided(r)'
    BY DEF DepsInv
  <2>1. pc[p] # "restoreBoot" => (Provided(r) => Provided(r)')
    BY <1>2, InstalledStays
  <2>2. CASE q # p
    <3>1. /\ pc'[q] = pc[q] /\ cmd'[q] = cmd[q] /\ todo'[q] = todo[q]
          /\ wanted'[q] = wanted[q] /\ pc[p] # "idle"
      BY <1>2, <2>2, OneMoves
    <3>2. cmd[p] \in Commands /\ cmd[q] \in Commands
      BY <3>1, IsActive
    <3>3. pc[p] # "restoreBoot"
      BY <2>2, <3>1, <3>2 DEF NoOtherRestores, AsRequested, PackagesInv, CommandInv, Restoring
    <3> QED
      BY <2>1, <3>1, <3>3 DEF DepsInv
  <2>3. CASE q = p /\ pc'[p] \in {"query", "install", "build"}
    <3>1. cmd'[p] = cmd[p] /\ (pc[p] # "query" => wanted'[p] = wanted[p]) /\ pc[p] # "idle"
      BY <1>2, <2>3, OneMoves
    <3>2. CASE PrepareSources(p)
      BY <2>3, <3>1, <3>2 DEF PrepareSources, Goto, TypeOK
    <3>3. ASSUME NEW s \in Requirements, Query(p, s)
          PROVE  /\ pc'[p] = "query"
                 /\ Provided(r)' \/ r \in todo'[p] \/ Providers[r] \cap wanted'[p] # {}
      <4>1. /\ pc[p] = "query" /\ pc' = pc /\ todo'[p] = todo[p] \ {s}
            /\ wanted[p] \subseteq wanted'[p]
            /\ Provided(s) \/ Providers[s] = {} \/ Providers[s] \cap wanted'[p] # {}
        BY <3>3 DEF Query, TypeOK
      <4>2. Provided(r) => Provided(r)'
        BY <2>1, <4>1
      <4>3. Provided(r) \/ r \in todo[p] \/ Providers[r] \cap wanted[p] # {}
        BY <2>3, <3>1, <4>1 DEF DepsInv
      <4> QED
        BY <4>1, <4>2, <4>3
    <3>4. CASE QueryDone(p)
      <4>1. /\ pc[p] = "query" /\ todo[p] = {} /\ wanted'[p] = wanted[p]
            /\ pc'[p] = IF wanted[p] = {} THEN "build" ELSE "install"
        BY <3>4 DEF QueryDone, Goto, Local, TypeOK
      <4>2. Provided(r) \/ Providers[r] \cap wanted[p] # {}
        BY <2>3, <3>1, <4>1 DEF DepsInv
      <4> QED
        BY <2>1, <2>3, <4>1, <4>2
    <3>5. CASE Install(p)
      <4> DEFINE new == {m \in wanted[p] : installed[m] = "none"}
      <4>1. /\ pc[p] = "install"
            /\ pc'[p] = IF cmd[p].kind = "rpmbuild" THEN "build" ELSE "installed"
        BY <3>5 DEF Install, Goto, TypeOK
      <4>2. PICK from \in [new -> Origins] :
              /\ \A k \in new : from[k] \in Sources(k)
              /\ installed' = [m \in Packages |-> IF m \in new THEN from[m] ELSE installed[m]]
        BY <3>5 DEF Install
      <4>3. \A k \in Packages : "none" \notin Sources(k)
        BY DirsAssumption DEF Sources, TypeOK
      <4>4. \A k \in wanted[p] : k \in Packages /\ installed'[k] # "none"
        BY <4>2, <4>3 DEF TypeOK
      <4>5. Provided(r) \/ Providers[r] \cap wanted[p] # {}
        BY <2>3, <3>1, <4>1 DEF DepsInv
      <4>6. Provided(r)'
        BY <2>1, <4>1, <4>4, <4>5 DEF Provided
      <4> QED
        BY <2>3, <4>1, <4>6
    <3> QED
      BY <1>2, <2>3, <3>2, <3>3, <3>4, <3>5, Reaches
  <2> QED
    BY <2>2, <2>3
<1>3. CASE UNCHANGED vars
  BY <1>3 DEF vars, targetVars, procVars, DepsInv, Provided
<1> QED
  BY <1>1, <1>2, <1>3 DEF Next

\* The strengthening of all three theorems: what is there has its remover, and
\* between its query and its build a build's requirements are found, listed or
\* still to be looked at, whatever others install and upgrade meanwhile.
THEOREM InductiveInvTheorem ==
  ASSUME NoOtherRestores
  PROVE  Spec => []InductiveInv
<1>1. Init => AsRequested /\ DepsInv
  BY DEF Init, AsRequested, DepsInv
<1>2. TypeOK /\ PackagesInv /\ AsRequested /\ DepsInv /\ [Next]_vars => DepsInv'
  BY DepsNext
<1>3. PackagesInv /\ DepsInv => InductiveInv
  BY DEF InductiveInv
<1> QED
  BY <1>1, <1>2, <1>3, RequestedNext, TypeCorrect, PackagesInvTheorem, PTL DEF Spec

\* "the list of packages we need to install" (rpmbuild.go:207): when a build
\* with --build-deps begins, every requirement that some package provides has
\* one in the target, for any requirements, providers and other commands.
THEOREM BuildDepsTheorem ==
  ASSUME NoOtherRestores
  PROVE  Spec => []BuildDepsThere
<1>1. InductiveInv => BuildDepsThere
  BY DEF InductiveInv, DepsInv, BuildDepsThere
<1> QED
  BY <1>1, InductiveInvTheorem, PTL
=============================================================================
