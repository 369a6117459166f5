------------------------------ MODULE HostSetup ------------------------------
(***************************************************************************)
(* lmsdk-target autosetup (lmsdk-target/autosetup.go) and what it edits on *)
(* the host (helpers.go): the bridge file, the subordinate ids in          *)
(* /etc/subuid and /etc/subgid, lxc-usernet and the directories, between   *)
(* the stop and the start of the user's containers; and the checks of      *)
(* lmsdk-target initialized (initialized.go), which read the same files.   *)
(* Any number of autosetups run at once, for one user or for several.      *)
(*                                                                         *)
(* An id file is a sequence of entries, each followed by a newline or not. *)
(* A range is numbered by its place above 100000, in units of 65536, of    *)
(* which the 32 bits of an id have room for Width; entries are of one      *)
(* length, so that one is overwritten by another as a whole.               *)
(***************************************************************************)
EXTENDS Naturals, Sequences, FiniteSetsExt

CONSTANTS Procs, Users, Containers,
          OwnerOf,      \* the user of a container
          Runs,         \* command lines: the user behind sudo, and -b
          InitialIds,   \* what the id files may hold to start with
          Width,        \* the ends of ranges are taken modulo Width
          MayFail       \* steps that may fail, see FailingSteps, "start",
                        \* "unwritten" and "killed"

IdFiles == {"uid", "gid"}
Entry == [user : Users, start : Nat, count : Nat, newline : BOOLEAN]

\* The locations where run() may return an error; a Fprintf that fails
\* ("unwritten") and a container that does not start are no errors.
FailingSteps == {"stop", "truncate", "writeBridge", "uid", "gid", "usernet", "dirs"}

ASSUME FailAssumption == MayFail \subseteq FailingSteps \cup {"start", "unwritten", "killed"}
ASSUME OwnerAssumption == OwnerOf \in [Containers -> Users]
ASSUME RunsAssumption == Runs \subseteq [user : Users, ignoreBridge : BOOLEAN] /\ Runs # {}
ASSUME IdsAssumption == InitialIds \subseteq Seq(Entry)
ASSUME WidthAssumption == Width \in Nat \ {0}

VARIABLES up,           \* the containers that run
          bridge,       \* the bridge file: "unset", "empty", "configured"
          ids,          \* the id files
          usernet,      \* users with an entry in lxc-usernet
          dirs,         \* users with their directories
          wasUp,        \* history: the containers that ran to start with
          incidents     \* history: "failed", "killed", "cut" (an edit of the
                        \* bridge file), "unwritten", "start" (of a container)

VARIABLES pc, run,
          todo,         \* containers left to stop, or to start
          stopped,      \* stoppedContainers
          offset,       \* of the open id file, in entries
          next,         \* nextSubIdStart
          result        \* of the last autosetup of the process

filesVars == <<bridge, ids, usernet, dirs>>
vars == <<up, bridge, ids, usernet, dirs, wasUp, incidents,
          pc, run, todo, stopped, offset, next, result>>

Init ==
  /\ up \in SUBSET Containers /\ wasUp = up
  /\ bridge \in {"unset", "configured"}
  /\ \E f \in InitialIds : ids = [i \in IdFiles |-> f]
  /\ usernet = {} /\ dirs = {}
  /\ incidents = {}
  /\ pc = [p \in Procs |-> "idle"]
  /\ run = [p \in Procs |-> CHOOSE r \in Runs : TRUE]
  /\ todo = [p \in Procs |-> {}] /\ stopped = [p \in Procs |-> {}]
  /\ offset = [p \in Procs |-> 0] /\ next = [p \in Procs |-> 0]
  /\ result = [p \in Procs |-> "none"]

-----------------------------------------------------------------------------
(* The id files. *)

\* The entry is a line of its own; a line with two has more than three fields
\* and is passed over.
Alone(f, i) ==
  /\ i = 1 \/ f[i - 1].newline
  /\ i = Len(f) \/ f[i].newline

EntriesOf(f, u) == {i \in DOMAIN f : Alone(f, i) /\ f[i].user = u}

\* mutant: the end of the last range that was read
LastEnd(f) ==
  LET read == {i \in DOMAIN f : Alone(f, i)}
  IN  IF read = {} THEN 0 ELSE (f[Max(read)].start + f[Max(read)].count) % Width

\* The highest end of the ranges that were read.
NextStart(f) ==
  Max({0} \cup {(f[i].start + f[i].count) % Width : i \in {j \in DOMAIN f : Alone(f, j)}})

\* Written where the read had ended, without a newline.
WrittenAt(f, k, e) == IF k < Len(f) THEN [f EXCEPT ![k + 1] = e] ELSE Append(f, e)

\* What initialized checks of these files, with and without -b.
Initialized(u, ignoreBridge) ==
  /\ ignoreBridge \/ bridge = "configured"
  /\ \A i \in IdFiles : EntriesOf(ids[i], u) # {}
  /\ u \in usernet
  /\ u \in dirs

-----------------------------------------------------------------------------
Me(p) == run[p].user
Goto(p, l) == pc' = [pc EXCEPT ![p] = l]
Local == <<run, todo, stopped, offset, next, result>>

Exit(p, r) ==
  /\ Goto(p, "idle")
  /\ todo' = [todo EXCEPT ![p] = {}]
  /\ stopped' = [stopped EXCEPT ![p] = {}]
  /\ offset' = [offset EXCEPT ![p] = 0] /\ next' = [next EXCEPT ![p] = 0]
  /\ result' = [result EXCEPT ![p] = r]
  /\ UNCHANGED run

Begin(p, r) ==
  /\ pc[p] = "idle"
  /\ Goto(p, "stop")
  /\ run' = [run EXCEPT ![p] = r]
  /\ todo' = [todo EXCEPT ![p] = {c \in Containers : OwnerOf[c] = r.user}]
  /\ result' = [result EXCEPT ![p] = "none"]
  /\ UNCHANGED <<stopped, offset, next, up, wasUp, incidents>>
  /\ UNCHANGED filesVars

\* mutant: the list of the stopped containers is not kept
StopOneForgotten(p) ==
  /\ pc[p] = "stop"
  /\ \E c \in todo[p] :
       /\ up' = up \ {c}
       /\ todo' = [todo EXCEPT ![p] = @ \ {c}]
  /\ UNCHANGED <<pc, run, stopped, offset, next, result, wasUp, incidents>>
  /\ UNCHANGED filesVars

StopOne(p) ==
  /\ pc[p] = "stop"
  /\ \E c \in todo[p] :
       /\ up' = up \ {c}
       /\ todo' = [todo EXCEPT ![p] = @ \ {c}]
       /\ stopped' = IF c \in up THEN [stopped EXCEPT ![p] = @ \cup {c}] ELSE stopped
  /\ UNCHANGED <<pc, run, offset, next, result, wasUp, incidents>>
  /\ UNCHANGED filesVars

\* An existing configuration is kept.
CheckBridge(p) ==
  /\ pc[p] = "stop" /\ todo[p] = {}
  /\ Goto(p, IF bridge = "configured" \/ run[p].ignoreBridge THEN "uid" ELSE "truncate")
  /\ UNCHANGED Local /\ UNCHANGED filesVars /\ UNCHANGED <<up, wasUp, incidents>>

\* mutant: the file is removed to be made anew
RemoveBridge(p) ==
  /\ pc[p] = "truncate"
  /\ bridge' = "missing"
  /\ Goto(p, "writeBridge")
  /\ UNCHANGED Local /\ UNCHANGED <<ids, usernet, dirs, up, wasUp, incidents>>

TruncateBridge(p) ==
  /\ pc[p] = "truncate"
  /\ bridge' = "empty"
  /\ Goto(p, "writeBridge")
  /\ UNCHANGED Local /\ UNCHANGED <<ids, usernet, dirs, up, wasUp, incidents>>

WriteBridge(p) ==
  /\ pc[p] = "writeBridge"
  /\ bridge' = "configured"
  /\ Goto(p, "uid")
  /\ UNCHANGED Local /\ UNCHANGED <<ids, usernet, dirs, up, wasUp, incidents>>

After(f) == IF f = "uid" THEN "gid" ELSE "usernet"
WriteOf(f) == IF f = "uid" THEN "writeUid" ELSE "writeGid"

\* mutant: an entry in the other file counts as well
ReadIdsOfAny(p, f) ==
  /\ pc[p] = f
  /\ IF \E i \in IdFiles : EntriesOf(ids[i], Me(p)) # {}
     THEN Goto(p, After(f)) /\ UNCHANGED <<offset, next>>
     ELSE /\ Goto(p, WriteOf(f))
          /\ offset' = [offset EXCEPT ![p] = Len(ids[f])]
          /\ next' = [next EXCEPT ![p] = NextStart(ids[f])]
  /\ UNCHANGED <<run, todo, stopped, result>>
  /\ UNCHANGED filesVars /\ UNCHANGED <<up, wasUp, incidents>>

\* GetOrCreateIdRange: the file is read to its end, or to the user's entry ...
ReadIds(p, f) ==
  /\ pc[p] = f
  /\ IF EntriesOf(ids[f], Me(p)) # {}
     THEN Goto(p, After(f)) /\ UNCHANGED <<offset, next>>
     ELSE /\ Goto(p, WriteOf(f))
          /\ offset' = [offset EXCEPT ![p] = Len(ids[f])]
          /\ next' = [next EXCEPT ![p] = NextStart(ids[f])]
  /\ UNCHANGED <<run, todo, stopped, result>>
  /\ UNCHANGED filesVars /\ UNCHANGED <<up, wasUp, incidents>>

\* The error of the write is not looked at.
Unwritten == "unwritten" \in MayFail /\ incidents' = incidents \cup {"unwritten"}

NewEntry(p) == [user |-> Me(p), start |-> next[p], count |-> 1, newline |-> FALSE]

\* mutant: the file is opened for appending
AppendIds(p, f) ==
  /\ pc[p] = WriteOf(f)
  /\ ids' = [ids EXCEPT ![f] = Append(@, NewEntry(p))]
  /\ Goto(p, After(f))
  /\ UNCHANGED Local /\ UNCHANGED <<bridge, usernet, dirs, up, wasUp, incidents>>

\* ... and the new entry written there, over what came there in between.
WriteIds(p, f) ==
  /\ pc[p] = WriteOf(f)
  /\ \/ ids' = [ids EXCEPT ![f] = WrittenAt(@, offset[p], NewEntry(p))] /\ UNCHANGED incidents
     \/ Unwritten /\ UNCHANGED ids
  /\ Goto(p, After(f))
  /\ UNCHANGED Local /\ UNCHANGED <<bridge, usernet, dirs, up, wasUp>>

EditLxcUsernet(p) ==
  /\ pc[p] = "usernet"
  /\ Me(p) \in usernet \/ bridge = "configured"
  /\ \/ usernet' = usernet \cup {Me(p)} /\ UNCHANGED incidents
     \/ Me(p) \notin usernet /\ Unwritten /\ UNCHANGED usernet
  /\ Goto(p, "dirs")
  /\ UNCHANGED Local /\ UNCHANGED <<bridge, ids, dirs, up, wasUp>>

EnsureRequiredDirectoriesExist(p) ==
  /\ pc[p] = "dirs"
  /\ dirs' = dirs \cup {Me(p)}
  /\ todo' = [todo EXCEPT ![p] = stopped[p]]
  /\ Goto(p, "start")
  /\ UNCHANGED <<run, stopped, offset, next, result>>
  /\ UNCHANGED <<bridge, ids, usernet, up, wasUp, incidents>>

\* A failure to start is printed.
StartOne(p) ==
  /\ pc[p] = "start"
  /\ \E c \in todo[p] :
       /\ todo' = [todo EXCEPT ![p] = @ \ {c}]
       /\ \/ up' = up \cup {c} /\ UNCHANGED incidents
          \/ "start" \in MayFail /\ incidents' = incidents \cup {"start"} /\ UNCHANGED up
  /\ UNCHANGED <<pc, run, stopped, offset, next, result, wasUp>>
  /\ UNCHANGED filesVars

Finish(p) ==
  /\ pc[p] = "start" /\ todo[p] = {}
  /\ Exit(p, "ok")
  /\ UNCHANGED <<up, wasUp, incidents>> /\ UNCHANGED filesVars

\* run() returns an error from any step before the restart, the one of
\* lxc-usernet for want of a bridge included: the containers stay stopped.
Fails(p) ==
  /\ \/ pc[p] \in MayFail \cap FailingSteps
     \/ pc[p] = "usernet" /\ Me(p) \notin usernet /\ bridge # "configured"
  /\ Exit(p, "failed")
  /\ incidents' = incidents \cup
       (IF pc[p] = "writeBridge" THEN {"failed", "cut"} ELSE {"failed"})
  /\ UNCHANGED <<up, wasUp>> /\ UNCHANGED filesVars

Kill(p) ==
  /\ "killed" \in MayFail
  /\ pc[p] # "idle"
  /\ Exit(p, "killed")
  /\ incidents' = incidents \cup
       (IF pc[p] = "writeBridge" THEN {"killed", "cut"} ELSE {"killed"})
  /\ UNCHANGED <<up, wasUp>> /\ UNCHANGED filesVars

Next ==
  \E p \in Procs :
    \/ \E r \in Runs : Begin(p, r)
    \/ StopOne(p) \/ CheckBridge(p) \/ TruncateBridge(p) \/ WriteBridge(p)
    \/ \E f \in IdFiles : ReadIds(p, f) \/ WriteIds(p, f)
    \/ EditLxcUsernet(p) \/ EnsureRequiredDirectoriesExist(p)
    \/ StartOne(p) \/ Finish(p) \/ Fails(p) \/ Kill(p)

Spec == Init /\ [][Next]_vars

-----------------------------------------------------------------------------
(* Properties. *)

Locations == {"idle", "stop", "truncate", "writeBridge", "uid", "writeUid",
              "gid", "writeGid", "usernet", "dirs", "start"}

TypeOK ==
  /\ up \subseteq Containers /\ wasUp \subseteq Containers
  /\ bridge \in {"unset", "empty", "configured"}
  /\ ids \in [IdFiles -> Seq(Entry)]
  /\ usernet \subseteq Users /\ dirs \subseteq Users
  /\ incidents \subseteq {"failed", "killed", "cut", "unwritten", "start"}
  /\ pc \in [Procs -> Locations]
  /\ run \in [Procs -> Runs]
  /\ todo \in [Procs -> SUBSET Containers]
  /\ stopped \in [Procs -> SUBSET Containers]
  /\ offset \in [Procs -> Nat] /\ next \in [Procs -> Nat]
  /\ result \in [Procs -> {"none", "ok", "failed", "killed"}]

\* "if our user has already a entry, we do not need to care" (helpers.go:125):
\* an entry that was found is found from then on, with the same range, whatever
\* autosetups run at once.
RangeIsKept ==
  [][ids' # ids =>
       \A f \in IdFiles : \A i \in DOMAIN ids[f] : Alone(ids[f], i) =>
         /\ Alone(ids'[f], i)
         /\ \A k \in {"user", "start", "count"} : ids'[f][i][k] = ids[f][i][k]]_vars

\* Two ranges that are found in a file for different users have no id in
\* common, unless one of them ends at or beyond the 32 bits.
Disjoint(f) ==
  LET found == {i \in DOMAIN f : Alone(f, i)}
      end(i) == f[i].start + f[i].count
  IN  \A i, j \in found :
        f[i].user # f[j].user /\ end(i) < Width /\ end(j) < Width =>
          end(i) <= f[j].start \/ end(j) <= f[i].start

\* "sub id" ranges (helpers.go:139) are the users' own: no id is in the ranges
\* of two users, however many autosetups write into the files at once.
RangesDisjoint == \A f \in IdFiles : Disjoint(ids[f])

\* "Creates a default config for the container backend" (autosetup.go:41), the
\* one initialized checks for: after an autosetup that reported no error,
\* initialized finds the backend ready, unless another one is under way or has
\* left the bridge file cut off, or a write failed.
SetupIsEnough ==
  (\A p \in Procs : pc[p] = "idle") /\ incidents \cap {"cut", "unwritten"} = {} =>
    \A p \in Procs : result[p] = "ok" => Initialized(Me(p), run[p].ignoreBridge)

\* "This will ... restart all your containers" (autosetup.go:60): when no
\* autosetup has failed or was killed and every start worked, the containers
\* that ran before run afterwards, however many autosetups stopped them at once.
ContainersComeBack ==
  (\A p \in Procs : pc[p] = "idle") /\ incidents \cap {"failed", "killed", "start"} = {} =>
    wasUp \subseteq up

-----------------------------------------------------------------------------
(* What keeps the properties, step by step. *)

\* An entry written after the first k is a line of its own.
Ended(f, k) == k = 0 \/ f[k].newline

\* The place a process has found: only entries made by autosetups follow, and
\* if its entry will be a line of its own, its range is above all before it.
PlaceInv(p, f) ==
  pc[p] = WriteOf(f) =>
    /\ offset[p] <= Len(ids[f])
    /\ \A i \in offset[p] + 1 .. Len(ids[f]) : ~ids[f][i].newline
    /\ Ended(ids[f], offset[p]) =>
         \A i \in 1 .. offset[p] : Alone(ids[f], i) =>
           (ids[f][i].start + ids[f][i].count) % Width <= next[p]

\* A container that the process has stopped and not yet tried to start again.
Owes(p, c) == pc[p] # "idle" /\ c \in IF pc[p] = "start" THEN todo[p] ELSE stopped[p]

\* A container that ran and is down has an autosetup that is to start it.
OwedInv ==
  \A c \in wasUp :
    \/ c \in up
    \/ incidents \cap {"failed", "killed", "start"} # {}
    \/ \E p \in Procs : Owes(p, c)

\* With several users as well, between any two steps (helpers.go:91-145,
\* autosetup.go:55-162): a new range is above the old ones, and what was
\* stopped is owed; RangesDisjoint and ContainersComeBack follow from it.
HostInv ==
  /\ RangesDisjoint /\ \A p \in Procs, f \in IdFiles : PlaceInv(p, f)
  /\ OwedInv

\* The new entry is a line of its own; it is still to be written, or another
\* autosetup of the user has written the very same.
OnePlaceInv(p, f) ==
  pc[p] = WriteOf(f) =>
    /\ Ended(ids[f], offset[p])
    /\ \/ Len(ids[f]) = offset[p] /\ next[p] = NextStart(ids[f])
       \/ Len(ids[f]) = offset[p] + 1 /\ ids[f][Len(ids[f])] = NewEntry(p)

Past(p, locations) == pc[p] \in locations \/ result[p] = "ok"
Written == "unwritten" \notin incidents

\* What an autosetup has behind it is there.
DoneInv(p) ==
  /\ Past(p, {"uid", "writeUid", "gid", "writeGid", "usernet", "dirs", "start"}) =>
       run[p].ignoreBridge \/ bridge # "unset"
  /\ Past(p, {"gid", "writeGid", "usernet", "dirs", "start"}) /\ Written =>
       EntriesOf(ids["uid"], Me(p)) # {}
  /\ Past(p, {"usernet", "dirs", "start"}) /\ Written => EntriesOf(ids["gid"], Me(p)) # {}
  /\ Past(p, {"dirs", "start"}) /\ Written => Me(p) \in usernet
  /\ Past(p, {"start"}) => Me(p) \in dirs

\* The autosetups of one user, however many (helpers.go:91-145,
\* autosetup.go:55-162): they write one entry at one place, and none undoes
\* what another has done; RangeIsKept and SetupIsEnough follow from it.
SetupInv ==
  /\ \A f \in IdFiles, r \in Runs : Ended(ids[f], Len(ids[f])) \/ EntriesOf(ids[f], r.user) # {}
  /\ \A p \in Procs, f \in IdFiles : OnePlaceInv(p, f)
  /\ bridge = "empty" => "cut" \in incidents \/ \E p \in Procs : pc[p] = "writeBridge"
  /\ \A p \in Procs : DoneInv(p)

\* What autosetups (autosetup.go:55-162) keep from step to step.
InductiveInv == HostInv /\ SetupInv
=============================================================================
