--------------------------- MODULE HostSetupProofs ---------------------------
(* Autosetups at once, however many: the ranges they write are disjoint and *)
(* the containers come back; those of one user keep each other's ranges,    *)
(* and leave what initialized asks for.  The id mapping that create makes   *)
(* from a range is right.                                                   *)
EXTENDS HostSetup, IdMap, WellFoundedInduction, TLAPS

USE WidthAssumption DEF IdFiles, Goto, Local, filesVars

-----------------------------------------------------------------------------
(* The id files. *)

\* A set of numbers that has an upper bound has a greatest one.
LEMMA MaxIsGreatest ==
  ASSUME NEW S, S # {}, NEW n \in Nat, S \subseteq 0 .. n
  PROVE  Max(S) \in S /\ \A x \in S : x <= Max(S)
<1> DEFINE T == {n - x : x \in S}
<1>1. T \subseteq Nat /\ T # {}
  OBVIOUS
<1>2. PICK t \in T : \A y \in T : ~ (<<y, t>> \in OpToRel(<, Nat))
  <2> HIDE DEF T
  <2> QED
    BY <1>1, NatLessThanWellFounded, WFMin
<1>3. PICK m \in S : t = n - m
  OBVIOUS
<1>4. \A x \in S : ~ (n - x < n - m)
  BY <1>1, <1>2, <1>3 DEF OpToRel
<1>5. \E x \in S : \A y \in S : x >= y
  BY <1>4
<1> QED
  BY <1>5 DEF Max

\* NextStart is at or above the end of every range that is read.
LEMMA NextStartAbove ==
  ASSUME NEW f \in Seq(Entry)
  PROVE  /\ NextStart(f) \in Nat
         /\ \A i \in DOMAIN f : Alone(f, i) => (f[i].start + f[i].count) % Width <= NextStart(f)
<1> DEFINE S == {0} \cup {(f[i].start + f[i].count) % Width : i \in {j \in DOMAIN f : Alone(f, j)}}
<1>1. ASSUME NEW i \in DOMAIN f PROVE (f[i].start + f[i].count) % Width \in 0 .. Width
  <2>1. f[i] \in Entry
    OBVIOUS
  <2>2. f[i].start + f[i].count \in Nat
    BY <2>1 DEF Entry
  <2> QED
    BY <2>2
<1>2. S # {} /\ S \subseteq 0 .. Width
  BY <1>1
<1>3. NextStart(f) = Max(S)
  BY DEF NextStart
<1>4. \A i \in DOMAIN f : Alone(f, i) => (f[i].start + f[i].count) % Width \in S
  OBVIOUS
<1> HIDE DEF S
<1>5. Max(S) \in S /\ \A x \in S : x <= Max(S)
  BY <1>2, MaxIsGreatest
<1> QED
  <2>1. Max(S) \in Nat
    <3>1. Max(S) \in 0 .. Width
      BY <1>2, <1>5
    <3> QED
      BY <3>1
  <2>2. ASSUME NEW i \in DOMAIN f, Alone(f, i)
        PROVE  (f[i].start + f[i].count) % Width <= Max(S)
    BY <1>4, <1>5, <2>2
  <2> QED
    BY <1>3, <2>1, <2>2

\* A write after the first k entries changes the next one, or adds it.
LEMMA WrittenEntries ==
  ASSUME NEW f \in Seq(Entry), NEW k \in 0 .. Len(f), NEW e \in Entry
  PROVE  LET g == WrittenAt(f, k, e)
         IN  /\ g \in Seq(Entry)
             /\ Len(g) = IF k < Len(f) THEN Len(f) ELSE Len(f) + 1
             /\ g[k + 1] = e
             /\ \A i \in DOMAIN f : i # k + 1 => g[i] = f[i]
<1>1. CASE k < Len(f)
  BY <1>1 DEF WrittenAt
<1>2. CASE k = Len(f)
  BY <1>2 DEF WrittenAt
<1> QED
  BY <1>1, <1>2

\* Of the lines after that place none is found, and the new entry is only if
\* what is before it ended.
LEMMA WrittenAlone ==
  ASSUME NEW f \in Seq(Entry), NEW k \in 0 .. Len(f), NEW e \in Entry, ~e.newline,
         \A i \in k + 1 .. Len(f) : ~f[i].newline
  PROVE  LET g == WrittenAt(f, k, e)
         IN  \A i \in DOMAIN g : Alone(g, i) =>
               \/ i = k + 1 /\ Ended(f, k)
               \/ i \in 1 .. k /\ Alone(f, i) /\ g[i] = f[i]
<1> DEFINE g == WrittenAt(f, k, e)
<1>1. /\ g \in Seq(Entry) /\ Len(g) >= Len(f) /\ Len(g) >= k + 1
      /\ g[k + 1] = e
      /\ \A i \in DOMAIN f : i # k + 1 => g[i] = f[i]
      /\ Len(g) = Len(f) \/ (Len(g) = Len(f) + 1 /\ k = Len(f))
  <2>1. Len(g) = IF k < Len(f) THEN Len(f) ELSE Len(f) + 1
    BY WrittenEntries
  <2>2. g \in Seq(Entry) /\ g[k + 1] = e /\ \A i \in DOMAIN f : i # k + 1 => g[i] = f[i]
    BY WrittenEntries
  <2> HIDE DEF g
  <2> QED
    BY <2>1, <2>2
<1> HIDE DEF g
<1>2. \A i \in 1 .. k : g[i] = f[i]
  BY <1>1
<1>3. \A i \in k + 1 .. Len(g) : ~g[i].newline
  BY <1>1
<1>4. SUFFICES ASSUME NEW i \in DOMAIN g, Alone(g, i)
               PROVE  \/ i = k + 1 /\ Ended(f, k)
                      \/ i \in 1 .. k /\ Alone(f, i) /\ g[i] = f[i]
  BY DEF g
<1>5. i \in 1 .. Len(g) /\ (i = 1 \/ g[i - 1].newline) /\ (i = Len(g) \/ g[i].newline)
  BY <1>1, <1>4 DEF Alone
<1>6. i <= k + 1
  <2> SUFFICES ASSUME i > k + 1 PROVE FALSE
    BY <1>5
  <2>1. i - 1 \in k + 1 .. Len(g) /\ i # 1
    BY <1>1, <1>5
  <2> QED
    BY <1>3, <1>5, <2>1
<1>7. CASE i = k + 1
  BY <1>2, <1>5, <1>7 DEF Ended
<1>8. CASE i <= k
  <2>1. i # Len(g) /\ g[i].newline /\ g[i] = f[i]
    BY <1>1, <1>2, <1>5, <1>8
  <2>2. i = 1 \/ f[i - 1].newline
    BY <1>2, <1>5, <1>8
  <2> QED
    BY <1>5, <1>8, <2>1, <2>2 DEF Alone
<1> QED
  BY <1>5, <1>6, <1>7, <1>8

\* The ranges stay disjoint when the new one is above those before it.
LEMMA WrittenDisjoint ==
  ASSUME NEW f \in Seq(Entry), NEW k \in 0 .. Len(f), NEW e \in Entry, ~e.newline,
         \A i \in k + 1 .. Len(f) : ~f[i].newline,
         Ended(f, k) => \A i \in 1 .. k : Alone(f, i) =>
                          (f[i].start + f[i].count) % Width <= e.start,
         Disjoint(f)
  PROVE  Disjoint(WrittenAt(f, k, e))
<1> DEFINE g == WrittenAt(f, k, e)
<1>1. g \in Seq(Entry) /\ g[k + 1] = e
  BY WrittenEntries
<1>2. \A i \in DOMAIN g : Alone(g, i) =>
        \/ i = k + 1 /\ Ended(f, k)
        \/ i \in 1 .. k /\ i \in DOMAIN f /\ Alone(f, i) /\ g[i] = f[i]
  BY WrittenAlone
<1> HIDE DEF g
<1>3. \A n \in Nat : n < Width => n % Width = n
  OBVIOUS
<1>4. ASSUME NEW i \in DOMAIN g, NEW j \in DOMAIN g, Alone(g, i), Alone(g, j),
             i # k + 1, j = k + 1, g[i].start + g[i].count < Width
      PROVE  g[i].start + g[i].count <= g[j].start
  <2>1. i \in 1 .. k /\ i \in DOMAIN f /\ Alone(f, i) /\ g[i] = f[i] /\ Ended(f, k)
    BY <1>2, <1>4
  <2>2. (f[i].start + f[i].count) % Width <= e.start
    BY <2>1
  <2>3. f[i].start + f[i].count \in Nat
    <3>1. f[i] \in Entry
      BY <2>1
    <3> QED
      BY <3>1 DEF Entry
  <2> QED
    BY <1>1, <1>3, <1>4, <2>1, <2>2, <2>3
<1>5. ASSUME NEW i \in DOMAIN g, NEW j \in DOMAIN g, Alone(g, i), Alone(g, j),
             i # k + 1, j # k + 1, g[i].user # g[j].user,
             g[i].start + g[i].count < Width, g[j].start + g[j].count < Width
      PROVE  \/ g[i].start + g[i].count <= g[j].start
             \/ g[j].start + g[j].count <= g[i].start
  BY <1>2, <1>5 DEF Disjoint
<1> QED
  BY <1>4, <1>5 DEF Disjoint, g

-----------------------------------------------------------------------------
(* Types. *)

LEMMA TypeInit == Init => TypeOK
BY IdsAssumption, RunsAssumption DEF Init, TypeOK, Locations

\* What a process leaves of its own state is well typed.
LEMMA ExitType ==
  ASSUME TypeOK, NEW p \in Procs, NEW r \in {"ok", "failed", "killed"}, Exit(p, r)
  PROVE  /\ pc' \in [Procs -> Locations] /\ run' \in [Procs -> Runs]
         /\ todo' \in [Procs -> SUBSET Containers] /\ stopped' \in [Procs -> SUBSET Containers]
         /\ offset' \in [Procs -> Nat] /\ next' \in [Procs -> Nat]
         /\ result' \in [Procs -> {"none", "ok", "failed", "killed"}]
BY DEF TypeOK, Exit, Locations

LEMMA NewEntryType ==
  ASSUME TypeOK, NEW p \in Procs
  PROVE  NewEntry(p) \in Entry /\ ~NewEntry(p).newline
<1>1. Me(p) \in Users
  BY RunsAssumption DEF TypeOK, Me
<1>2. next[p] \in Nat
  BY DEF TypeOK
<1> QED
  BY <1>1, <1>2 DEF NewEntry, Entry

LEMMA TypeNext == TypeOK /\ [Next]_vars => TypeOK'
<1> SUFFICES ASSUME TypeOK, [Next]_vars PROVE TypeOK'
  OBVIOUS
<1>1. ASSUME NEW p \in Procs, NEW r \in Runs, Begin(p, r) PROVE TypeOK'
  BY <1>1 DEF TypeOK, Begin, Locations
<1>2. ASSUME NEW p \in Procs, StopOne(p) \/ StartOne(p) PROVE TypeOK'
  <2>1. CASE StopOne(p)
    BY <2>1 DEF TypeOK, StopOne
  <2>2. CASE StartOne(p)
    <3>1. todo' \in [Procs -> SUBSET Containers]
      BY <2>2 DEF TypeOK, StartOne
    <3>2. up' \subseteq Containers /\ incidents' \subseteq incidents \cup {"start"}
      BY <2>2 DEF TypeOK, StartOne
    <3> QED
      BY <2>2, <3>1, <3>2 DEF TypeOK, StartOne
  <2> QED
    BY <1>2, <2>1, <2>2
<1>3. ASSUME NEW p \in Procs, CheckBridge(p) \/ TruncateBridge(p) \/ WriteBridge(p) PROVE TypeOK'
  BY <1>3 DEF TypeOK, CheckBridge, TruncateBridge, WriteBridge, Locations
<1>4. ASSUME NEW p \in Procs, NEW f \in IdFiles, ReadIds(p, f) PROVE TypeOK'
  <2>1. Len(ids[f]) \in Nat /\ NextStart(ids[f]) \in Nat
    BY NextStartAbove DEF TypeOK
  <2>2. After(f) \in Locations /\ WriteOf(f) \in Locations
    BY DEF After, WriteOf, Locations
  <2>3. CASE EntriesOf(ids[f], Me(p)) # {}
    BY <1>4, <2>2, <2>3, ZenonT(60) DEF TypeOK, ReadIds
  <2>4. CASE EntriesOf(ids[f], Me(p)) = {}
    <3>1. pc' \in [Procs -> Locations]
      BY <1>4, <2>2, <2>4 DEF TypeOK, ReadIds
    <3>2. /\ offset' = [offset EXCEPT ![p] = Len(ids[f])]
          /\ next' = [next EXCEPT ![p] = NextStart(ids[f])]
      BY <1>4, <2>4 DEF ReadIds
    <3>3. offset' \in [Procs -> Nat] /\ next' \in [Procs -> Nat]
      BY <2>1, <3>2 DEF TypeOK
    <3> QED
      BY <1>4, <3>1, <3>3 DEF TypeOK, ReadIds
  <2> QED
    BY <2>3, <2>4
<1>5. ASSUME NEW p \in Procs, NEW f \in IdFiles, WriteIds(p, f) PROVE TypeOK'
  <2>1. /\ pc' \in [Procs -> Locations] /\ run' \in [Procs -> Runs]
        /\ todo' \in [Procs -> SUBSET Containers] /\ stopped' \in [Procs -> SUBSET Containers]
        /\ offset' \in [Procs -> Nat] /\ next' \in [Procs -> Nat]
        /\ result' \in [Procs -> {"none", "ok", "failed", "killed"}]
    BY <1>5 DEF TypeOK, WriteIds, After, Locations
  <2>2. WrittenAt(ids[f], offset[p], NewEntry(p)) \in Seq(Entry)
    BY NewEntryType DEF WrittenAt, TypeOK
  <2>3. ids' \in [IdFiles -> Seq(Entry)]
    BY <1>5, <2>2 DEF TypeOK, WriteIds
  <2>4. incidents' \subseteq {"failed", "killed", "cut", "unwritten", "start"}
    BY <1>5 DEF TypeOK, WriteIds, Unwritten
  <2> QED
    BY <1>5, <2>1, <2>3, <2>4 DEF TypeOK, WriteIds
<1>6. ASSUME NEW p \in Procs, EditLxcUsernet(p) \/ EnsureRequiredDirectoriesExist(p) PROVE TypeOK'
  <2>1. Me(p) \in Users
    BY RunsAssumption DEF TypeOK, Me
  <2> QED
    BY <1>6, <2>1
       DEF TypeOK, EditLxcUsernet, Unwritten, EnsureRequiredDirectoriesExist, Locations
<1>7. ASSUME NEW p \in Procs, Finish(p) \/ Fails(p) \/ Kill(p) PROVE TypeOK'
  BY <1>7, ExitType DEF TypeOK, Finish, Fails, Kill
<1>8. CASE UNCHANGED vars
  BY <1>8 DEF TypeOK, vars
<1> QED
  BY <1>1, <1>2, <1>3, <1>4, <1>5, <1>6, <1>7, <1>8 DEF Next

\* The files of the host, and what each autosetup holds, are of their types.
THEOREM TypeCorrect == Spec => []TypeOK
BY TypeInit, TypeNext, PTL DEF Spec

-----------------------------------------------------------------------------
(* Autosetups of any users: the containers. *)

LEMMA OwedInit == Init => OwedInv
BY DEF Init, OwedInv

\* A step that stops no container.
LEMMA KeepsOwed ==
  ASSUME OwedInv, wasUp' = wasUp, up \subseteq up', incidents \subseteq incidents',
         \A q \in Procs, c \in wasUp : Owes(q, c) => Owes(q, c)' \/ c \in up'
  PROVE  OwedInv'
BY DEF OwedInv

LEMMA OwedNext == TypeOK /\ OwedInv /\ [Next]_vars => OwedInv'
<1> SUFFICES ASSUME TypeOK, OwedInv, [Next]_vars PROVE OwedInv'
  OBVIOUS
<1>1. ASSUME NEW p \in Procs, NEW r \in Runs, Begin(p, r) PROVE OwedInv'
  <2>1. \A q \in Procs, c \in wasUp : Owes(q, c) => Owes(q, c)'
    BY <1>1 DEF Owes, Begin, TypeOK
  <2> QED
    BY <1>1, <2>1, KeepsOwed DEF Begin
\* A container that is stopped is owed by the process that has stopped it.
<1>2. ASSUME NEW p \in Procs, StopOne(p) PROVE OwedInv'
  <2> SUFFICES ASSUME NEW c \in wasUp, c \notin up'
               PROVE  \/ incidents' \cap {"failed", "killed", "start"} # {}
                      \/ \E q \in Procs : Owes(q, c)'
    BY <1>2 DEF OwedInv, StopOne
  <2>1. \A q \in Procs : Owes(q, c) => Owes(q, c)'
    BY <1>2 DEF Owes, StopOne, TypeOK
  <2>2. c \in up => Owes(p, c)'
    BY <1>2 DEF Owes, StopOne, TypeOK
  <2> QED
    BY <1>2, <2>1, <2>2 DEF OwedInv, StopOne
\* Until the first start an autosetup owes what it has stopped.
<1>3. ASSUME NEW p \in Procs,
             \/ CheckBridge(p) \/ TruncateBridge(p) \/ WriteBridge(p) \/ EditLxcUsernet(p)
             \/ \E f \in IdFiles : ReadIds(p, f) \/ WriteIds(p, f)
      PROVE  OwedInv'
  <2>1. /\ pc[p] \notin {"idle", "start"}
        /\ UNCHANGED <<stopped, todo, up, wasUp>> /\ incidents \subseteq incidents'
    BY <1>3 DEF CheckBridge, TruncateBridge, WriteBridge, EditLxcUsernet, ReadIds,
                WriteIds, WriteOf, Unwritten
  <2>2. \E l \in Locations \ {"idle", "start"} : Goto(p, l)
    BY <1>3 DEF CheckBridge, TruncateBridge, WriteBridge, EditLxcUsernet, ReadIds,
                WriteIds, After, WriteOf, Locations
  <2>3. \A q \in Procs, c \in wasUp : Owes(q, c) => Owes(q, c)'
    BY <2>1, <2>2 DEF Owes, TypeOK
  <2> QED
    BY <2>1, <2>3, KeepsOwed
<1>4. ASSUME NEW p \in Procs, EnsureRequiredDirectoriesExist(p) PROVE OwedInv'
  <2>1. \A q \in Procs, c \in wasUp : Owes(q, c) => Owes(q, c)'
    BY <1>4 DEF Owes, EnsureRequiredDirectoriesExist, TypeOK
  <2> QED
    BY <1>4, <2>1, KeepsOwed DEF EnsureRequiredDirectoriesExist
<1>5. ASSUME NEW p \in Procs, StartOne(p) PROVE OwedInv'
  <2>1. CASE "start" \in incidents'
    BY <2>1 DEF OwedInv
  <2>2. CASE "start" \notin incidents'
    <3>1. up \subseteq up' /\ incidents' = incidents /\ wasUp' = wasUp
      BY <1>5, <2>2 DEF StartOne
    <3>2. \A q \in Procs, c \in wasUp : Owes(q, c) => Owes(q, c)' \/ c \in up'
      BY <1>5, <2>2 DEF Owes, StartOne, TypeOK
    <3> QED
      BY <3>1, <3>2, KeepsOwed
  <2> QED
    BY <2>1, <2>2
<1>6. ASSUME NEW p \in Procs, Finish(p) PROVE OwedInv'
  <2>1. \A q \in Procs, c \in wasUp : Owes(q, c) => Owes(q, c)'
    BY <1>6 DEF Owes, Finish, Exit, TypeOK
  <2> QED
    BY <1>6, <2>1, KeepsOwed DEF Finish
<1>7. ASSUME NEW p \in Procs, Fails(p) \/ Kill(p) PROVE OwedInv'
  BY <1>7 DEF OwedInv, Fails, Kill
<1>8. CASE UNCHANGED vars
  BY <1>8 DEF vars, OwedInv, Owes
<1> QED
  BY <1>1, <1>2, <1>3, <1>4, <1>5, <1>6, <1>7, <1>8 DEF Next

LEMMA OwedInvHolds == Spec => []OwedInv
<1>1. Init => TypeOK /\ OwedInv
  BY TypeInit, OwedInit
<1>2. TypeOK /\ OwedInv /\ [Next]_vars => (TypeOK /\ OwedInv)'
  BY TypeNext, OwedNext
<1> QED
  BY <1>1, <1>2, PTL DEF Spec

\* When no autosetup is at work, has failed or was killed, and every start
\* worked, the containers that ran before run again (autosetup.go:60).
THEOREM ContainersComeBackTheorem == Spec => []ContainersComeBack
<1>1. OwedInv => ContainersComeBack
  BY DEF OwedInv, Owes, ContainersComeBack
<1> QED
  BY <1>1, OwedInvHolds, PTL

-----------------------------------------------------------------------------
(* Autosetups of any users: the ranges. *)

\* The id files that the host may have to start with hold disjoint ranges.
RangesGiven == \A f \in InitialIds : Disjoint(f)

RangesInv == RangesDisjoint /\ \A p \in Procs, f \in IdFiles : PlaceInv(p, f)

LEMMA RangesInit == ASSUME RangesGiven, Init PROVE RangesInv
<1>1. \A f \in IdFiles : ids[f] \in InitialIds
  BY DEF Init
<1> QED
  BY <1>1 DEF RangesGiven, Init, RangesInv, PlaceInv, WriteOf, RangesDisjoint

\* A step that leaves the files alone and finds no place in them.
LEMMA KeepsPlaces ==
  ASSUME RangesInv, ids' = ids,
         \A q \in Procs : pc'[q] \in {"writeUid", "writeGid"} =>
           pc'[q] = pc[q] /\ offset'[q] = offset[q] /\ next'[q] = next[q]
  PROVE  RangesInv'
BY DEF RangesInv, PlaceInv, WriteOf, RangesDisjoint

\* The steps of which this is clear.
LEMMA NoPlace ==
  ASSUME TypeOK, NEW p \in Procs,
         \/ \E r \in Runs : Begin(p, r)
         \/ StopOne(p) \/ CheckBridge(p) \/ TruncateBridge(p) \/ WriteBridge(p)
         \/ EditLxcUsernet(p) \/ EnsureRequiredDirectoriesExist(p) \/ StartOne(p)
         \/ Finish(p) \/ Fails(p) \/ Kill(p)
  PROVE  /\ ids' = ids
         /\ \A q \in Procs : pc'[q] \in {"writeUid", "writeGid"} =>
              /\ pc'[q] = pc[q] /\ offset'[q] = offset[q]
              /\ next'[q] = next[q] /\ run'[q] = run[q]
<1>1. CASE \/ \E r \in Runs : Begin(p, r)
           \/ Finish(p) \/ Fails(p) \/ Kill(p)
  <2>1. /\ ids' = ids /\ pc'[p] \notin {"writeUid", "writeGid"}
        /\ \A q \in Procs \ {p} : /\ pc'[q] = pc[q] /\ offset'[q] = offset[q]
                                  /\ next'[q] = next[q] /\ run'[q] = run[q]
    BY <1>1 DEF Begin, Finish, Fails, Kill, Exit, TypeOK
  <2> QED
    BY <2>1
<1>2. CASE StopOne(p) \/ StartOne(p)
  BY <1>2 DEF StopOne, StartOne
<1>3. CASE \/ CheckBridge(p) \/ TruncateBridge(p) \/ WriteBridge(p)
           \/ EditLxcUsernet(p) \/ EnsureRequiredDirectoriesExist(p)
  <2>1. /\ UNCHANGED <<ids, offset, next, run>>
        /\ \E l \in {"truncate", "writeBridge", "uid", "dirs", "start"} : Goto(p, l)
    BY <1>3 DEF CheckBridge, TruncateBridge, WriteBridge, EditLxcUsernet,
                EnsureRequiredDirectoriesExist
  <2> QED
    BY <2>1 DEF TypeOK
<1> QED
  BY <1>1, <1>2, <1>3

\* The place a process reads is where the file ends, above what is there.
LEMMA ReadIdsRanges ==
  ASSUME TypeOK, RangesInv, NEW p \in Procs, NEW f \in IdFiles, ReadIds(p, f)
  PROVE  RangesInv'
<1>1. CASE EntriesOf(ids[f], Me(p)) # {}
  <2>1. \A q \in Procs : pc'[q] \in {"writeUid", "writeGid"} => pc'[q] = pc[q]
    BY <1>1 DEF ReadIds, After, TypeOK
  <2> QED
    BY <1>1, <2>1, KeepsPlaces DEF ReadIds
<1>2. CASE EntriesOf(ids[f], Me(p)) = {}
  <2>1. /\ ids' = ids /\ pc' = [pc EXCEPT ![p] = WriteOf(f)]
        /\ offset' = [offset EXCEPT ![p] = Len(ids[f])]
        /\ next' = [next EXCEPT ![p] = NextStart(ids[f])]
    BY <1>2 DEF ReadIds
  <2>2. ASSUME NEW q \in Procs \ {p}, NEW g \in IdFiles PROVE PlaceInv(q, g)'
    BY <2>1, <2>2 DEF RangesInv, PlaceInv, TypeOK
  <2>3. ASSUME NEW g \in IdFiles PROVE PlaceInv(p, g)'
    <3>1. SUFFICES ASSUME g = f PROVE PlaceInv(p, g)'
      BY <2>1 DEF PlaceInv, WriteOf, TypeOK
    <3>2. offset'[p] = Len(ids[f]) /\ next'[p] = NextStart(ids[f]) /\ ids[f] \in Seq(Entry)
      BY <2>1 DEF TypeOK
    <3>3. \A i \in 1 .. Len(ids[f]) : Alone(ids[f], i) =>
            (ids[f][i].start + ids[f][i].count) % Width <= NextStart(ids[f])
      BY <3>2, NextStartAbove
    <3> QED
      BY <2>1, <3>1, <3>2, <3>3 DEF PlaceInv
  <2>4. RangesDisjoint'
    BY <2>1 DEF RangesInv, RangesDisjoint
  <2> QED
    BY <2>2, <2>3, <2>4 DEF RangesInv
<1> QED
  BY <1>1, <1>2

\* A write keeps the ranges disjoint, and the places of the other processes.
LEMMA WriteIdsRanges ==
  ASSUME TypeOK, RangesInv, NEW p \in Procs, NEW f \in IdFiles, WriteIds(p, f)
  PROVE  RangesInv'
<1>1. pc[p] = WriteOf(f) /\ pc' = [pc EXCEPT ![p] = After(f)] /\ UNCHANGED <<offset, next>>
  BY DEF WriteIds
<1>2. \A q \in Procs : pc'[q] \in {"writeUid", "writeGid"} => q # p /\ pc'[q] = pc[q]
  BY <1>1 DEF TypeOK, After
<1>3. CASE ids' = ids
  BY <1>1, <1>2, <1>3, KeepsPlaces
<1>4. CASE ids' = [ids EXCEPT ![f] = WrittenAt(@, offset[p], NewEntry(p))]
  <2> DEFINE old == ids[f]
             k == offset[p]
             e == NewEntry(p)
             new == WrittenAt(old, k, e)
  <2>1. /\ old \in Seq(Entry) /\ k \in 0 .. Len(old)
        /\ \A i \in k + 1 .. Len(old) : ~old[i].newline
        /\ Ended(old, k) => \A i \in 1 .. k : Alone(old, i) =>
                              (old[i].start + old[i].count) % Width <= e.start
    BY <1>1 DEF TypeOK, RangesInv, PlaceInv, NewEntry
  <2>2. e \in Entry /\ ~e.newline
    BY NewEntryType
  <2>3. ids'[f] = new /\ \A g \in IdFiles \ {f} : ids'[g] = ids[g]
    BY <1>4 DEF TypeOK
  <2>4. RangesDisjoint'
    <3>1. Disjoint(old)
      BY DEF RangesInv, RangesDisjoint
    <3> HIDE DEF old, k, e
    <3>2. Disjoint(new)
      BY <2>1, <2>2, <3>1, WrittenDisjoint
    <3> HIDE DEF new
    <3> QED
      BY <2>3, <3>2 DEF RangesInv, RangesDisjoint
  <2>5. ASSUME NEW q \in Procs, NEW g \in IdFiles, pc'[q] = WriteOf(g) PROVE PlaceInv(q, g)'
    <3>1. q # p /\ pc[q] = WriteOf(g) /\ PlaceInv(q, g)
      BY <1>2, <2>5 DEF WriteOf, RangesInv
    <3>2. CASE g # f
      BY <1>1, <2>3, <3>1, <3>2 DEF PlaceInv
    <3>3. CASE g = f
      <4> DEFINE m == offset[q]
      <4>1. /\ m \in 0 .. Len(old) /\ \A i \in m + 1 .. Len(old) : ~old[i].newline
            /\ Ended(old, m) => \A i \in 1 .. m : Alone(old, i) =>
                                  (old[i].start + old[i].count) % Width <= next[q]
        BY <3>1, <3>3 DEF PlaceInv, TypeOK
      <4> HIDE DEF old, k, e, m
      <4>2. /\ new \in Seq(Entry) /\ new[k + 1] = e
            /\ \A i \in DOMAIN old : i # k + 1 => new[i] = old[i]
        BY <2>1, <2>2, WrittenEntries
      <4>3. Len(new) = IF k < Len(old) THEN Len(old) ELSE Len(old) + 1
        BY <2>1, <2>2, WrittenEntries
      <4>4. \A i \in DOMAIN new : Alone(new, i) =>
              \/ i = k + 1 /\ Ended(old, k)
              \/ i \in 1 .. k /\ Alone(old, i) /\ new[i] = old[i]
        BY <2>1, <2>2, WrittenAlone
      <4> HIDE DEF new
      <4>5. m <= Len(new)
        BY <2>1, <4>1, <4>3
      <4>6. ASSUME NEW i \in m + 1 .. Len(new) PROVE ~new[i].newline
        <5>1. CASE i = k + 1
          BY <2>2, <4>2, <5>1
        <5>2. CASE i # k + 1
          <6>1. i \in m + 1 .. Len(old)
            BY <2>1, <4>1, <4>3, <5>2
          <6> QED
            BY <2>1, <4>1, <4>2, <5>2, <6>1
        <5> QED
          BY <5>1, <5>2
      <4>7. ASSUME Ended(new, m), NEW i \in 1 .. m, Alone(new, i)
            PROVE  (new[i].start + new[i].count) % Width <= next[q]
        <5>1. m <= k
          <6> SUFFICES ASSUME m > k PROVE FALSE
            BY <2>1, <4>1
          <6>1. new[m].newline /\ m \in 1 .. Len(old) /\ m \in k + 1 .. Len(old)
            BY <2>1, <4>1, <4>7 DEF Ended
          <6> QED
            BY <2>1, <2>2, <4>2, <6>1
        <5>2. i \in DOMAIN new /\ i # k + 1
          BY <2>1, <4>1, <4>2, <4>5, <5>1
        <5>3. Alone(old, i) /\ new[i] = old[i]
          BY <4>4, <4>7, <5>2
        <5>4. Ended(old, m)
          BY <2>1, <4>1, <4>2, <4>7, <5>1 DEF Ended
        <5> QED
          BY <4>1, <5>3, <5>4
      <4> QED
        BY <1>1, <2>3, <3>3, <4>5, <4>6, <4>7 DEF PlaceInv, m
    <3> QED
      BY <3>2, <3>3
  <2>6. \A q \in Procs, g \in IdFiles : PlaceInv(q, g)'
    BY <2>5 DEF PlaceInv
  <2> QED
    BY <2>4, <2>6 DEF RangesInv
<1> QED
  BY <1>3, <1>4 DEF WriteIds

LEMMA RangesNext == TypeOK /\ RangesInv /\ [Next]_vars => RangesInv'
<1> SUFFICES ASSUME TypeOK, RangesInv, [Next]_vars PROVE RangesInv'
  OBVIOUS
<1>1. CASE UNCHANGED vars
  BY <1>1, KeepsPlaces DEF vars
<1> QED
  BY <1>1, NoPlace, KeepsPlaces, ReadIdsRanges, WriteIdsRanges DEF Next

\* For any number of autosetups of any users: new ranges are above the old
\* ones, and a container that ran and is down is owed.
THEOREM HostInvTheorem == ASSUME RangesGiven PROVE Spec => []HostInv
<1>1. Init => TypeOK /\ RangesInv
  BY TypeInit, RangesInit
<1>2. TypeOK /\ RangesInv /\ [Next]_vars => (TypeOK /\ RangesInv)'
  BY TypeNext, RangesNext
<1>3. RangesInv /\ OwedInv => HostInv
  BY DEF RangesInv, HostInv
<1> QED
  BY <1>1, <1>2, <1>3, OwedInvHolds, PTL DEF Spec

\* If the ranges of different users that are found in the id files were
\* disjoint, they are whenever autosetups have written to them
\* (helpers.go:139).
THEOREM RangesDisjointTheorem == ASSUME RangesGiven PROVE Spec => []RangesDisjoint
<1>1. HostInv => RangesDisjoint
  BY DEF HostInv
<1> QED
  BY <1>1, HostInvTheorem, PTL

-----------------------------------------------------------------------------
(* Autosetups of one user. *)

OneOwner == \A r, s \in Runs : r.user = s.user

\* The id files that the host may have to start with end in a newline, unless
\* the user has an entry.
LinesEnd ==
  \A f \in InitialIds, r \in Runs : Ended(f, Len(f)) \/ EntriesOf(f, r.user) # {}

LEMMA SetupInit == ASSUME LinesEnd, Init PROVE SetupInv
<1>1. \A f \in IdFiles : ids[f] \in InitialIds
  BY DEF Init
<1> QED
  BY <1>1 DEF LinesEnd, Init, SetupInv, OnePlaceInv, DoneInv, Past, WriteOf

\* An entry added to a file that ended is a line of its own, and leaves the
\* others what they are.
LEMMA AppendKeeps ==
  ASSUME NEW f \in Seq(Entry), NEW e \in Entry, Ended(f, Len(f))
  PROVE  LET g == Append(f, e)
         IN  /\ \A i \in DOMAIN f : Alone(f, i) => i \in DOMAIN g /\ Alone(g, i) /\ g[i] = f[i]
             /\ Len(f) + 1 \in DOMAIN g /\ Alone(g, Len(f) + 1) /\ g[Len(f) + 1] = e
<1> DEFINE g == Append(f, e)
<1>1. /\ g \in Seq(Entry) /\ Len(g) = Len(f) + 1 /\ g[Len(f) + 1] = e
      /\ \A i \in DOMAIN f : g[i] = f[i]
  OBVIOUS
<1> HIDE DEF g
<1>2. ASSUME NEW i \in DOMAIN f, Alone(f, i)
      PROVE  i \in DOMAIN g /\ Alone(g, i) /\ g[i] = f[i]
  <2>1. f[i].newline
    BY <1>2 DEF Alone, Ended
  <2>2. i = 1 \/ g[i - 1].newline
    BY <1>1, <1>2 DEF Alone
  <2> QED
    BY <1>1, <2>1, <2>2 DEF Alone
<1>3. Len(f) + 1 \in DOMAIN g /\ Alone(g, Len(f) + 1)
  BY <1>1 DEF Alone, Ended
<1> QED
  BY <1>1, <1>2, <1>3 DEF g

\* The entry is added once: a process that comes later writes the same.
LEMMA OneWrite ==
  ASSUME TypeOK, SetupInv, NEW p \in Procs, NEW f \in IdFiles, WriteIds(p, f)
  PROVE  \/ /\ ids' = ids
            /\ Written' => EntriesOf(ids[f], Me(p)) # {}
         \/ /\ Len(ids[f]) = offset[p] /\ next[p] = NextStart(ids[f])
            /\ Ended(ids[f], Len(ids[f]))
            /\ ids' = [ids EXCEPT ![f] = Append(@, NewEntry(p))]
<1> DEFINE old == ids[f]
           k == offset[p]
<1>1. /\ old \in Seq(Entry) /\ k \in Nat /\ Ended(old, k)
      /\ \/ Len(old) = k /\ next[p] = NextStart(old)
         \/ Len(old) = k + 1 /\ old[Len(old)] = NewEntry(p)
  BY DEF TypeOK, SetupInv, OnePlaceInv, WriteIds
<1>2. CASE ids' = ids /\ ~Written'
  BY <1>2
<1>3. CASE ids' = [ids EXCEPT ![f] = WrittenAt(@, offset[p], NewEntry(p))]
  <2>1. CASE Len(old) = k /\ next[p] = NextStart(old)
    <3>1. WrittenAt(old, k, NewEntry(p)) = Append(old, NewEntry(p))
      BY <1>1, <2>1 DEF WrittenAt
    <3>2. ids' = [ids EXCEPT ![f] = Append(@, NewEntry(p))]
      BY <1>3, <3>1 DEF TypeOK
    <3> QED
      BY <1>1, <2>1, <3>2
  <2>2. CASE Len(old) = k + 1 /\ old[Len(old)] = NewEntry(p)
    <3>1. WrittenAt(old, k, NewEntry(p)) = old
      BY <1>1, <2>2 DEF WrittenAt
    <3>2. ids' = ids
      BY <1>3, <3>1 DEF TypeOK
    <3>3. Alone(old, k + 1) /\ old[k + 1].user = Me(p) /\ k + 1 \in DOMAIN old
      BY <1>1, <2>2 DEF Alone, Ended, NewEntry
    <3> QED
      BY <3>2, <3>3 DEF EntriesOf
  <2> QED
    BY <1>1, <2>1, <2>2
<1> QED
  BY <1>2, <1>3 DEF WriteIds, Unwritten, Written

\* What a step keeps of an id file: every entry that is found.
Keeps(f) ==
  \A i \in DOMAIN ids[f] : Alone(ids[f], i) =>
    i \in DOMAIN ids'[f] /\ Alone(ids'[f], i) /\ ids'[f][i] = ids[f][i]

LEMMA StepKeeps ==
  ASSUME TypeOK, SetupInv, [Next]_vars PROVE \A f \in IdFiles : Keeps(f)
<1>1. ASSUME NEW p \in Procs, NEW g \in IdFiles, WriteIds(p, g), NEW f \in IdFiles
      PROVE  Keeps(f)
  <2>1. CASE ids' = ids
    BY <2>1 DEF Keeps
  <2>2. CASE /\ Ended(ids[g], Len(ids[g]))
             /\ ids' = [ids EXCEPT ![g] = Append(@, NewEntry(p))]
    <3>1. CASE f = g
      <4>1. ids'[f] = Append(ids[f], NewEntry(p)) /\ ids[f] \in Seq(Entry)
        BY <2>2, <3>1 DEF TypeOK
      <4> QED
        BY <2>2, <3>1, <4>1, NewEntryType, AppendKeeps DEF Keeps
    <3>2. CASE f # g
      BY <2>2, <3>2 DEF Keeps, TypeOK
    <3> QED
      BY <3>1, <3>2
  <2> QED
    BY <1>1, <2>1, <2>2, OneWrite
<1>2. CASE ids' = ids
  BY <1>2 DEF Keeps
<1> QED
  BY <1>1, <1>2
     DEF Next, vars, Begin, StopOne, CheckBridge, TruncateBridge, WriteBridge, ReadIds,
         EditLxcUsernet, EnsureRequiredDirectoriesExist, StartOne, Finish, Fails, Kill

LEMMA EntriesKept ==
  ASSUME NEW f \in IdFiles, Keeps(f), NEW u
  PROVE  EntriesOf(ids[f], u) \subseteq EntriesOf(ids'[f], u)
BY DEF Keeps, EntriesOf

\* A process that has not moved has what it had behind it.
LEMMA KeepsDone ==
  ASSUME \A f \in IdFiles : Keeps(f), NEW q \in Procs, DoneInv(q),
         pc'[q] = pc[q], result'[q] = result[q], run'[q] = run[q],
         bridge # "unset" => bridge' # "unset",
         usernet \subseteq usernet', dirs \subseteq dirs', incidents \subseteq incidents'
  PROVE  DoneInv(q)'
<1>1. Me(q)' = Me(q)
  BY DEF Me
<1>2. \A f \in IdFiles : EntriesOf(ids[f], Me(q)) \subseteq EntriesOf(ids'[f], Me(q))
  BY EntriesKept
<1>3. Written' => Written
  BY DEF Written
<1> QED
  BY <1>1, <1>2, <1>3 DEF DoneInv, Past

\* A step that leaves the files alone and finds no place in them.
LEMMA KeepsOnePlace ==
  ASSUME SetupInv, ids' = ids,
         \A q \in Procs : pc'[q] \in {"writeUid", "writeGid"} =>
           /\ pc'[q] = pc[q] /\ offset'[q] = offset[q]
           /\ next'[q] = next[q] /\ run'[q] = run[q]
  PROVE  /\ \A f \in IdFiles, r \in Runs :
              Ended(ids[f], Len(ids[f]))' \/ EntriesOf(ids[f], r.user)' # {}
         /\ \A q \in Procs, f \in IdFiles : OnePlaceInv(q, f)'
<1>1. ASSUME NEW q \in Procs, NEW f \in IdFiles, pc'[q] = WriteOf(f) PROVE OnePlaceInv(q, f)'
  <2>1. /\ pc[q] = WriteOf(f) /\ offset'[q] = offset[q]
        /\ next'[q] = next[q] /\ run'[q] = run[q]
    BY <1>1 DEF WriteOf
  <2>2. NewEntry(q)' = NewEntry(q)
    BY <2>1 DEF NewEntry, Me
  <2> QED
    BY <2>1, <2>2 DEF SetupInv, OnePlaceInv
<1>2. \A q \in Procs, f \in IdFiles : OnePlaceInv(q, f)'
  BY <1>1 DEF OnePlaceInv
<1>3. \A f \in IdFiles, r \in Runs :
        Ended(ids[f], Len(ids[f]))' \/ EntriesOf(ids[f], r.user)' # {}
  BY DEF SetupInv, Ended, EntriesOf, Alone
<1> QED
  BY <1>2, <1>3

\* The files' part of the invariant.
FilesInv ==
  /\ \A f \in IdFiles, r \in Runs : Ended(ids[f], Len(ids[f])) \/ EntriesOf(ids[f], r.user) # {}
  /\ \A p \in Procs, f \in IdFiles : OnePlaceInv(p, f)

LEMMA ReadIdsFiles ==
  ASSUME TypeOK, SetupInv, NEW p \in Procs, NEW f \in IdFiles, ReadIds(p, f)
  PROVE  FilesInv'
<1>1. CASE EntriesOf(ids[f], Me(p)) # {}
  <2>1. \A q \in Procs : pc'[q] \in {"writeUid", "writeGid"} => pc'[q] = pc[q]
    BY <1>1 DEF ReadIds, After, TypeOK
  <2> QED
    BY <1>1, <2>1, KeepsOnePlace DEF ReadIds, FilesInv
<1>2. CASE EntriesOf(ids[f], Me(p)) = {}
  <2>1. /\ ids' = ids /\ run' = run /\ pc' = [pc EXCEPT ![p] = WriteOf(f)]
        /\ offset' = [offset EXCEPT ![p] = Len(ids[f])]
        /\ next' = [next EXCEPT ![p] = NextStart(ids[f])]
    BY <1>2 DEF ReadIds
  <2>2. ASSUME NEW q \in Procs \ {p}, NEW g \in IdFiles PROVE OnePlaceInv(q, g)'
    <3>1. NewEntry(q)' = NewEntry(q)
      BY <2>1 DEF NewEntry, Me, TypeOK
    <3> QED
      BY <2>1, <3>1 DEF SetupInv, OnePlaceInv, TypeOK
  <2>3. ASSUME NEW g \in IdFiles PROVE OnePlaceInv(p, g)'
    <3>1. SUFFICES ASSUME g = f PROVE OnePlaceInv(p, g)'
      BY <2>1 DEF OnePlaceInv, WriteOf, TypeOK
    <3>2. Ended(ids[f], Len(ids[f]))
      BY <1>2 DEF SetupInv, Me, TypeOK
    <3> QED
      BY <2>1, <3>1, <3>2 DEF OnePlaceInv, TypeOK
  <2>4. \A g \in IdFiles, r \in Runs :
          Ended(ids[g], Len(ids[g]))' \/ EntriesOf(ids[g], r.user)' # {}
    BY <2>1 DEF SetupInv, Ended, EntriesOf, Alone
  <2> QED
    BY <2>2, <2>3, <2>4 DEF FilesInv
<1> QED
  BY <1>1, <1>2

LEMMA WriteIdsFiles ==
  ASSUME OneOwner, TypeOK, SetupInv, NEW p \in Procs, NEW f \in IdFiles, WriteIds(p, f)
  PROVE  FilesInv'
<1>1. pc[p] = WriteOf(f) /\ pc' = [pc EXCEPT ![p] = After(f)] /\ UNCHANGED <<offset, next, run>>
  BY DEF WriteIds
<1>2. \A q \in Procs : pc'[q] \in {"writeUid", "writeGid"} => q # p /\ pc'[q] = pc[q]
  BY <1>1 DEF TypeOK, After
<1>3. CASE ids' = ids
  BY <1>1, <1>2, <1>3, KeepsOnePlace DEF FilesInv
<1>4. CASE /\ Len(ids[f]) = offset[p] /\ next[p] = NextStart(ids[f])
           /\ Ended(ids[f], Len(ids[f]))
           /\ ids' = [ids EXCEPT ![f] = Append(@, NewEntry(p))]
  <2> DEFINE old == ids[f]
             e == NewEntry(p)
             new == Append(old, e)
  <2>1. /\ ids'[f] = new /\ \A g \in IdFiles \ {f} : ids'[g] = ids[g]
        /\ old \in Seq(Entry) /\ e \in Entry
    BY <1>4, NewEntryType DEF TypeOK
  <2>2. /\ new \in Seq(Entry) /\ Len(new) = Len(old) + 1 /\ new[Len(old) + 1] = e
        /\ \A i \in DOMAIN old : new[i] = old[i]
    BY <2>1
  <2>3. \A r \in Runs, q \in Procs : r.user = Me(q)
    BY DEF OneOwner, Me, TypeOK
  <2>4. ASSUME NEW g \in IdFiles, NEW r \in Runs
        PROVE  Ended(ids[g], Len(ids[g]))' \/ EntriesOf(ids[g], r.user)' # {}
    <3>1. CASE g = f
      <4>1. Len(old) + 1 \in EntriesOf(new, r.user)
        BY <1>4, <2>1, <2>2, <2>3, AppendKeeps DEF EntriesOf, NewEntry
      <4> QED
        BY <2>1, <3>1, <4>1 DEF EntriesOf, Alone
    <3>2. CASE g # f
      BY <2>1, <3>2, SMTT(30) DEF SetupInv, Ended, EntriesOf, Alone
    <3> QED
      BY <3>1, <3>2
  <2>5. ASSUME NEW q \in Procs, NEW g \in IdFiles, pc'[q] = WriteOf(g) PROVE OnePlaceInv(q, g)'
    <3>1. q # p /\ pc[q] = WriteOf(g) /\ OnePlaceInv(q, g) /\ NewEntry(q)' = NewEntry(q)
      BY <1>1, <1>2, <2>5 DEF WriteOf, SetupInv, NewEntry, Me
    <3>2. CASE g # f
      BY <1>1, <2>1, <3>1, <3>2 DEF OnePlaceInv
    <3>3. CASE g = f
      <4>1. Len(old) = offset[q] /\ next[q] = NextStart(old)
        <5> SUFFICES ASSUME Len(old) = offset[q] + 1, old[Len(old)] = NewEntry(q) PROVE FALSE
          BY <3>1, <3>3 DEF OnePlaceInv
        <5>1. offset[q] \in Nat
          BY DEF TypeOK
        <5> QED
          BY <1>4, <5>1 DEF Ended, NewEntry
      <4>2. NewEntry(q) = e
        BY <1>4, <2>3, <4>1 DEF NewEntry, Me, TypeOK
      <4>3. Ended(new, offset[q])
        BY <1>4, <2>1, <2>2, <4>1 DEF Ended
      <4> HIDE DEF e, new
      <4> QED
        BY <1>1, <2>1, <2>2, <3>1, <3>3, <4>1, <4>2, <4>3 DEF OnePlaceInv
    <3> QED
      BY <3>2, <3>3
  <2>6. \A q \in Procs, g \in IdFiles : OnePlaceInv(q, g)'
    BY <2>5 DEF OnePlaceInv
  <2> QED
    BY <2>4, <2>6 DEF FilesInv
<1> QED
  BY <1>3, <1>4, OneWrite

\* No step leaves the bridge file cut off without a writer or an incident.
LEMMA BridgeNext ==
  ASSUME TypeOK, SetupInv, [Next]_vars
  PROVE  /\ bridge' = "empty" => "cut" \in incidents' \/ \E p \in Procs : pc'[p] = "writeBridge"
         /\ bridge # "unset" => bridge' # "unset"
<1>1. ASSUME NEW p \in Procs, TruncateBridge(p) \/ WriteBridge(p)
      PROVE  /\ bridge' = "empty" => \E q \in Procs : pc'[q] = "writeBridge"
             /\ bridge' # "unset"
  BY <1>1 DEF TruncateBridge, WriteBridge, TypeOK
<1>2. ASSUME bridge' = bridge, incidents \subseteq incidents',
             \A q \in Procs : pc[q] = "writeBridge" =>
               pc'[q] = "writeBridge" \/ "cut" \in incidents'
      PROVE  bridge' = "empty" =>
               "cut" \in incidents' \/ \E p \in Procs : pc'[p] = "writeBridge"
  BY <1>2 DEF SetupInv
<1>3. ASSUME NEW p \in Procs,
             \/ \E r \in Runs : Begin(p, r)
             \/ StopOne(p) \/ CheckBridge(p) \/ \E f \in IdFiles : ReadIds(p, f) \/ WriteIds(p, f)
      PROVE  /\ bridge' = bridge /\ incidents \subseteq incidents'
             /\ \A q \in Procs : pc[q] = "writeBridge" => pc'[q] = "writeBridge"
  BY <1>3 DEF Begin, StopOne, CheckBridge, ReadIds, WriteIds, WriteOf, Unwritten, TypeOK
<1>4. ASSUME NEW p \in Procs,
             \/ EditLxcUsernet(p) \/ EnsureRequiredDirectoriesExist(p) \/ StartOne(p)
             \/ Finish(p)
      PROVE  /\ bridge' = bridge /\ incidents \subseteq incidents'
             /\ \A q \in Procs : pc[q] = "writeBridge" => pc'[q] = "writeBridge"
  BY <1>4 DEF EditLxcUsernet, EnsureRequiredDirectoriesExist, StartOne, Finish, Exit,
              Unwritten, TypeOK
<1>5. ASSUME NEW p \in Procs, Fails(p) \/ Kill(p)
      PROVE  /\ bridge' = bridge /\ incidents \subseteq incidents'
             /\ \A q \in Procs : pc[q] = "writeBridge" =>
                  pc'[q] = "writeBridge" \/ "cut" \in incidents'
  BY <1>5 DEF Fails, Kill, Exit, TypeOK
<1>6. CASE UNCHANGED vars
  BY <1>2, <1>6 DEF vars
<1> QED
  BY <1>1, <1>2, <1>3, <1>4, <1>5, <1>6 DEF Next

\* What a process leaves of the state of the others, and of the host.
LEMMA StepLeaves ==
  ASSUME TypeOK, NEW p \in Procs,
         \/ \E r \in Runs : Begin(p, r)
         \/ StopOne(p) \/ CheckBridge(p) \/ TruncateBridge(p) \/ WriteBridge(p)
         \/ \E f \in IdFiles : ReadIds(p, f) \/ WriteIds(p, f)
         \/ EditLxcUsernet(p) \/ EnsureRequiredDirectoriesExist(p)
         \/ StartOne(p) \/ Finish(p) \/ Fails(p) \/ Kill(p)
  PROVE  /\ usernet \subseteq usernet' /\ dirs \subseteq dirs' /\ incidents \subseteq incidents'
         /\ \A q \in Procs \ {p} : pc'[q] = pc[q] /\ result'[q] = result[q] /\ run'[q] = run[q]
<1>1. CASE \/ \E r \in Runs : Begin(p, r)
           \/ StopOne(p) \/ CheckBridge(p) \/ TruncateBridge(p) \/ WriteBridge(p)
  BY <1>1 DEF Begin, StopOne, CheckBridge, TruncateBridge, WriteBridge, TypeOK
<1>2. CASE \E f \in IdFiles : ReadIds(p, f) \/ WriteIds(p, f)
  BY <1>2 DEF ReadIds, WriteIds, Unwritten, TypeOK
<1>3. CASE \/ EditLxcUsernet(p) \/ EnsureRequiredDirectoriesExist(p) \/ StartOne(p)
  BY <1>3 DEF EditLxcUsernet, Unwritten, EnsureRequiredDirectoriesExist, StartOne, TypeOK
<1>4. CASE Finish(p) \/ Fails(p) \/ Kill(p)
  BY <1>4 DEF Finish, Fails, Kill, Exit, TypeOK
<1> QED
  BY <1>1, <1>2, <1>3, <1>4

\* The process that moves has done what its next location says.
LEMMA DoneNext ==
  ASSUME OneOwner, TypeOK, SetupInv, [Next]_vars
  PROVE  \A q \in Procs : DoneInv(q)'
<1>1. /\ \A f \in IdFiles : Keeps(f)
      /\ bridge # "unset" => bridge' # "unset"
  BY StepKeeps, BridgeNext
<1>2. SUFFICES ASSUME NEW p \in Procs,
                      \/ \E r \in Runs : Begin(p, r)
                      \/ StopOne(p) \/ CheckBridge(p) \/ TruncateBridge(p) \/ WriteBridge(p)
                      \/ \E f \in IdFiles : ReadIds(p, f) \/ WriteIds(p, f)
                      \/ EditLxcUsernet(p) \/ EnsureRequiredDirectoriesExist(p)
                      \/ StartOne(p) \/ Finish(p) \/ Fails(p) \/ Kill(p)
               PROVE  DoneInv(p)'
  <2>1. ASSUME UNCHANGED vars, NEW q \in Procs PROVE DoneInv(q)'
    BY <1>1, <2>1, KeepsDone DEF SetupInv, vars
  <2>2. ASSUME NEW p \in Procs, DoneInv(p)',
               \A q \in Procs \ {p} : pc'[q] = pc[q] /\ result'[q] = result[q] /\ run'[q] = run[q],
               usernet \subseteq usernet', dirs \subseteq dirs', incidents \subseteq incidents',
               NEW q \in Procs
        PROVE  DoneInv(q)'
    BY <1>1, <2>2, KeepsDone DEF SetupInv
  <2> QED
    BY <2>1, <2>2, StepLeaves DEF Next
<1> DEFINE u == Me(p)
<1>3. DoneInv(p) /\ \A f \in IdFiles : EntriesOf(ids[f], u) \subseteq EntriesOf(ids'[f], u)
  BY <1>1, EntriesKept DEF SetupInv
<1>4. CASE \/ \E r \in Runs : Begin(p, r)
           \/ Fails(p) \/ Kill(p) \/ TruncateBridge(p)
  <2>1. CASE TruncateBridge(p)
    BY <1>1, <1>3, <2>1 DEF TruncateBridge, DoneInv, Past, Me, Written, TypeOK
  <2>2. CASE \/ \E r \in Runs : Begin(p, r)
             \/ Fails(p) \/ Kill(p)
    <3>1. pc'[p] \in {"stop", "idle"} /\ result'[p] \in {"none", "failed", "killed"}
      BY <2>2 DEF Begin, Fails, Kill, Exit, TypeOK
    <3> QED
      BY <3>1 DEF DoneInv, Past
  <2> QED
    BY <1>4, <2>1, <2>2
<1>5. CASE StopOne(p) \/ StartOne(p)
  BY <1>1, <1>3, <1>5, StepLeaves, KeepsDone DEF StopOne, StartOne
<1>6. CASE CheckBridge(p) \/ WriteBridge(p)
  <2>1. UNCHANGED <<run, result, ids, usernet, dirs, incidents>>
        /\ pc[p] \in {"stop", "writeBridge"} /\ pc'[p] \in {"truncate", "uid"}
    BY <1>6 DEF CheckBridge, WriteBridge, TypeOK
  <2>2. pc'[p] = "uid" => run[p].ignoreBridge \/ bridge' # "unset"
    BY <1>6 DEF CheckBridge, WriteBridge, TypeOK
  <2> QED
    BY <1>1, <1>3, <2>1, <2>2 DEF DoneInv, Past, Me, Written
<1>7. ASSUME NEW f \in IdFiles, ReadIds(p, f) \/ WriteIds(p, f) PROVE DoneInv(p)'
  <2>1. /\ UNCHANGED <<run, result, bridge, usernet, dirs>> /\ incidents \subseteq incidents'
        /\ pc[p] \in {f, WriteOf(f)} /\ pc'[p] \in {WriteOf(f), After(f)}
    BY <1>7 DEF ReadIds, WriteIds, Unwritten, TypeOK
  <2>2. pc'[p] = After(f) /\ Written' => EntriesOf(ids'[f], u) # {}
    <3>1. CASE ReadIds(p, f)
      BY <1>3, <3>1 DEF ReadIds, After, WriteOf, TypeOK
    <3>2. CASE WriteIds(p, f)
      <4>1. CASE ids' = ids /\ (Written' => EntriesOf(ids[f], u) # {})
        BY <4>1
      <4>2. CASE /\ Ended(ids[f], Len(ids[f]))
                 /\ ids' = [ids EXCEPT ![f] = Append(@, NewEntry(p))]
        <5>1. ids'[f] = Append(ids[f], NewEntry(p)) /\ ids[f] \in Seq(Entry)
          BY <4>2 DEF TypeOK
        <5>2. Len(ids[f]) + 1 \in EntriesOf(Append(ids[f], NewEntry(p)), u)
          BY <4>2, <5>1, NewEntryType, AppendKeeps DEF EntriesOf, NewEntry
        <5> QED
          BY <5>1, <5>2
      <4> QED
        BY <3>2, <4>1, <4>2, OneWrite
    <3> QED
      BY <1>7, <3>1, <3>2
  <2>3. Written' => Written
    BY <2>1 DEF Written
  <2>4. CASE f = "uid"
    BY <1>3, <2>1, <2>2, <2>3, <2>4 DEF DoneInv, Past, Me, After, WriteOf
  <2>5. CASE f = "gid"
    BY <1>3, <2>1, <2>2, <2>3, <2>5 DEF DoneInv, Past, Me, After, WriteOf
  <2> QED
    BY <2>4, <2>5
<1>8. CASE EditLxcUsernet(p)
  <2>1. /\ UNCHANGED <<run, result, bridge, ids, dirs>> /\ incidents \subseteq incidents'
        /\ pc[p] = "usernet" /\ pc'[p] = "dirs"
    BY <1>8 DEF EditLxcUsernet, Unwritten, TypeOK
  <2>2. Written' => u \in usernet' /\ Written
    BY <1>8 DEF EditLxcUsernet, Unwritten, Written
  <2> QED
    BY <1>3, <2>1, <2>2 DEF DoneInv, Past, Me
<1>9. CASE EnsureRequiredDirectoriesExist(p)
  <2>1. /\ UNCHANGED <<run, result, bridge, ids, usernet, incidents>>
        /\ pc[p] = "dirs" /\ pc'[p] = "start" /\ u \in dirs'
    BY <1>9 DEF EnsureRequiredDirectoriesExist, TypeOK
  <2> QED
    BY <1>3, <2>1 DEF DoneInv, Past, Me, Written
<1>10. CASE Finish(p)
  <2>1. UNCHANGED <<run, bridge, ids, usernet, dirs, incidents>> /\ pc[p] = "start"
    BY <1>10 DEF Finish, Exit
  <2> QED
    BY <1>3, <2>1 DEF DoneInv, Past, Me, Written
<1> QED
  BY <1>2, <1>4, <1>5, <1>6, <1>7, <1>8, <1>9, <1>10

LEMMA SetupNext == ASSUME OneOwner, TypeOK, SetupInv, [Next]_vars PROVE SetupInv'
<1>1. FilesInv'
  <2>1. CASE UNCHANGED vars
    BY <2>1, KeepsOnePlace DEF vars, FilesInv
  <2> QED
    BY <2>1, NoPlace, KeepsOnePlace, ReadIdsFiles, WriteIdsFiles DEF Next, FilesInv
<1> QED
  BY <1>1, BridgeNext, DoneNext DEF SetupInv, FilesInv

\* The autosetups of one user write one entry at one place, and none undoes
\* what another has done.
THEOREM SetupInvTheorem == ASSUME OneOwner, LinesEnd PROVE Spec => []SetupInv
<1>1. Init => TypeOK /\ SetupInv
  BY TypeInit, SetupInit
<1>2. TypeOK /\ SetupInv /\ [Next]_vars => (TypeOK /\ SetupInv)'
  BY TypeNext, SetupNext
<1> QED
  BY <1>1, <1>2, PTL DEF Spec

\* An entry of the id files that is found is found from then on, with the same
\* range (helpers.go:125), when one user's autosetups run, however many.
THEOREM RangeIsKeptTheorem == ASSUME OneOwner, LinesEnd PROVE Spec => RangeIsKept
<1> DEFINE Kept ==
      ids' # ids =>
        \A f \in IdFiles : \A i \in DOMAIN ids[f] : Alone(ids[f], i) =>
          /\ Alone(ids'[f], i)
          /\ \A k \in {"user", "start", "count"} : ids'[f][i][k] = ids[f][i][k]
<1>1. TypeOK /\ SetupInv /\ [Next]_vars => [Kept]_vars
  BY StepKeeps DEF Keeps
<1> QED
  BY <1>1, TypeCorrect, SetupInvTheorem, PTL DEF Spec, RangeIsKept

\* After an autosetup that reported no error, initialized finds the backend
\* ready (autosetup.go:41), unless another one is under way or has left the
\* bridge file cut off, or a write failed.
THEOREM SetupIsEnoughTheorem == ASSUME OneOwner, LinesEnd PROVE Spec => []SetupIsEnough
<1>1. TypeOK /\ SetupInv => SetupIsEnough
  <2> SUFFICES ASSUME TypeOK, SetupInv, \A p \in Procs : pc[p] = "idle",
                      incidents \cap {"cut", "unwritten"} = {},
                      NEW p \in Procs, result[p] = "ok"
               PROVE  Initialized(Me(p), run[p].ignoreBridge)
    BY DEF SetupIsEnough
  <2>1. bridge # "empty" /\ Written
    BY DEF SetupInv, Written
  <2> QED
    BY <2>1 DEF SetupInv, DoneInv, Past, Initialized, TypeOK
<1> QED
  BY <1>1, TypeCorrect, SetupInvTheorem, PTL

\* All of it together, where the files are as both parts need them.
THEOREM InductiveInvTheorem ==
  ASSUME RangesGiven, OneOwner, LinesEnd PROVE Spec => []InductiveInv
<1>1. HostInv /\ SetupInv => InductiveInv
  BY DEF InductiveInv
<1> QED
  BY <1>1, HostInvTheorem, SetupInvTheorem, PTL

-----------------------------------------------------------------------------
(* The id mapping of a target.                                              *)

\* "map the first uid and gid range before the current users id", "now the
\* user ID is mapped 1:1", "and the rest" (create.go:269-275): with a range
\* that holds the id of the target's user and ends within the 32 bits, the lines cover
\* the target's ids once each, the user's to the user and all others within
\* the user's own range, and nothing wraps.
THEOREM MappingCorrect ==
  ASSUME NEW W \in Nat, NEW first \in Nat, NEW range \in 0 .. W - 1,
         NEW containerUid \in Nat, NEW uid \in Nat,
         WideEnough(W, first, range, containerUid)
  PROVE  MappingIsRight(W, first, range, containerUid, uid)
<1> DEFINE before == [container |-> 0, host |-> first, n |-> containerUid]
           own == [container |-> containerUid, host |-> uid, n |-> 1]
           rest == [container |-> containerUid + 1,
                    host |-> (first + containerUid + 1) % W,
                    n |-> range - containerUid - 1]
<1>1. /\ (containerUid + 1) % W = containerUid + 1
      /\ (range - containerUid - 1) % W = range - containerUid - 1
  BY DEF WideEnough
<1>2. Mapping(W, first, range, containerUid, uid) = {before, own, rest}
  BY <1>1 DEF Mapping
\* Nothing wraps unless there is nothing in it.
<1>3. rest.n # 0 => rest.host = first + containerUid + 1
  BY DEF WideEnough
<1>4. MapsRange({before, own, rest}, range)
  BY DEF MapsRange, In, WideEnough
<1>5. MapsInto(W, {before, own, rest}, first, range, containerUid, uid)
  <2> SUFFICES ASSUME NEW l \in {before, own, rest}, NEW id \in 0 .. range - 1, In(l, id)
               PROVE  IF id = containerUid THEN HostOf(l, id) = uid
                      ELSE HostOf(l, id) \in first .. first + range - 1 /\ HostOf(l, id) < W
    BY DEF MapsInto
  <2>1. CASE l = before
    BY <2>1 DEF In, HostOf, WideEnough
  <2>2. CASE l = own
    BY <2>2 DEF In, HostOf
  <2>3. CASE l = rest
    BY <1>3, <2>3 DEF In, HostOf, WideEnough
  <2> QED
    BY <2>1, <2>2, <2>3
<1> QED
  BY <1>2, <1>4, <1>5 DEF MappingIsRight
==============================================================================
