--------------------------- MODULE ImageCacheProofs ---------------------------
(* The image cache is sound for any number of creates: a create that has it *)
(* to itself unpacks one build, and a directory with a build_id is complete *)
(* when no create is at work and none has failed.                           *)
EXTENDS ImageCache, TLAPS

USE BuildAssumption DEF Builds, None, Cut, Goto, cacheVars, history

-----------------------------------------------------------------------------
(* Types. *)

LEMMA TypeInit == Init => TypeOK
BY DEF Init, TypeOK, Empty, NoArchives, NoLine, NoTarget, Locations

\* Exit is well typed, whatever becomes of the target.
LEMMA ExitType ==
  ASSUME TypeOK, NEW p \in Procs, NEW r \in {"ok", "failed", "killed"}, Exit(p, r),
         UNCHANGED cacheVars, UNCHANGED history,
         target' \in [Procs -> [root : Builds \cup {None}, config : Builds \cup {None},
                                fstab : Builds \cup {None}]]
  PROVE  TypeOK'
BY DEF TypeOK, Exit, NoArchives, NoLine, Locations

\* What a create installs, and what it downloads.
Targets == [root : Builds \cup {None}, config : Builds \cup {None}, fstab : Builds \cup {None}]
Temps == [dir : BOOLEAN, root : Builds \cup {None, Cut}, meta : Builds \cup {None, Cut}]

\* The build that is downloaded, whole or not.
LEMMA FetchedType ==
  ASSUME TypeOK, NEW p \in Procs PROVE Fetched(p) \subseteq Builds \cup {None, Cut}
BY DEF TypeOK, Fetched

\* What the parse finds, after either download.
LEMMA LineType ==
  ASSUME TypeOK, NEW p \in Procs
  PROVE  Lines \cup {index[p], Line(TRUE), NoLine} \subseteq [build : Builds \cup {None}, whole : BOOLEAN]
<1>1. \A w \in BOOLEAN : Line(w) \in [build : Builds \cup {None}, whole : BOOLEAN]
  BY DEF TypeOK, Line
<1>2. NoLine \in [build : Builds \cup {None}, whole : BOOLEAN]
  BY DEF NoLine
<1>3. index[p] \in [build : Builds \cup {None}, whole : BOOLEAN]
  BY DEF TypeOK
<1>4. Lines \subseteq {Line(TRUE), Line(FALSE), NoLine}
  BY DEF Lines
<1> QED
  BY <1>1, <1>2, <1>3, <1>4

LEMMA TypeNext == TypeOK /\ [Next]_vars => TypeOK'
<1> SUFFICES ASSUME TypeOK, [Next]_vars PROVE TypeOK'
  OBVIOUS
<1>1. CASE Publish
  BY <1>1 DEF TypeOK, Publish
<1>2. ASSUME NEW p \in Procs, Begin(p) PROVE TypeOK'
  BY <1>2 DEF TypeOK, Begin, Locations, NoTarget
<1>3. ASSUME NEW p \in Procs, RemovePart(p) PROVE TypeOK'
  BY <1>3 DEF TypeOK, RemovePart
<1>4. ASSUME NEW p \in Procs, RemoveDir(p) \/ RemoveOther(p) PROVE TypeOK'
  <2>1. \A q \in Procs : pc[q] \in Locations
    BY DEF TypeOK
  <2>2. \A q \in Procs : Orphaned(q) \in Locations
    BY <2>1 DEF Orphaned, Locations
  <2>3. \A l \in Locations : AfterRemoval(l) \in Locations
    BY DEF AfterRemoval, Locations
  <2>4. RemoveDir(p) => pc' \in [Procs -> Locations]
    BY <2>1, <2>2, <2>3 DEF RemoveDir
  <2>5. RemoveOther(p) => pc' \in [Procs -> Locations]
    <3>1. pc \in [Procs -> Locations]
      BY DEF TypeOK
    <3> QED
      BY <2>1, <2>3, <3>1 DEF RemoveOther
  <2> QED
    BY <1>4, <2>4, <2>5 DEF TypeOK, RemoveDir, RemoveOther
<1>5. ASSUME NEW p \in Procs, DownloadIndex(p) \/ DownloadIndexAgain(p) PROVE TypeOK'
  <2>1. PICK l \in [build : Builds \cup {None}, whole : BOOLEAN] : index' = [index EXCEPT ![p] = l]
    BY <1>5, LineType DEF DownloadIndex, DownloadIndexAgain
  <2>2. pc' \in [Procs -> Locations]
    <3>1. PICK loc \in {"list", "parse"} : pc' = [pc EXCEPT ![p] = loc]
      BY <1>5 DEF DownloadIndex, DownloadIndexAgain
    <3> QED
      BY <3>1 DEF TypeOK, Locations
  <2> QED
    BY <1>5, <2>1, <2>2 DEF TypeOK, DownloadIndex, DownloadIndexAgain
<1>6. ASSUME NEW p \in Procs, Check(p) PROVE TypeOK'
  BY <1>6 DEF TypeOK, Check, Locations
<1>7. ASSUME NEW p \in Procs, DownloadRootfs(p) PROVE TypeOK'
  <2>1. PICK b \in Builds \cup {None, Cut} : temp' = [temp EXCEPT ![p].root = b]
    BY <1>7, FetchedType DEF DownloadRootfs
  <2>2. temp \in [Procs -> Temps]
    BY DEF TypeOK, Temps
  <2>3. [temp[p] EXCEPT !.root = b] \in Temps
    BY <2>2 DEF Temps
  <2>4. temp' \in [Procs -> Temps]
    BY <2>1, <2>2, <2>3
  <2>5. pc' \in [Procs -> Locations]
    BY <1>7 DEF TypeOK, DownloadRootfs, Locations
  <2> QED
    BY <1>7, <2>4, <2>5 DEF TypeOK, DownloadRootfs, Temps
<1>8. ASSUME NEW p \in Procs, DownloadMeta(p) PROVE TypeOK'
  <2>1. PICK b \in Builds \cup {None, Cut} : temp' = [temp EXCEPT ![p].meta = b]
    BY <1>8, FetchedType DEF DownloadMeta
  <2>2. temp \in [Procs -> Temps]
    BY DEF TypeOK, Temps
  <2>3. [temp[p] EXCEPT !.meta = b] \in Temps
    BY <2>2 DEF Temps
  <2>4. temp' \in [Procs -> Temps]
    BY <2>1, <2>2, <2>3
  <2>5. pc' \in [Procs -> Locations]
    BY <1>8 DEF TypeOK, DownloadMeta, Locations
  <2> QED
    BY <1>8, <2>4, <2>5 DEF TypeOK, DownloadMeta, Temps
<1>9. ASSUME NEW p \in Procs, Mkdir(p) PROVE TypeOK'
  BY <1>9 DEF TypeOK, Mkdir, Locations
<1>10. ASSUME NEW p \in Procs, Mv(p) PROVE TypeOK'
  BY <1>10 DEF TypeOK, Mv, Locations
<1>11. ASSUME NEW p \in Procs, ExtractMeta(p) PROVE TypeOK'
  BY <1>11 DEF TypeOK, ExtractMeta, Parts
<1>12. ASSUME NEW p \in Procs, Extracted(p) PROVE TypeOK'
  BY <1>12 DEF TypeOK, Extracted, Locations
<1>13. ASSUME NEW p \in Procs, WriteId(p) PROVE TypeOK'
  BY <1>13 DEF TypeOK, WriteId, Locations, Parts
<1>14. ASSUME NEW p \in Procs, Unpack(p) PROVE TypeOK'
  BY <1>14, ZenonT(60) DEF TypeOK, Unpack, Locations
<1>15. ASSUME NEW p \in Procs, AddConfig(p) PROVE TypeOK'
  <2>1. cache["config"] \in Builds \cup {None}
    BY DEF TypeOK, Parts, MetaFiles
  <2>2. target \in [Procs -> Targets]
    BY DEF TypeOK, Targets
  <2>3. [target[p] EXCEPT !.config = cache["config"]] \in Targets
    BY <2>1, <2>2 DEF Targets
  <2>4. target' \in [Procs -> Targets]
    BY <1>15, <2>2, <2>3 DEF AddConfig
  <2> QED
    BY <1>15, <2>4 DEF TypeOK, AddConfig, Locations, Targets
<1>16. ASSUME NEW p \in Procs, AddFstab(p) PROVE TypeOK'
  <2>1. cache["fstab"] \in Builds \cup {None}
    BY DEF TypeOK, Parts, MetaFiles
  <2>2. target \in [Procs -> Targets]
    BY DEF TypeOK, Targets
  <2>3. [target[p] EXCEPT !.fstab = cache["fstab"]] \in Targets
    BY <2>1, <2>2 DEF Targets
  <2>4. target' \in [Procs -> Targets]
    BY <1>16, <2>2, <2>3 DEF AddFstab
  <2> QED
    BY <1>16, <2>4, ExitType DEF AddFstab, Targets
<1>17. ASSUME NEW p \in Procs, Fails(p) PROVE TypeOK'
  BY <1>17, ExitType DEF Fails, TypeOK
<1>18. ASSUME NEW p \in Procs, Interrupt(p) PROVE TypeOK'
  BY <1>18 DEF TypeOK, Interrupt, NoLine
<1>19. ASSUME NEW p \in Procs, Kill(p) PROVE TypeOK'
  BY <1>19, ExitType DEF Kill, TypeOK
<1>20. ASSUME NEW p \in Procs, List(p) \/ Setup(p) \/ Parse(p) \/ StartTar(p) PROVE TypeOK'
  BY <1>20, ZenonT(60) DEF TypeOK, List, Setup, Parse, StartTar, Locations
<1>21. CASE UNCHANGED vars
  BY <1>21 DEF TypeOK, vars
<1> QED
  BY <1>1, <1>2, <1>3, <1>4, <1>5, <1>6, <1>7, <1>8, <1>9, <1>10, <1>11, <1>12,
     <1>13, <1>14, <1>15, <1>16, <1>17, <1>18, <1>19, <1>20, <1>21
     DEF Next

\* The cache, and what each create holds, are of their types.
THEOREM TypeCorrect == Spec => []TypeOK
BY TypeInit, TypeNext, PTL DEF Spec

-----------------------------------------------------------------------------
(* The inductive invariant. *)

LEMMA CacheInit == Init => CacheInv
BY DEF Init, CacheInv, MissingInv, HeldInv, FreshImage, NoLine, Parsed

\* A step by which no other create moves.
Own(p) ==
  /\ pc[p] # "idle"
  /\ UNCHANGED <<server, alone, began>>
  /\ \A q \in Procs \ {p} :
       /\ pc'[q] = pc[q] /\ build'[q] = build[q] /\ index'[q] = index[q] /\ temp'[q] = temp[q]
       /\ left'[q] = left[q] /\ target'[q] = target[q] /\ result'[q] = result[q]

\* The directory is there for every other tar that has it open.
OthersKeep(p) == \A q \in Procs \ {p} : pc[q] = "extracting" => kind' = "dir"

\* While p is at work, no other create that is at work is alone; so such a step
\* is about what p itself holds and finds, and about what is missing.
LEMMA OwnStep ==
  ASSUME CacheInv, NEW p \in Procs, Own(p), result'[p] # "ok",
         MissingInv', HeldInv(p)', OthersKeep(p),
         alone[p] /\ pc'[p] # "idle" => AloneInv(p)'
  PROVE  CacheInv'
<1>1. \A q \in Procs : HeldInv(q)'
  BY DEF CacheInv, HeldInv, Own, OthersKeep
<1>2. \A q \in Procs : alone'[q] /\ pc'[q] # "idle" => AloneInv(q)'
  BY DEF CacheInv, AloneInv, Own
<1>3. FreshImage'
  BY DEF CacheInv, FreshImage, Own
<1> QED
  BY <1>1, <1>2, <1>3 DEF CacheInv

\* A create that fails or is killed is the one to answer for what is missing.
LEMMA ExitInv ==
  ASSUME TypeOK, CacheInv, NEW p \in Procs, pc[p] # "idle",
         NEW r \in {"failed", "killed"}, Exit(p, r),
         UNCHANGED cacheVars, UNCHANGED target, UNCHANGED history
  PROVE  CacheInv'
<1>1. Own(p) /\ result'[p] = r /\ pc'[p] = "idle" /\ index'[p] = NoLine
  BY DEF Own, Exit, TypeOK
<1>2. MissingInv'
  BY <1>1 DEF MissingInv
<1>3. HeldInv(p)' /\ OthersKeep(p)
  BY <1>1 DEF CacheInv, HeldInv, OthersKeep, Parsed, NoLine
<1> QED
  BY <1>1, <1>2, <1>3, OwnStep

\* The create whose removal is under way answers for every part.
LEMMA RemovePartInv ==
  ASSUME TypeOK, CacheInv, NEW p \in Procs, RemovePart(p)
  PROVE  CacheInv'
<1>1. Own(p) /\ result'[p] # "ok"
  BY DEF CacheInv, HeldInv, Own, RemovePart, Removing
<1>2. MissingInv'
  BY DEF MissingInv, Flushes, Removing, RemovePart
<1>3. HeldInv(p)' /\ OthersKeep(p)
  BY DEF CacheInv, HeldInv, OthersKeep, RemovePart
<1>4. alone[p] /\ pc'[p] # "idle" => AloneInv(p)'
  BY DEF CacheInv, AloneInv, RemovePart, Removing
<1> QED
  BY <1>1, <1>2, <1>3, <1>4, OwnStep

\* What the index lists was published when the create began, or later, whichever
\* of the two downloads the parse takes it from.
LEMMA IndexInv ==
  ASSUME TypeOK, CacheInv, NEW p \in Procs, DownloadIndex(p) \/ DownloadIndexAgain(p)
  PROVE  CacheInv'
<1>1. Own(p) /\ result'[p] # "ok"
  BY ZenonT(60) DEF CacheInv, HeldInv, Own, DownloadIndex, DownloadIndexAgain, TypeOK
<1>2. MissingInv'
  BY DEF CacheInv, MissingInv, Flushes, Removing, Provides, TypeOK, DownloadIndex, DownloadIndexAgain
<1>3. PICK l \in Lines \cup {index[p], Line(TRUE), NoLine} : index' = [index EXCEPT ![p] = l]
  BY DEF DownloadIndex, DownloadIndexAgain
<1>4. l.build \in {None} \cup began[p] .. MaxBuild
  BY <1>3 DEF CacheInv, HeldInv, Lines, Line, NoLine, TypeOK
<1>5. HeldInv(p)' /\ OthersKeep(p)
  BY <1>3, <1>4, ZenonT(60) DEF CacheInv, HeldInv, OthersKeep, Parsed, TypeOK, DownloadIndex, DownloadIndexAgain
<1>6. alone[p] /\ pc'[p] # "idle" => AloneInv(p)'
  <2>1. /\ pc'[p] = "list" \/ (pc'[p] = "parse" /\ pc[p] = "again")
        /\ \A q \in Procs \ {p} : pc'[q] = pc[q]
        /\ kind' = kind
    BY DEF TypeOK, DownloadIndex, DownloadIndexAgain
  <2>2. alone[p] => AloneInv(p)
    BY DEF CacheInv, DownloadIndex, DownloadIndexAgain
  <2> QED
    BY <2>1, <2>2 DEF AloneInv
<1> QED
  BY <1>1, <1>2, <1>5, <1>6, OwnStep

\* Before the directory is touched. A create that is alone finds none after the
\* flush, and so no build_id; with one there, it is about to be removed.
LEMMA FetchInv ==
  ASSUME TypeOK, CacheInv, NEW p \in Procs,
         List(p) \/ Setup(p) \/ Parse(p) \/ Check(p) \/ DownloadRootfs(p) \/ DownloadMeta(p)
  PROVE  CacheInv'
<1>1. Own(p) /\ result'[p] # "ok"
  BY DEF CacheInv, HeldInv, Own, TypeOK, List, Setup, Parse, Check, DownloadRootfs,
     DownloadMeta
<1>2. MissingInv'
  BY ZenonT(60) DEF CacheInv, MissingInv, Flushes, Provides, Removing, TypeOK, List, Setup, Parse,
     Check, DownloadRootfs, DownloadMeta
<1>3. HeldInv(p)' /\ OthersKeep(p)
  BY DEF CacheInv, HeldInv, OthersKeep, Parsed, TypeOK, List, Setup, Parse, Check,
     DownloadRootfs, DownloadMeta, Fetched
<1>4. alone[p] /\ pc'[p] # "idle" => AloneInv(p)'
  BY DEF CacheInv, AloneInv, TypeOK, List, Setup, Parse, Check, DownloadRootfs, DownloadMeta
<1> QED
  BY <1>1, <1>2, <1>3, <1>4, OwnStep

\* Whoever makes the directory is to put every part in place, and what a create
\* has put there is left alone while it is alone.
LEMMA FillInv ==
  ASSUME TypeOK, CacheInv, NEW p \in Procs,
         Mkdir(p) \/ Mv(p) \/ StartTar(p) \/ ExtractMeta(p) \/ Extracted(p) \/ WriteId(p)
  PROVE  CacheInv'
<1>1. Own(p) /\ result'[p] # "ok"
  BY DEF CacheInv, HeldInv, Own, TypeOK, Mkdir, Mv, StartTar, ExtractMeta, Extracted,
      WriteId
<1>2. MissingInv'
  <2>1. CASE Mkdir(p)
    BY <2>1 DEF MissingInv, Provides, Mkdir, TypeOK
  <2>2. CASE Mv(p)
    BY <2>2 DEF CacheInv, MissingInv, Provides, HeldInv, Parsed, Parts, Mv,
       TypeOK
  <2>3. CASE StartTar(p)
    BY <2>3 DEF CacheInv, MissingInv, Provides, Flushes, Removing, StartTar, TypeOK
  <2>4. CASE ExtractMeta(p)
    BY <2>4 DEF CacheInv, MissingInv, Provides, Flushes, Removing, HeldInv, Parsed,
       MetaFiles, Parts, ExtractMeta, TypeOK
  <2>5. CASE Extracted(p) \/ WriteId(p)
    BY <2>5 DEF CacheInv, MissingInv, Provides, Flushes, Removing, MetaFiles, Parts,
        Extracted, WriteId, TypeOK
  <2> QED
    BY <2>1, <2>2, <2>3, <2>4, <2>5
<1>3. HeldInv(p)' /\ OthersKeep(p)
  BY DEF CacheInv, HeldInv, OthersKeep, Parsed, TypeOK, Mkdir, Mv, StartTar, ExtractMeta,
     Extracted, WriteId
<1>4. alone[p] /\ pc'[p] # "idle" => AloneInv(p)'
  BY DEF CacheInv, AloneInv, HeldInv, Parsed, Parts, MetaFiles, TypeOK, Mkdir, Mv,
     StartTar, ExtractMeta, Extracted, WriteId
<1> QED
  BY <1>1, <1>2, <1>3, <1>4, OwnStep

\* What is unpacked is what was put in place.
LEMMA UseInv ==
  ASSUME TypeOK, CacheInv, NEW p \in Procs, Unpack(p) \/ AddConfig(p)
  PROVE  CacheInv'
<1>1. Own(p) /\ result'[p] # "ok"
  BY DEF CacheInv, HeldInv, Own, TypeOK, Unpack, AddConfig
<1>2. MissingInv'
  BY DEF CacheInv, MissingInv, Flushes, Provides, Removing, TypeOK, Unpack, AddConfig
<1>3. HeldInv(p)' /\ OthersKeep(p)
  BY DEF CacheInv, HeldInv, OthersKeep, Parsed, TypeOK, Unpack, AddConfig
<1>4. alone[p] /\ pc'[p] # "idle" => AloneInv(p)'
  BY DEF CacheInv, AloneInv, MetaFiles, TypeOK, Unpack, AddConfig
<1> QED
  BY <1>1, <1>2, <1>3, <1>4, OwnStep

\* What the trap removes is not in the cache.
LEMMA InterruptInv ==
  ASSUME TypeOK, CacheInv, NEW p \in Procs, Interrupt(p)
  PROVE  CacheInv'
<1>1. Own(p) /\ result'[p] # "ok"
  BY DEF CacheInv, HeldInv, Own, TypeOK, Interrupt
<1>2. MissingInv'
  BY DEF CacheInv, MissingInv, Flushes, Provides, Removing, Interrupt
<1>3. HeldInv(p)' /\ OthersKeep(p)
  BY DEF CacheInv, HeldInv, OthersKeep, Parsed, Interrupt, NoLine, TypeOK
<1>4. alone[p] /\ pc'[p] # "idle" => AloneInv(p)'
  BY DEF CacheInv, AloneInv, Interrupt
<1> QED
  BY <1>1, <1>2, <1>3, <1>4, OwnStep

\* With the directory goes what a tar has open in it; a create that is alone was
\* at its flush.
LEMMA RemoveDirInv ==
  ASSUME TypeOK, CacheInv, NEW p \in Procs, RemoveDir(p) \/ RemoveOther(p) PROVE CacheInv'
<1>1. \A q \in Procs :
        /\ pc'[q] # "extracting"
        /\ pc[q] = "idle" <=> pc'[q] = "idle"
        /\ pc'[q] = "extract" => pc[q] = "extract"
        /\ pc'[q] \in Parsed => pc[q] \in Parsed
        /\ pc'[q] \in {"meta", "clean", "mkdir", "mv"} =>
             pc[q] \in {"meta", "clean", "mkdir", "mv"}
  BY DEF RemoveDir, RemoveOther, Orphaned, Removing, AfterRemoval, TypeOK, Parsed, Locations,
     CacheInv, HeldInv
<1>2. /\ UNCHANGED <<server, build, index, temp, left, target, result, alone, began>>
      /\ kind' = "none"
  BY DEF RemoveDir, RemoveOther
<1>3. MissingInv'
  BY <1>2 DEF MissingInv
<1>4. \A q \in Procs : HeldInv(q)'
  BY <1>1, <1>2 DEF CacheInv, HeldInv
<1>5. \A q \in Procs : alone'[q] /\ pc'[q] # "idle" => AloneInv(q)'
  <2> SUFFICES ASSUME NEW q \in Procs, alone[q], pc'[q] # "idle" PROVE AloneInv(q)'
    BY <1>2
  <2>1. AloneInv(q) /\ q = p
    BY <1>1 DEF CacheInv, AloneInv, RemoveDir, RemoveOther, Removing
  <2>2. pc[p] = "flush" /\ pc'[p] = "again"
    BY <2>1 DEF AloneInv, RemoveDir, RemoveOther, Removing, AfterRemoval, TypeOK
  <2> QED
    BY <1>1, <1>2, <2>1, <2>2 DEF AloneInv
<1>6. FreshImage'
  BY <1>2 DEF CacheInv, FreshImage
<1> QED
  BY <1>3, <1>4, <1>5, <1>6 DEF CacheInv

\* A create that begins answers for every part: it flushes what is there.
LEMMA BeginInv ==
  ASSUME TypeOK, CacheInv, NEW p \in Procs, Begin(p) PROVE CacheInv'
<1>1. /\ \A q \in Procs \ {p} :
           pc'[q] = pc[q] /\ result'[q] = result[q] /\ target'[q] = target[q] /\ began'[q] = began[q]
      /\ UNCHANGED <<server, kind, cache, build, index, temp, left>>
      /\ result'[p] = "none" /\ pc'[p] = "index" /\ began'[p] = server
  BY DEF Begin, TypeOK
<1>2. MissingInv'
  BY <1>1 DEF MissingInv, Flushes
<1>3. index[p] = NoLine
  BY DEF CacheInv, HeldInv, Begin
<1>4. \A q \in Procs : HeldInv(q)'
  BY <1>1, <1>3 DEF CacheInv, HeldInv, Parsed, NoLine, TypeOK
<1>5. \A q \in Procs : alone'[q] /\ pc'[q] # "idle" => q = p /\ Active = {}
  BY <1>1 DEF Begin, Active
<1>6. Active = {} => AloneInv(p)'
  BY <1>1 DEF Active, AloneInv
<1>7. \A q \in Procs \ {p} : alone'[q] => alone[q] \/ pc[q] # "idle"
  BY DEF Begin, Active
<1>8. FreshImage'
  BY <1>1, <1>7 DEF CacheInv, FreshImage, HeldInv
<1> QED
  BY <1>2, <1>4, <1>5, <1>6, <1>8 DEF CacheInv

\* One that was alone ends with what it found in the cache, its own build.
LEMMA AddFstabInv ==
  ASSUME TypeOK, CacheInv, NEW p \in Procs, AddFstab(p) PROVE CacheInv'
<1>1. /\ Own(p) /\ UNCHANGED <<kind, cache>>
      /\ pc'[p] = "idle" /\ result'[p] = "ok" /\ index'[p] = NoLine
  BY DEF Own, AddFstab, Exit, TypeOK
<1>2. MissingInv'
  <2>1. ~Flushes(p) /\ \A f \in Parts : ~Provides(p, f)
    BY DEF AddFstab, Flushes, Removing, Provides
  <2>2. result[p] = "none"
    BY DEF AddFstab, CacheInv, HeldInv
  <2> QED
    BY <1>1, <2>1, <2>2 DEF CacheInv, MissingInv, Own, Flushes, Removing, Provides, Parts
<1>3. \A q \in Procs : HeldInv(q)'
  BY <1>1 DEF CacheInv, HeldInv, Own, Parsed, NoLine
<1>4. \A q \in Procs : alone'[q] /\ pc'[q] # "idle" => AloneInv(q)'
  BY <1>1 DEF CacheInv, AloneInv, Own
<1>5. alone[p] => /\ target'[p].root = target'[p].config /\ target'[p].config = target'[p].fstab
                  /\ target'[p].root \in began[p] .. MaxBuild
  <2> SUFFICES ASSUME alone[p]
               PROVE  /\ target'[p].root = target'[p].config /\ target'[p].config = target'[p].fstab
                      /\ target'[p].root \in began[p] .. MaxBuild
    OBVIOUS
  <2>1. /\ target[p].root = build[p] /\ target[p].config = build[p]
        /\ cache["fstab"] = build[p] /\ build[p] \in began[p] .. MaxBuild
    BY DEF AddFstab, CacheInv, AloneInv, HeldInv, Parsed, MetaFiles
  <2>2. target'[p] = [target[p] EXCEPT !.fstab = build[p]]
    BY <2>1 DEF AddFstab, TypeOK
  <2> QED
    BY <2>1, <2>2 DEF TypeOK
<1>6. FreshImage'
  BY <1>1, <1>5 DEF CacheInv, FreshImage, Own
<1> QED
  BY <1>2, <1>3, <1>4, <1>6 DEF CacheInv

LEMMA CacheNext == TypeOK /\ CacheInv /\ [Next]_vars => CacheInv'
<1> SUFFICES ASSUME TypeOK, CacheInv, [Next]_vars PROVE CacheInv'
  OBVIOUS
<1>1. CASE Publish \/ UNCHANGED vars
  BY <1>1 DEF Publish, vars, CacheInv, MissingInv, Flushes, Removing, Provides, HeldInv,
     AloneInv, FreshImage, TypeOK
<1>2. ASSUME NEW p \in Procs, Fails(p) \/ Kill(p) PROVE CacheInv'
  BY <1>2, ExitInv DEF Fails, CannotGoOn, Kill
<1> QED
  BY <1>1, <1>2, BeginInv, IndexInv, RemovePartInv, RemoveDirInv, FetchInv, FillInv, UseInv,
     AddFstabInv, InterruptInv
     DEF Next

\* The invariant of the cache holds for any number of creates and builds.
THEOREM CacheInvTheorem == Spec => []CacheInv
<1>1. Init => TypeOK /\ CacheInv
  BY TypeInit, CacheInit
<1>2. TypeOK /\ CacheInv /\ [Next]_vars => (TypeOK /\ CacheInv)'
  BY TypeNext, CacheNext
<1> QED
  BY <1>1, <1>2, PTL DEF Spec

\* A create that has the cache to itself and exits 0 has unpacked root file
\* system, configuration and fstab of one build, no older than what the server
\* listed when it began (lxc-lm-download:207), whatever was in the cache before.
THEOREM FreshImageTheorem == Spec => []FreshImage
<1>1. CacheInv => FreshImage
  BY DEF CacheInv
<1> QED
  BY <1>1, CacheInvTheorem, PTL

\* When no create is at work and none has failed, a cache with a build_id has
\* all of its parts (lxc-lm-download:466).
THEOREM IdIsLastTheorem == Spec => []IdIsLast
<1>1. TypeOK /\ CacheInv => IdIsLast
  <2> SUFFICES ASSUME TypeOK, CacheInv, Active = {}, cache["id"] # None,
                      \A p \in Procs : result[p] \in {"none", "ok"},
                      NEW f \in Parts
               PROVE  cache[f] # None
    BY DEF IdIsLast
  <2>1. kind = "dir"
    BY DEF TypeOK, Empty, Parts
  <2>2. \A q \in Procs : ~Flushes(q) /\ ~Provides(q, f) /\ result[q] \notin {"failed", "killed"}
    BY DEF Active, Flushes, Removing, Provides
  <2> QED
    BY <2>1, <2>2 DEF CacheInv, MissingInv, Parts
<1> QED
  BY <1>1, TypeCorrect, CacheInvTheorem, PTL
===============================================================================
