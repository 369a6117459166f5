----------------------------- MODULE ImageCache -----------------------------
(***************************************************************************)
(* share/lxc-lm-download, the template lmsdk-target create has lxc run,    *)
(* and the image cache under ~/.cache/lxc that all creates of one kind of  *)
(* target share without a lock.  The server publishes builds one after the *)
(* other; create always passes --flush-cache and --no-validate.            *)
(*                                                                         *)
(* DOWNLOAD_INTERACTIVE is true (35), so each create fetches the index      *)
(* before the flush and once more after it, into the same file: the         *)
(* downloader appends (main.go:96), and the first line of the image counts. *)
(* lmsdk-download exits 0 when the copy of the body fails (main.go:103), so  *)
(* an index or an archive may break off.                                    *)
(*                                                                         *)
(* What a file or directory holds is the number of its build, None, or Cut *)
(* for an archive that breaks off.  The metadata are the configuration,     *)
(* which must be there, and fstab, which stands for the files that are      *)
(* skipped when they are missing (excludes, templates); one that tar was    *)
(* extracting when it broke off counts as extracted.  An archive that is    *)
(* moved from another file system is in place when all of it is.            *)
(***************************************************************************)
EXTENDS Naturals

CONSTANTS Procs,      \* creates that use the cache
          MaxBuild,   \* bound on the builds the server publishes
          MayFail     \* locations where a step may fail, "cut", "interrupt",
                      \* "killed"

ASSUME BuildAssumption == MaxBuild \in Nat \ {0}

None == 0
Cut == MaxBuild + 1
Builds == 1 .. MaxBuild
MetaFiles == {"config", "fstab"}
Parts == {"root", "id"} \cup MetaFiles

VARIABLES server,     \* the build the server lists
          kind,       \* of the cache path: "none", "dir", "file"
          cache,      \* what the directory holds
          pc, build,  \* DOWNLOAD_BUILD
          index,      \* the image's first line in DOWNLOAD_TEMP/index
          temp,       \* the archives in DOWNLOAD_TEMP
          left,       \* files the tar of the metadata has left to extract
          target,     \* what was unpacked into the target
          alone,      \* history: no other create since the process began
          began,      \* history: the build the server listed at that time
          result

vars == <<server, kind, cache, pc, build, index, temp, left, target, alone, began, result>>

Empty == [f \in Parts |-> None]
NoArchives == [dir |-> TRUE, root |-> None, meta |-> None]
NoLine == [build |-> None, whole |-> FALSE]
NoTarget == [root |-> None, config |-> None, fstab |-> None]

Init ==
  /\ server = 1
  /\ kind = "none" /\ cache = Empty
  /\ pc = [p \in Procs |-> "idle"]
  /\ build = [p \in Procs |-> None] /\ index = [p \in Procs |-> NoLine]
  /\ temp = [p \in Procs |-> NoArchives] /\ left = [p \in Procs |-> {}]
  /\ target = [p \in Procs |-> NoTarget]
  /\ alone = [p \in Procs |-> TRUE] /\ began = [p \in Procs |-> None]
  /\ result = [p \in Procs |-> "none"]

-----------------------------------------------------------------------------
Goto(p, l) == pc' = [pc EXCEPT ![p] = l]
Active == {p \in Procs : pc[p] # "idle"}
cacheVars == <<server, kind, cache>>
history == <<alone, began>>

\* The trap removes DOWNLOAD_TEMP.
Exit(p, r) ==
  /\ Goto(p, "idle")
  /\ build' = [build EXCEPT ![p] = None]
  /\ index' = [index EXCEPT ![p] = NoLine]
  /\ temp' = [temp EXCEPT ![p] = NoArchives]
  /\ left' = [left EXCEPT ![p] = {}]
  /\ result' = [result EXCEPT ![p] = r]

Publish ==
  /\ server < MaxBuild
  /\ server' = server + 1
  /\ UNCHANGED <<kind, cache, pc, build, index, temp, left, target, result>> /\ UNCHANGED history

Begin(p) ==
  /\ pc[p] = "idle"
  /\ Goto(p, "index")
  /\ target' = [target EXCEPT ![p] = NoTarget]
  /\ result' = [result EXCEPT ![p] = "none"]
  /\ alone' = [q \in Procs |-> IF q \in Active \cup {p} THEN Active = {} ELSE alone[q]]
  /\ began' = [began EXCEPT ![p] = server]
  /\ UNCHANGED cacheVars /\ UNCHANGED <<build, index, temp, left>>

\* The image's line as it is published, or an index that breaks off before or
\* within it.
Line(complete) == [build |-> server, whole |-> complete]
Lines == {Line(TRUE)} \cup (IF "cut" \in MayFail THEN {NoLine, Line(FALSE)} ELSE {})

DownloadIndex(p) ==
  /\ pc[p] = "index" /\ temp[p].dir
  /\ \E l \in Lines : index' = [index EXCEPT ![p] = l]
  /\ Goto(p, "list")
  /\ UNCHANGED cacheVars /\ UNCHANGED <<build, temp, left, target, result>> /\ UNCHANGED history

\* The images are listed for the user, who is asked for nothing: distribution,
\* release and architecture are given.
List(p) ==
  /\ pc[p] = "list" /\ temp[p].dir
  /\ Goto(p, "setup")
  /\ UNCHANGED cacheVars /\ UNCHANGED <<build, index, temp, left, target, result>>
  /\ UNCHANGED history

\* mutant: without --flush-cache
SetupUnflushed(p) ==
  /\ pc[p] = "setup"
  /\ Goto(p, "again")
  /\ UNCHANGED cacheVars /\ UNCHANGED <<build, index, temp, left, target, result>>
  /\ UNCHANGED history

Setup(p) ==
  /\ pc[p] = "setup"
  /\ Goto(p, IF kind = "dir" THEN "flush" ELSE "again")
  /\ UNCHANGED cacheVars /\ UNCHANGED <<build, index, temp, left, target, result>>
  /\ UNCHANGED history

\* rm -Rf, before the second index and before the new files are put in place.
\* It finds its directory by its path: one that was made anew is removed too.
Removing(q) == pc[q] \in {"flush", "clean"}
AfterRemoval(l) == IF l = "flush" THEN "again" ELSE "mkdir"

RemovePart(p) ==
  /\ Removing(p)
  /\ kind = "dir"
  /\ \E f \in Parts : cache[f] # None /\ cache' = [cache EXCEPT ![f] = None]
  /\ UNCHANGED <<server, kind, pc, build, index, temp, left, target, result>> /\ UNCHANGED history

\* A tar that has the directory open loses it and has no place to write to; one
\* that has not been started looks it up later.
Orphaned(q) == IF pc[q] = "extracting" THEN "orphan" ELSE pc[q]

\* mutant: the directory goes first
RemoveDirFirst(p) ==
  /\ Removing(p)
  /\ kind = "dir"
  /\ kind' = "none"
  /\ pc' = [q \in Procs |-> IF q = p THEN AfterRemoval(pc[p]) ELSE Orphaned(q)]
  /\ UNCHANGED <<server, cache, build, index, temp, left, target, result>> /\ UNCHANGED history

RemoveDir(p) ==
  /\ Removing(p)
  /\ kind = "dir" /\ cache = Empty
  /\ kind' = "none"
  /\ pc' = [q \in Procs |-> IF q = p THEN AfterRemoval(pc[p]) ELSE Orphaned(q)]
  /\ UNCHANGED <<server, cache, build, index, temp, left, target, result>> /\ UNCHANGED history

\* Another create was faster; an archive that took the path is removed.
RemoveOther(p) ==
  /\ Removing(p)
  /\ kind # "dir"
  /\ kind' = "none"
  /\ Goto(p, AfterRemoval(pc[p]))
  /\ UNCHANGED <<server, cache, build, index, temp, left, target, result>> /\ UNCHANGED history

\* The second download is appended. After a line that breaks off it is the one
\* the parse finds, or the two run into each other: the joined line still names
\* the first build, with a wrong URL, or none.
DownloadIndexAgain(p) ==
  /\ pc[p] = "again" /\ temp[p].dir
  /\ \E l \in IF index[p].whole THEN {index[p]} ELSE {index[p], Line(TRUE), NoLine} :
       index' = [index EXCEPT ![p] = l]
  /\ Goto(p, "parse")
  /\ UNCHANGED cacheVars /\ UNCHANGED <<build, temp, left, target, result>> /\ UNCHANGED history

Parse(p) ==
  /\ pc[p] = "parse" /\ temp[p].dir
  /\ index[p].build # None
  /\ build' = [build EXCEPT ![p] = index[p].build]
  /\ Goto(p, "check")
  /\ UNCHANGED cacheVars /\ UNCHANGED <<index, temp, left, target, result>> /\ UNCHANGED history

\* "The cache is already up to date."
Check(p) ==
  /\ pc[p] = "check"
  /\ Goto(p, IF kind = "dir" /\ cache["id"] = build[p] THEN "unpack" ELSE "rootfs")
  /\ UNCHANGED cacheVars /\ UNCHANGED <<build, index, temp, left, target, result>> /\ UNCHANGED history

Fetched(p) == {build[p]} \cup (IF "cut" \in MayFail THEN {Cut} ELSE {})

DownloadRootfs(p) ==
  /\ pc[p] = "rootfs" /\ temp[p].dir /\ index[p].whole
  /\ \E b \in Fetched(p) : temp' = [temp EXCEPT ![p].root = b]
  /\ Goto(p, "meta")
  /\ UNCHANGED cacheVars /\ UNCHANGED <<build, index, left, target, result>> /\ UNCHANGED history

DownloadMeta(p) ==
  /\ pc[p] = "meta" /\ temp[p].dir
  /\ \E b \in Fetched(p) : temp' = [temp EXCEPT ![p].meta = b]
  /\ Goto(p, IF kind = "dir" THEN "clean" ELSE "mkdir")
  /\ UNCHANGED cacheVars /\ UNCHANGED <<build, index, left, target, result>> /\ UNCHANGED history

Mkdir(p) ==
  /\ pc[p] = "mkdir"
  /\ kind # "file"
  /\ kind' = "dir"
  /\ Goto(p, "mv")
  /\ UNCHANGED <<server, cache, build, index, temp, left, target, result>> /\ UNCHANGED history

\* Without the directory, the archive itself takes its path.
Mv(p) ==
  /\ pc[p] = "mv" /\ temp[p].dir
  /\ IF kind = "dir" THEN cache' = [cache EXCEPT !["root"] = temp[p].root] /\ UNCHANGED kind
                     ELSE kind' = "file" /\ UNCHANGED cache
  /\ Goto(p, "extract")
  /\ left' = [left EXCEPT ![p] = MetaFiles]
  /\ UNCHANGED <<server, build, index, temp, target, result>> /\ UNCHANGED history

\* tar opens the archive and the directory that has the path now, whoever made it.
StartTar(p) ==
  /\ pc[p] = "extract" /\ temp[p].dir
  /\ kind = "dir"
  /\ Goto(p, "extracting")
  /\ UNCHANGED cacheVars /\ UNCHANGED <<build, index, temp, left, target, result>>
  /\ UNCHANGED history

ExtractMeta(p) ==
  /\ pc[p] = "extracting"
  /\ kind = "dir"
  /\ \E f \in left[p] :
       /\ cache' = [cache EXCEPT ![f] = build[p]]
       /\ left' = [left EXCEPT ![p] = @ \ {f}]
  /\ UNCHANGED <<server, kind, pc, build, index, temp, target, result>> /\ UNCHANGED history

\* mutant: tar goes on in the background
ExtractedInBackground(p) ==
  /\ pc[p] = "extracting"
  /\ temp[p].meta = build[p]
  /\ Goto(p, "id")
  /\ UNCHANGED cacheVars /\ UNCHANGED <<build, index, temp, left, target, result>>
  /\ UNCHANGED history

Extracted(p) ==
  /\ pc[p] = "extracting"
  /\ left[p] = {} /\ temp[p].meta = build[p]
  /\ Goto(p, "id")
  /\ UNCHANGED cacheVars /\ UNCHANGED <<build, index, temp, left, target, result>>
  /\ UNCHANGED history

\* The build number is written last, by its path.
WriteId(p) ==
  /\ pc[p] = "id"
  /\ kind = "dir"
  /\ cache' = [cache EXCEPT !["id"] = build[p]]
  /\ Goto(p, "unpack")
  /\ UNCHANGED <<server, kind, build, index, temp, left, target, result>> /\ UNCHANGED history

Unpack(p) ==
  /\ pc[p] = "unpack"
  /\ kind = "dir" /\ cache["root"] \in Builds
  /\ target' = [target EXCEPT ![p].root = cache["root"]]
  /\ Goto(p, "config")
  /\ UNCHANGED cacheVars /\ UNCHANGED <<build, index, temp, left, result>> /\ UNCHANGED history

AddConfig(p) ==
  /\ pc[p] = "config"
  /\ kind = "dir" /\ cache["config"] # None
  /\ target' = [target EXCEPT ![p].config = cache["config"]]
  /\ Goto(p, "fstab")
  /\ UNCHANGED cacheVars /\ UNCHANGED <<build, index, temp, left, result>> /\ UNCHANGED history

\* A missing fstab is skipped.
AddFstab(p) ==
  /\ pc[p] = "fstab"
  /\ target' = [target EXCEPT ![p].fstab = cache["fstab"]]
  /\ Exit(p, "ok")
  /\ UNCHANGED cacheVars /\ UNCHANGED history

\* What set -e and the tests of the script make of the state of the cache.
CannotGoOn(p) ==
  \/ pc[p] = "orphan"
  \/ pc[p] = "mkdir" /\ kind = "file"
  \/ pc[p] \in {"extract", "id", "unpack", "config"} /\ kind # "dir"
  \/ pc[p] \in {"index", "list", "again", "parse", "rootfs", "meta", "mv", "extract"}
     /\ ~temp[p].dir
  \/ pc[p] = "parse" /\ index[p].build = None
  \/ pc[p] = "rootfs" /\ ~index[p].whole
  \/ pc[p] = "extracting" /\ temp[p].meta # build[p]
  \/ pc[p] = "unpack" /\ cache["root"] \in {None, Cut}
  \/ pc[p] = "config" /\ cache["config"] = None

Fails(p) ==
  /\ pc[p] \in MayFail \ {"idle"} \/ CannotGoOn(p)
  /\ Exit(p, "failed")
  /\ UNCHANGED cacheVars /\ UNCHANGED target /\ UNCHANGED history

\* The trap on HUP, INT and TERM removes DOWNLOAD_TEMP and the script goes on;
\* it runs between two commands, not in the middle of tar.
Interrupt(p) ==
  /\ "interrupt" \in MayFail
  /\ pc[p] # "idle" /\ temp[p].dir
  /\ pc[p] \notin {"extracting", "orphan"}
  /\ index' = [index EXCEPT ![p] = NoLine]
  /\ temp' = [temp EXCEPT ![p] = [dir |-> FALSE, root |-> None, meta |-> None]]
  /\ UNCHANGED cacheVars /\ UNCHANGED <<pc, build, left, target, result>> /\ UNCHANGED history

Kill(p) ==
  /\ "killed" \in MayFail
  /\ pc[p] # "idle"
  /\ Exit(p, "killed")
  /\ UNCHANGED cacheVars /\ UNCHANGED target /\ UNCHANGED history

Next ==
  \/ Publish
  \/ \E p \in Procs :
       \/ Begin(p) \/ DownloadIndex(p) \/ List(p) \/ Setup(p)
       \/ RemovePart(p) \/ RemoveDir(p) \/ RemoveOther(p)
       \/ DownloadIndexAgain(p) \/ Parse(p) \/ Check(p)
       \/ DownloadRootfs(p) \/ DownloadMeta(p) \/ Mkdir(p) \/ Mv(p)
       \/ StartTar(p) \/ ExtractMeta(p) \/ Extracted(p) \/ WriteId(p)
       \/ Unpack(p) \/ AddConfig(p) \/ AddFstab(p) \/ Fails(p) \/ Interrupt(p) \/ Kill(p)

Spec == Init /\ [][Next]_vars

-----------------------------------------------------------------------------
(* Properties. *)

Locations == {"idle", "index", "list", "setup", "flush", "again", "parse", "check",
              "rootfs", "meta", "clean", "mkdir", "mv", "extract", "extracting", "orphan", "id", "unpack", "config", "fstab"}

TypeOK ==
  /\ server \in Builds
  /\ kind \in {"none", "dir", "file"}
  /\ cache \in [Parts -> Builds \cup {None, Cut}]
  /\ kind # "dir" => cache = Empty
  /\ \A f \in Parts \ {"root"} : cache[f] # Cut
  /\ pc \in [Procs -> Locations]
  /\ build \in [Procs -> Builds \cup {None}] /\ began \in [Procs -> Builds \cup {None}]
  /\ index \in [Procs -> [build : Builds \cup {None}, whole : BOOLEAN]]
  /\ temp \in [Procs -> [dir : BOOLEAN, root : Builds \cup {None, Cut}, meta : Builds \cup {None, Cut}]]
  /\ left \in [Procs -> SUBSET MetaFiles]
  /\ target \in [Procs -> [root : Builds \cup {None}, config : Builds \cup {None},
                           fstab : Builds \cup {None}]]
  /\ alone \in [Procs -> BOOLEAN]
  /\ result \in [Procs -> {"none", "ok", "failed", "killed"}]

\* "Flush the local copy (if present)" (lxc-lm-download:207) is what create
\* relies on: whatever creates that were killed, failed or ran side by side
\* left in the cache, one that has it to itself and exits 0 has unpacked root
\* file system, configuration and fstab of one build, and of none that is older
\* than what the server listed when the create began.
FreshImage ==
  \A p \in Procs : alone[p] /\ result[p] = "ok" =>
    /\ target[p].root = target[p].config /\ target[p].config = target[p].fstab
    /\ target[p].root \in began[p] .. MaxBuild

\* "The cache is already up to date" (lxc-lm-download:466) is concluded from
\* build_id alone: when the creates are over and the last of every process
\* exited 0, a cache with a build_id has all of its parts (of whatever build),
\* although they removed and refilled it under each other's hands.
IdIsLast ==
  Active = {} /\ cache["id"] # None /\ (\A p \in Procs : result[p] \in {"none", "ok"}) =>
    \A f \in Parts : cache[f] # None

-----------------------------------------------------------------------------
(* What keeps the properties, step by step. *)

\* The locations of a process that knows the build it is to install.
Parsed == {"check", "rootfs", "meta", "clean", "mkdir", "mv", "extract", "extracting",
           "orphan", "id", "unpack", "config", "fstab"}

\* A process that is still to put a part in place.
Provides(p, f) ==
  \/ pc[p] \in {"mkdir", "mv"}
  \/ pc[p] \in {"extract", "extracting"} /\ f \in left[p]

\* A process that removes a directory it finds before it gets to its end.
Flushes(q) == pc[q] \in {"index", "list", "setup"} \/ Removing(q)

\* A directory that misses a part is about to be removed or to get it, or the
\* process that was to do so did not get to its end.
MissingInv ==
  kind = "dir" =>
    \A f \in {"root"} \cup MetaFiles :
      \/ cache[f] # None
      \/ \E q \in Procs : Flushes(q) \/ Provides(q, f) \/ result[q] \in {"failed", "killed"}

\* What a create holds, whoever else is at work.
HeldInv(p) ==
  /\ pc[p] = "extracting" => kind = "dir"
  /\ pc[p] = "extract" => left[p] = MetaFiles
  /\ began[p] \in 0 .. server
  /\ index[p].build \in {None} \cup began[p] .. MaxBuild
  /\ pc[p] \in Parsed => build[p] \in Builds /\ build[p] \in began[p] .. MaxBuild
  /\ pc[p] \in {"meta", "clean", "mkdir", "mv"} /\ temp[p].dir => temp[p].root \in {build[p], Cut}
  /\ IF pc[p] = "idle" THEN index[p] = NoLine ELSE result[p] = "none"

\* What a create that has the cache to itself finds there: nothing after the
\* flush, then what it has put in place.
AloneInv(p) ==
  /\ \A q \in Procs \ {p} : pc[q] = "idle"
  /\ pc[p] \notin {"clean", "orphan"}
  /\ pc[p] = "flush" => kind = "dir"
  /\ pc[p] \in {"again", "parse", "check", "rootfs", "meta"} => kind # "dir"
  /\ pc[p] \in {"mkdir", "mv"} => cache = Empty
  /\ pc[p] \in {"mv", "extract", "extracting", "id", "unpack", "config", "fstab"} => kind = "dir"
  /\ pc[p] \in {"extract", "extracting", "id", "unpack"} => cache["root"] \in {build[p], Cut}
  /\ pc[p] = "extracting" => \A f \in MetaFiles \ left[p] : cache[f] = build[p]
  /\ pc[p] \in {"id", "unpack", "config", "fstab"} => \A f \in MetaFiles : cache[f] = build[p]
  /\ pc[p] \in {"config", "fstab"} => target[p].root = build[p]
  /\ pc[p] = "fstab" => target[p].config = build[p]

\* The cache of lxc-lm-download between any two of its steps
\* (lxc-lm-download:319-520): what is missing in it, what each create holds,
\* and what one that is alone finds; FreshImage and IdIsLast follow from it.
CacheInv ==
  /\ MissingInv
  /\ \A p \in Procs : HeldInv(p) /\ (alone[p] /\ pc[p] # "idle" => AloneInv(p))
  /\ FreshImage
=============================================================================
