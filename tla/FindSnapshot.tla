---------------------------- MODULE FindSnapshot ----------------------------
(***************************************************************************)
(* findSnapshot of lmsdk-target/snapshot.go: one pass over the list that   *)
(* lxc returned, keeping the index and the time of the best entry so far.  *)
(* The list is in whatever order lxc gives it, its timestamps have a       *)
(* granularity of one second, and one that does not parse ends the search. *)
(*                                                                         *)
(* A timestamp is a natural number, or Unparsable.  Indices count from 1   *)
(* here and 0 stands for the -1 of the code.                               *)
(***************************************************************************)
EXTENDS Naturals, Sequences

CONSTANTS Unparsable,   \* a timestamp time.Parse refuses
          Lists         \* the lists of timestamps lxc may return

\* Any set of lists of any length.
AnyLists == Unparsable \notin Nat /\ Lists \subseteq Seq(Nat \cup {Unparsable})

VARIABLES snapshots,    \* the list, fixed
          mode,         \* "oldest" or "newest", fixed
          pos,          \* the next entry to look at
          currSnap,     \* the best entry so far, 0 for none
          currTime,     \* its time
          err           \* the search ended on an unparsable timestamp

scanVars == <<snapshots, mode, pos, currSnap, currTime, err>>

ScanInit ==
  /\ snapshots \in Lists
  /\ mode \in {"oldest", "newest"}
  /\ pos = 1 /\ currSnap = 0 /\ currTime = 0 /\ err = FALSE

\* Before for the oldest, After for the newest: strict both times.
Beats(s, t) == IF mode = "oldest" THEN s < t ELSE s > t

Scanning == ~err /\ pos <= Len(snapshots)

\* The entry does not parse: return -1 and the error.
ParseFails ==
  /\ Scanning
  /\ snapshots[pos] = Unparsable
  /\ err' = TRUE /\ currSnap' = 0
  /\ UNCHANGED <<snapshots, mode, pos, currTime>>

\* The first entry, and then every entry that beats the best one, is taken.
Take ==
  /\ Scanning
  /\ snapshots[pos] # Unparsable
  /\ currSnap = 0 \/ Beats(snapshots[pos], currTime)
  /\ currSnap' = pos /\ currTime' = snapshots[pos] /\ pos' = pos + 1
  /\ UNCHANGED <<snapshots, mode, err>>

Skip ==
  /\ Scanning
  /\ snapshots[pos] # Unparsable
  /\ currSnap # 0 /\ ~Beats(snapshots[pos], currTime)
  /\ pos' = pos + 1
  /\ UNCHANGED <<snapshots, mode, currSnap, currTime, err>>

ScanNext == ParseFails \/ Take \/ Skip

ScanSpec == ScanInit /\ [][ScanNext]_scanVars

-----------------------------------------------------------------------------
Returned == ~Scanning

\* The scan's variables have their types.
ScanTypeOK ==
  /\ snapshots \in Lists
  /\ mode \in {"oldest", "newest"}
  /\ pos \in 1 .. Len(snapshots) + 1
  /\ currSnap \in 0 .. Len(snapshots)
  /\ currTime \in Nat
  /\ err \in BOOLEAN

\* What the callers of findSnapshot rely on (snapshot.go:113 and 180): the
\* index is that of a snapshot no other one beats and, of several that carry
\* the same second, the first of the list.  -1 comes back only for the empty
\* list, without an error, or with one when some timestamp does not parse.
FirstExtremal ==
  Returned =>
    \/ /\ err /\ currSnap = 0
       /\ \E j \in DOMAIN snapshots : snapshots[j] = Unparsable
    \/ /\ ~err /\ currSnap = 0 /\ snapshots = << >>
    \/ /\ ~err /\ currSnap \in DOMAIN snapshots
       /\ \A j \in DOMAIN snapshots :
            /\ snapshots[j] # Unparsable
            /\ ~Beats(snapshots[j], snapshots[currSnap])
            /\ j < currSnap => Beats(snapshots[currSnap], snapshots[j])

-----------------------------------------------------------------------------
\* The induction over the scan: the same, of the entries before pos.
ScanInv ==
  /\ ScanTypeOK
  /\ err => /\ currSnap = 0
            /\ \E j \in DOMAIN snapshots : snapshots[j] = Unparsable
  /\ ~err =>
       /\ (pos = 1) <=> (currSnap = 0)
       /\ currSnap < pos
       /\ currSnap # 0 => currTime = snapshots[currSnap]
       /\ \A j \in 1 .. pos - 1 :
            /\ snapshots[j] # Unparsable
            /\ ~Beats(snapshots[j], currTime)
            /\ j < currSnap => Beats(currTime, snapshots[j])
=============================================================================
