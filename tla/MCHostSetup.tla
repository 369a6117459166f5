----------------------------- MODULE MCHostSetup -----------------------------
(* Two autosetups of one user, or one of each of two users, on a host with  *)
(* entries of other users in its id files, or none; and the id mapping.     *)
EXTENDS HostSetup, IdMap, TLC

CONSTANTS p1, p2, u1, u2, u3, c1, c2

TwoProcs == {p1, p2}
OneProc == {p1}
MCUsers == {u1, u2, u3}
MCContainers == {c1, c2}
Symmetry == Permutations(Procs) \cup Permutations(Containers)
Owned == [c \in MCContainers |-> u1]

OneUser == [user : {u1}, ignoreBridge : BOOLEAN]
TwoUsers == [user : {u1, u2}, ignoreBridge : {FALSE}]
Of(u, start, count) == [user |-> u, start |-> start, count |-> count, newline |-> TRUE]

\* Empty; and not in the order of the ranges, the last of which ends beyond
\* Width.
Several == {<< >>, <<Of(u2, 1, 1), Of(u3, 0, 1), Of(u3, 2, 4)>>}
NoneOrOne == {<< >>, <<Of(u3, 0, 1)>>}

\* The mapping made from a range, for 4 bits' worth of ids.
ASSUME MappingAssumption ==
  \A first, range, containerUid, uid \in 0 .. 15 :
    /\ WideEnough(16, first, range, containerUid) =>
         MappingIsRight(16, first, range, containerUid, uid)
    /\ MappingIsRight(16, first, range, containerUid, uid) => containerUid < range
==============================================================================
