------------------------------- MODULE IdMap -------------------------------
(***************************************************************************)
(* The id mapping of a target (createDefaultConfig of                      *)
(* lmsdk-target/create.go): the lxc.idmap lines that it writes from the    *)
(* user's subordinate range (see HostSetup), the user's own id on the host *)
(* and the id of the target's user.  Ids and counts are unsigned numbers   *)
(* below W, 2^32 in the code; the same three lines are written for the     *)
(* group.                                                                  *)
(***************************************************************************)
EXTENDS Integers

\* A line maps n ids from container on to those from host on: the ids before
\* the user's, the user's own, and the rest.
Mapping(W, first, range, containerUid, uid) ==
  { [container |-> 0, host |-> first, n |-> containerUid],
    [container |-> containerUid, host |-> uid, n |-> 1],
    [container |-> (containerUid + 1) % W,
     host |-> (first + containerUid + 1) % W,
     n |-> (range - containerUid - 1) % W] }

In(l, id) == l.container <= id /\ id < l.container + l.n

HostOf(l, id) == l.host + (id - l.container)

\* The range holds the id of the target's user and ends below W.
WideEnough(W, first, range, containerUid) ==
  containerUid < range /\ first + range <= W

\* Every id of the target below the range's length, and no other, is mapped,
\* each by one line ...
MapsRange(map, range) ==
  /\ \A l \in map : l.container + l.n <= range
  /\ \A id \in 0 .. range - 1 : \E l \in map : In(l, id)
  /\ \A l, m \in map : \A id \in 0 .. range - 1 : In(l, id) /\ In(m, id) => l = m

\* ... the user of the target to the user, and the others to ids of the range.
MapsInto(W, map, first, range, containerUid, uid) ==
  \A l \in map : \A id \in 0 .. range - 1 : In(l, id) =>
    IF id = containerUid THEN HostOf(l, id) = uid
    ELSE HostOf(l, id) \in first .. first + range - 1 /\ HostOf(l, id) < W

\* What a target needs of its id mapping.
MappingIsRight(W, first, range, containerUid, uid) ==
  LET map == Mapping(W, first, range, containerUid, uid)
  IN  MapsRange(map, range) /\ MapsInto(W, map, first, range, containerUid, uid)
============================================================================
