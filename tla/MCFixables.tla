----------------------------- MODULE MCFixables -----------------------------
(* Two targets with mounts of two devices, of a tmpfs and other lines.      *)
EXTENDS Fixables, TLC

CONSTANTS p1, p2, t1, t2, d1, d2

Two == {p1, p2}
One == {p1}
Both == {t1, t2}
First == {t1}
TwoDevices == {d1, d2}
Symmetry == Permutations(Procs)

Mount(d) == [kind |-> "mount", source |-> d, names |-> {d}]
Tmpfs == [kind |-> "tmpfs", source |-> NoDevice, names |-> {}]
Other == [kind |-> "other", source |-> NoDevice, names |-> {}]

\* A line of another kind may have the path of a device in it, too.
Naming(d) == [kind |-> "other", source |-> NoDevice, names |-> {d}]

Mixed == (t1 :> <<Mount(d1), Naming(d1)>>) @@ (t2 :> <<Tmpfs, Mount(d1)>>)
OneDevice == {d1}
TwoMounts == (t1 :> <<Other, Mount(d1), Mount(d2)>>)
=============================================================================
