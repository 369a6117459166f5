---------------------------- MODULE MCSnapshots -----------------------------
(* Instances of Snapshots: the command lines each run gives its processes.  *)
EXTENDS Snapshots, TLC

CONSTANTS p1, p2

TwoProcs == {p1, p2}
Symmetry == Permutations(Procs)

NoneYet == {{}}

Line(f) == [flags |-> f, name |-> NoName]

Lines == {Line(f) : f \in {{}, {"list"}, {"restore"}, {"reset"}, {"destroy"},
                           {"restore", "reset"}}}
           \cup {[flags |-> {"restore"}, name |-> "snap0"]}
TakeAndReset == {Line({}), Line({"reset"})}
=============================================================================
