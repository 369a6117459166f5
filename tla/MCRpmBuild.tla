----------------------------- MODULE MCRpmBuild -----------------------------
(* A build next to the snapshot commands of one user.                       *)
EXTENDS RpmBuild

CONSTANTS b1, u1

MCProcs == {b1, u1}
MCBuilders == {b1}

Line(f) == [flags |-> f, name |-> NoName]
TakenBefore == {{[name |-> "snap0", time |-> 0, root |-> 0]}}

ListAndRestore == {Line({"list"}), Line({"restore"})}
=============================================================================
