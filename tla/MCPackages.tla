----------------------------- MODULE MCPackages -----------------------------
(* One process that builds and installs, one that installs packages it      *)
(* prefers, on one target.                                                  *)
EXTENDS Packages, TLC

CONSTANTS p1, p2, d1, d2, a, b, r1, r2, r3

MCProcs == {p1, p2}
MCDirs == {d1, d2}
MCPackages == {a, b}
MCPreferred == {a}
MCRequirements == {r1, r2, r3}

\* One that only the server has, one with a choice, one that nothing provides.
MCProviders == (r1 :> {b}) @@ (r2 :> {a, b}) @@ (r3 :> {})

Installs == [kind : {"rpminstall"}, packages : {{a}}, prefer : BOOLEAN,
             clean : {FALSE}, upgrade : {FALSE}, deps : {FALSE}]

\* Options that a build has all or none of.
Builds == {[kind |-> "rpmbuild", packages |-> {}, prefer |-> o, clean |-> c,
            upgrade |-> o, deps |-> TRUE] : o \in BOOLEAN, c \in BOOLEAN}

\* An rpminstall with a directory of preferred packages.
Preferring == {c \in Installs : c.prefer}

MCCommands == Installs \cup Builds
MCRequests == {p1} \X MCCommands \cup {p2} \X Preferring
Symmetry == Permutations(Dirs)
=============================================================================
