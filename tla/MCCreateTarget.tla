-------------------------- MODULE MCCreateTarget ----------------------------
(* Two processes with a name each, or with one name.                        *)
EXTENDS CreateTarget

CONSTANTS p1, p2, n1, n2

Two == {p1, p2}
OneName == {n1}
TwoNames == {n1, n2}
Any == Procs \X Names
Own == {<<p1, n1>>, <<p2, n2>>}
=============================================================================
