---------------------------- MODULE MCImageCache ----------------------------
(* Two creates that use the cache. *)
EXTENDS ImageCache, TLC

CONSTANTS p1, p2

Two == {p1, p2}
Symmetry == Permutations(Procs)
=============================================================================
