-------------------------- MODULE MCViewerProcess --------------------------
(* No call differs from another one. *)
EXTENDS ViewerProcess, TLC
Symmetric == Permutations(Calls)
=============================================================================
