------------------------- MODULE MCSessionRegistry -------------------------
(* Session ids are drawn at random: no session differs from another one.  *)
EXTENDS SessionRegistry
Symmetric == Permutations(Sessions)
=============================================================================
