--------------------------- MODULE MCViewerClient ---------------------------
(* Three characters, the second of two bytes.  A behaviour has all of them *)
(* and no keys, or two keys and one character.                             *)
EXTENDS ViewerClient
MCEnds == <<1, 3, 4>>
MCLimits == {[bytes |-> 4, keys |-> 0], [bytes |-> 1, keys |-> 2]}
=============================================================================
