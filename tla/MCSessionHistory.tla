-------------------------- MODULE MCSessionHistory --------------------------
(* Small instances of SessionHistory, with chunks that break off before,   *)
(* between and after the two characters of a line end.                     *)
EXTENDS SessionHistory

SmallChunks ==
  {<<"char">>, <<"char", "cr">>, <<"lf", "char">>, <<"char", "cr", "lf">>,
   <<"cr", "char", "lf", "char">>}
=============================================================================
