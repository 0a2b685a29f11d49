--------------------------- MODULE MCRedisClient ---------------------------
(* Commands and sockets are numbered in the order of their use, so that no *)
(* two states differ by a renaming.  The values that Redis answers with    *)
(* are empty, look like a type, a line end or the beginning of one, or     *)
(* have a character of two bytes.                                          *)
EXTENDS RedisClient
MCTexts == {<<>>, <<ArrayType>>, <<CR, LF>>, <<BulkType, CR>>, <<Wide>>}
=============================================================================
