----------------------------- MODULE MCErofsWriter -----------------------------
(***************************************************************************)
(* A small instance of the EROFS writer: blocks of 64 bytes, so that a     *)
(* directory of three or four names fills one, exactly or not; a name that *)
(* sorts before "." (as "-" does), one after it, and one over the limit.   *)
(***************************************************************************)
EXTENDS ErofsWriter

MCNameLen == [n \in 1 .. 6 |-> CASE n = 1 -> 1 [] n = 2 -> 1 [] n = 3 -> 2
                                 [] n = 4 -> 12 [] n = 5 -> 13 [] n = 6 -> 21]

MCPaths == {<<1>>, <<4>>, <<5>>, <<1, 4>>, <<1, 4, 5>>, <<6>>}
================================================================================
