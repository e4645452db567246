---------------------------- MODULE MCPtySession ----------------------------
(* Two senders: an input of more than a chunk and one of a chunk, which   *)
(* is what the queue holds; a terminal smaller than a chunk.               *)
EXTENDS PtySession

CONSTANTS s1, s2

MCLength == (s1 :> 3) @@ (s2 :> 2)
=============================================================================
