--------------------------- MODULE MCOutputEngine ---------------------------
(* A log of two bytes that overflows, a wait_for pattern of two bytes that *)
(* two writes can split, and a prompt that is not part of it.  Two callers *)
(* consume concurrently; one of them also uses the peeking modes.          *)
EXTENDS OutputEngine, TLC

CONSTANTS r1, r2

MCByte == {0, 1}
MCPattern == <<1, 1>>
MCAllModes == r1 :> Mode @@ r2 :> {"wait_for", "settle"}
=============================================================================
