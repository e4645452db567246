--------------------------- MODULE MCOutputPages ---------------------------
(* Five bytes that hold every kind of sequence, finished and unfinished,   *)
(* well-formed or not, in a ring of two, written in chunks of 1 to 3 and   *)
(* read by two callers at a time.                                          *)
EXTENDS OutputPages, TLC

CONSTANTS r1, r2
Symmetry == Permutations(Reader)

MCByte == {"ESC", "[", "]", "P", "\\", "BEL", "p", "i", "m", "t"}
MCStreams ==
  {<<"ESC", "[", "p", "m", "t">>,       \* CSI
   <<"ESC", "[", "t", "m", "m">>,       \* not a CSI after all
   <<"ESC", "]", "t", "BEL", "m">>,     \* OSC
   <<"ESC", "]", "ESC", "\\", "m">>,
   <<"ESC", "P", "ESC", "\\", "m">>,    \* DCS
   <<"ESC", "ESC", "i", "p", "t">>,     \* others
   <<"t", "ESC", "i", "t", "m">>}
=============================================================================
