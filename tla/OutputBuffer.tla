---------------------------- MODULE OutputBuffer ----------------------------
(***************************************************************************)
(* What every view of a session's output buffer is told: the bytes that    *)
(* occur, the capacity, and the bounds on what is written.                 *)
(***************************************************************************)
EXTENDS Integers, Sequences

CONSTANTS
  Byte,       \* the bytes that occur in the terminal's output
  Size,       \* capacity of the buffer in bytes
  MaxWrite,   \* bound: bytes of the largest single write
  MaxWritten  \* bound: bytes ever written

ASSUME BufferAssumption ==
  /\ Size \in Nat \ {0}
  /\ MaxWrite \in Nat \ {0}
  /\ MaxWritten \in Nat
=============================================================================
