----------------------------- MODULE BoundedLog -----------------------------
(***************************************************************************)
(* What the client's output buffer promises (contracts 2, 11 and 12 at the *)
(* head of src/src/domain/output.rs): an append-only stream of bytes of    *)
(* which the last Size can still be read, addressed by absolute cursors    *)
(* that never wrap.  How the bytes are stored is the business of           *)
(* OutputRing, which is shown to implement this module.                    *)
(*                                                                         *)
(* A cursor counts bytes: cursor c stands before the (c + 1)st byte.       *)
(***************************************************************************)
EXTENDS OutputBuffer

VARIABLES
  held,       \* the bytes that can still be read, oldest first
  total       \* bytes ever written

Chunks == UNION {[1 .. n -> Byte] : n \in 1 .. MaxWrite}

(* Mutant: the log keeps one byte too many.                                *)
LastSizeAndOne(s) == IF Len(s) > Size + 1 THEN SubSeq(s, Len(s) - Size, Len(s))
                     ELSE s

(* The last Size elements of s.                                            *)
LastSize(s) == IF Len(s) > Size THEN SubSeq(s, Len(s) - Size + 1, Len(s))
               ELSE s

(* The cursor of the oldest byte still held.                               *)
Earliest == IF total > Size THEN total - Size ELSE 0

(* Where a read from cursor c really starts.                               *)
StartOf(c) == IF c >= total THEN total
              ELSE IF c > Earliest THEN c ELSE Earliest

(* All held bytes from cursor c on.                                        *)
LogSince(c) == SubSeq(held, StartOf(c) - Earliest + 1, total - Earliest)

(* At most max bytes from cursor c on, and the cursor of the next page.    *)
PageEnd(c, max) == IF total - StartOf(c) > max THEN StartOf(c) + max
                   ELSE total
LogPage(c, max) ==
  SubSeq(held, StartOf(c) - Earliest + 1, PageEnd(c, max) - Earliest)

(* Cursor c points at bytes that are no longer held, or not written yet.   *)
Unreadable(c) == c < Earliest \/ c > total

LogInit == held = <<>> /\ total = 0

AppendChunk(data) ==
  /\ total + Len(data) <= MaxWritten
  /\ total' = total + Len(data)
  /\ held' = LastSize(held \o data)

LogNext == total' > total /\ \E data \in Chunks : AppendChunk(data)

LogSpec == LogInit /\ [][LogNext]_<<held, total>>
=============================================================================
