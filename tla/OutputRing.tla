----------------------------- MODULE OutputRing -----------------------------
(***************************************************************************)
(* The ring buffer of src/src/domain/output.rs: a physical array, the next *)
(* write position in it and a counter of all bytes ever written.  Each     *)
(* operation holds the buffer's mutex from beginning to end, so each is    *)
(* one step here.  The daemon's buffer (agentd/src/buffer.rs) is the same  *)
(* algorithm without page sizes.                                           *)
(***************************************************************************)
EXTENDS OutputBuffer

CONSTANT
  Zero        \* the byte the array is filled with at first

VARIABLES
  buf,        \* [0 .. Size - 1 -> Byte]
  head,       \* position in buf of the next byte to be written
  written     \* bytes ever written; never wraps

ringVars == <<buf, head, written>>

ASSUME RingAssumption == Zero \in Byte

Slots == 0 .. Size - 1

RingTypeOK ==
  /\ buf \in [Slots -> Byte]
  /\ head \in Slots
  /\ written \in Nat

RingInit ==
  /\ buf = [p \in Slots |-> Zero]
  /\ head = 0
  /\ written = 0

-----------------------------------------------------------------------------
(* The reads.                                                              *)

Oldest == IF written > Size THEN written - Size ELSE 0

ReadStart(cursor) == IF cursor > Oldest THEN cursor ELSE Oldest

(* The slot of the byte before which cursor start stands.                  *)
StartSlot(start) == IF written <= Size THEN start
                    ELSE (head + (start - Oldest)) % Size

(* n bytes from cursor start on, wrapping at the end of the array.         *)
Take(start, n) == [i \in 1 .. n |-> buf[(StartSlot(start) + i - 1) % Size]]

ReadSince(cursor) ==
  IF cursor >= written THEN <<>>
  ELSE Take(ReadStart(cursor), written - ReadStart(cursor))

(* Mutant: what is available is counted from the cursor asked for.         *)
PageLenOfCursor(cursor, max) ==
  LET available == written - cursor
  IN  IF max < available THEN max ELSE available

PageLen(cursor, max) ==
  LET available == written - ReadStart(cursor)
  IN  IF max < available THEN max ELSE available

ReadSinceMax(cursor, max) ==
  IF cursor >= written THEN [output |-> <<>>, new_cursor |-> written]
  ELSE [output     |-> Take(ReadStart(cursor), PageLen(cursor, max)),
        new_cursor |-> ReadStart(cursor) + PageLen(cursor, max)]

IsTruncated(cursor) ==
  IF written <= Size THEN cursor > written
  ELSE cursor < written - Size \/ cursor > written

-----------------------------------------------------------------------------
(* The write.                                                              *)

Log == INSTANCE BoundedLog WITH held <- ReadSince(0), total <- written

(* How many slots after head slot p comes.                                 *)
Ahead(p) == IF p >= head THEN p - head ELSE p - head + Size

WriteWholeAtHead(data) ==   \* mutant: head is not reset
  /\ Len(data) >= Size
  /\ buf' = [p \in Slots |-> data[Len(data) - Size + p + 1]]
  /\ head' = head

(* A chunk that fills the array keeps its last Size bytes and restarts at  *)
(* slot 0.                                                                 *)
WriteWhole(data) ==
  /\ Len(data) >= Size
  /\ buf' = [p \in Slots |-> data[Len(data) - Size + p + 1]]
  /\ head' = 0

WriteUnwrapped(data) ==   \* mutant: head runs off the end of the array
  /\ Len(data) < Size
  /\ buf' = [p \in Slots |->
               IF Ahead(p) < Len(data) THEN data[Ahead(p) + 1] ELSE buf[p]]
  /\ head' = head + Len(data)

(* A shorter one is copied behind head, in two parts when it wraps.        *)
WriteWrapping(data) ==
  /\ Len(data) < Size
  /\ buf' = [p \in Slots |->
               IF Ahead(p) < Len(data) THEN data[Ahead(p) + 1] ELSE buf[p]]
  /\ head' = (head + Len(data)) % Size

Write(data) ==
  /\ written + Len(data) <= MaxWritten
  /\ written' = written + Len(data)
  /\ WriteWhole(data) \/ WriteWrapping(data)

RingNext == \E data \in Log!Chunks : Write(data)

RingSpec == RingInit /\ [][RingNext]_ringVars

-----------------------------------------------------------------------------
(* While nothing has been overwritten, byte c of the stream sits in slot   *)
(* c, which read_since relies on: it then starts at slot cursor and never  *)
(* looks at head.                                                          *)
UnwrappedLayout == written <= Size => head = written % Size

(* The ring is an implementation of the abstract log: whatever mix of      *)
(* short, exactly filling and oversized writes came before, and however    *)
(* often the array has wrapped, a full read returns the last Size bytes    *)
(* written, in order, and a write appends the very bytes it was given.      *)
WritesAppend ==
  [][written' > written =>
       \A data \in Log!Chunks : Write(data) => Log!AppendChunk(data)]_ringVars
ImplementsLog == Log!LogSpec /\ WritesAppend

(* A read from any cursor is the matching slice of a full read, and pages  *)
(* read with read_since_max neither skip nor repeat: a page holds the      *)
(* stream between its start and new_cursor, and starts at the cursor asked *)
(* for unless is_truncated says otherwise.                                 *)
PagesAreContiguous ==
  \A c \in 0 .. written + 1, max \in 0 .. Size + 1 :
    LET page == ReadSinceMax(c, max) IN
    /\ ReadSince(c) = Log!LogSince(c)
    /\ page.output = Log!LogPage(c, max)
    /\ page.new_cursor = Log!PageEnd(c, max)
    /\ ~IsTruncated(c) => page.new_cursor = c + Len(page.output)
    /\ IsTruncated(c) <=> Log!Unreadable(c)
=============================================================================
