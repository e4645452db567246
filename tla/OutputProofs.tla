---------------------------- MODULE OutputProofs ----------------------------
(***************************************************************************)
(* Proofs about the output buffer, for any capacity and any bytes.  First  *)
(* the ring: it implements the bounded log, and its pages are slices of    *)
(* it.  The arithmetic of the wrap-around is kept in one place: Wrap       *)
(* replaces % by a case distinction, and HeldIs says which slot holds the  *)
(* i-th readable byte.  Then the engine on that log, for any number of     *)
(* callers and any pattern: EngineInv is inductive, and the three safety   *)
(* properties of the engine follow from it.                                *)
(***************************************************************************)
EXTENDS OutputRing, OutputEngine, TLAPS, SequenceTheorems

RingInv == RingTypeOK /\ UnwrappedLayout

Wrap(x) == IF x < Size THEN x ELSE x - Size

HeldLen == IF written > Size THEN Size ELSE written

HeldSlot(i) == IF written <= Size THEN i - 1 ELSE Wrap(head + i - 1)

(* On the numbers the ring computes with, % Size is Wrap.                  *)
LEMMA WrapIsMod ==
  ASSUME NEW x \in 0 .. 2 * Size - 1
  PROVE  x % Size = Wrap(x) /\ Wrap(x) \in Slots
  BY RingAssumption, BufferAssumption, SMT DEF Wrap, Slots

(* A write's new head is a slot, also when the chunk wraps.                *)
LEMMA ChunkType ==
  ASSUME NEW data \in Log!Chunks
  PROVE  /\ data \in Seq(Byte)
         /\ Len(data) \in Nat \ {0}
         /\ \A i \in 1 .. Len(data) : data[i] \in Byte
  <1>1. PICK n \in 1 .. MaxWrite : data \in [1 .. n -> Byte]
    BY DEF Log!Chunks
  <1>2. data \in Seq(Byte) /\ Len(data) = n
    BY <1>1, RingAssumption, BufferAssumption, SMT
  <1> QED BY <1>1, <1>2, RingAssumption, BufferAssumption, SMT

(* The inductive invariant: array, head and counter keep their types, and  *)
(* before the first overflow the head is where the counter says.           *)
THEOREM RingInvariant == RingSpec => []RingInv
  <1>1. RingInit => RingInv
    <2> SUFFICES ASSUME RingInit PROVE RingInv OBVIOUS
    <2>1. RingTypeOK BY RingAssumption, BufferAssumption, SMT DEF RingInit, RingTypeOK, Slots
    <2>2. UnwrappedLayout
      BY RingAssumption, BufferAssumption, WrapIsMod, SMT DEF RingInit, UnwrappedLayout, Wrap
    <2> QED BY <2>1, <2>2 DEF RingInv
  <1>2. RingInv /\ [RingNext]_ringVars => RingInv'
    <2> SUFFICES ASSUME RingInv, [RingNext]_ringVars PROVE RingInv' OBVIOUS
    <2> USE DEF RingInv
    <2>1. CASE UNCHANGED ringVars
      BY <2>1 DEF ringVars, RingTypeOK, UnwrappedLayout
    <2>2. CASE RingNext
      <3>1. PICK data \in Log!Chunks : Write(data) BY <2>2 DEF RingNext
      <3>2. /\ Len(data) \in Nat \ {0}
            /\ \A i \in 1 .. Len(data) : data[i] \in Byte
        BY ChunkType
      <3>3. CASE WriteWhole(data)
        <4>1. buf' \in [Slots -> Byte]
          <5>1. \A p \in Slots : data[Len(data) - Size + p + 1] \in Byte
            BY <3>2, <3>3, RingAssumption, BufferAssumption, SMT DEF WriteWhole, Slots
          <5> QED BY <5>1, <3>3 DEF WriteWhole
        <4>2. head' \in Slots /\ written' \in Nat
          BY <3>1, <3>2, <3>3, RingAssumption, BufferAssumption, SMT
          DEF WriteWhole, Write, RingTypeOK, Slots
        <4>3. UnwrappedLayout'
          BY <3>1, <3>2, <3>3, RingAssumption, BufferAssumption, WrapIsMod, SMT
          DEF WriteWhole, Write, RingTypeOK, UnwrappedLayout, Wrap
        <4> QED BY <4>1, <4>2, <4>3 DEF RingTypeOK
      <3>4. CASE WriteWrapping(data)
        <4>1. buf' \in [Slots -> Byte]
          <5>1. \A p \in Slots : Ahead(p) < Len(data) =>
                   Ahead(p) + 1 \in 1 .. Len(data)
            BY <3>2, RingAssumption, BufferAssumption, SMT DEF Ahead, Slots, RingTypeOK
          <5>2. \A p \in Slots : Ahead(p) < Len(data) =>
                   data[Ahead(p) + 1] \in Byte
            BY <5>1, <3>2
          <5> QED BY <5>2, <3>4 DEF WriteWrapping, RingTypeOK
        <4>2. head + Len(data) \in 0 .. 2 * Size - 1
          <5>1. head \in 0 .. Size - 1 BY DEF RingTypeOK, Slots
          <5>2. Len(data) \in Nat BY <3>2
          <5>3. Len(data) < Size BY <3>4 DEF WriteWrapping
          <5> QED BY <5>1, <5>2, <5>3, RingAssumption, BufferAssumption, SMT
        <4>3. head' = Wrap(head + Len(data)) /\ head' \in Slots
          BY <4>2, <3>4, WrapIsMod DEF WriteWrapping
        <4>4. written' = written + Len(data) /\ written' \in Nat
          BY <3>1, <3>2, SMT DEF Write, RingTypeOK
        <4>5. UnwrappedLayout'
          <5> SUFFICES ASSUME written' <= Size PROVE head' = written' % Size
            BY DEF UnwrappedLayout
          <5>1. written \in 0 .. Size - 1 /\ written' \in 0 .. 2 * Size - 1
            BY <4>4, <3>2, RingAssumption, BufferAssumption, SMT DEF RingTypeOK
          <5>2. head = written
            BY <5>1, RingAssumption, BufferAssumption, WrapIsMod, SMT DEF UnwrappedLayout, Wrap
          <5> QED BY <4>3, <4>4, <5>1, <5>2, WrapIsMod
        <4> QED BY <4>1, <4>3, <4>4, <4>5 DEF RingTypeOK
      <3> QED BY <3>1, <3>3, <3>4 DEF Write
    <2> QED BY <2>1, <2>2
  <1> QED BY <1>1, <1>2, PTL DEF RingSpec

-----------------------------------------------------------------------------
(* A full read returns the byte in slot HeldSlot(i) as its i-th.           *)
LEMMA HeldIs ==
  RingInv => /\ ReadSince(0) = [i \in 1 .. HeldLen |-> buf[HeldSlot(i)]]
             /\ HeldLen \in 0 .. Size
             /\ \A i \in 1 .. HeldLen : HeldSlot(i) \in Slots
  <1> SUFFICES ASSUME RingInv
               PROVE  /\ ReadSince(0) = [i \in 1 .. HeldLen |-> buf[HeldSlot(i)]]
                      /\ HeldLen \in 0 .. Size
                      /\ \A i \in 1 .. HeldLen : HeldSlot(i) \in Slots
    OBVIOUS
  <1> USE RingAssumption, BufferAssumption DEF RingInv
  <1>1. HeldLen \in 0 .. Size /\ written \in Nat
    BY SMT DEF HeldLen, RingTypeOK
  <1>2. \A i \in 1 .. HeldLen : HeldSlot(i) \in Slots
    BY SMT DEF HeldSlot, HeldLen, Wrap, RingTypeOK, Slots
  <1>3. CASE written = 0
    BY <1>1, <1>2, <1>3, SMT DEF ReadSince, HeldLen
  <1>4. CASE written # 0
    <2>1. Oldest \in Nat /\ ReadStart(0) = Oldest /\ written - Oldest = HeldLen
      BY <1>1, SMT DEF Oldest, ReadStart, HeldLen
    <2>2. ReadSince(0) = Take(Oldest, HeldLen)
      BY <1>1, <1>4, <2>1, SMT DEF ReadSince
    <2>3. ASSUME NEW i \in 1 .. HeldLen
          PROVE  (StartSlot(Oldest) + i - 1) % Size = HeldSlot(i)
      <3>1. CASE written <= Size
        <4>1. StartSlot(Oldest) = 0 BY <3>1, <1>1, SMT DEF StartSlot, Oldest
        <4>2. i - 1 \in 0 .. Size - 1 BY <1>1, SMT
        <4> QED BY <4>1, <4>2, <3>1, WrapIsMod, SMT DEF HeldSlot, Wrap
      <3>2. CASE written > Size
        <4>1. head \in 0 .. Size - 1 BY DEF RingTypeOK, Slots
        <4>2. StartSlot(Oldest) = head
          BY <3>2, <4>1, <1>1, <2>1, WrapIsMod, SMT DEF StartSlot, Wrap
        <4>3. head + i - 1 \in 0 .. 2 * Size - 1 BY <4>1, <1>1, SMT
        <4>4. (head + i - 1) % Size = Wrap(head + i - 1)
          BY <4>3, WrapIsMod
        <4>5. HeldSlot(i) = Wrap(head + i - 1)
          BY <3>2, <1>1 DEF HeldSlot
        <4> QED BY <4>2, <4>4, <4>5, Zenon
      <3> QED BY <3>1, <3>2, <1>1, SMT
    <2> QED BY <2>2, <2>3, <1>1, <1>2 DEF Take
  <1> QED BY <1>1, <1>2, <1>3, <1>4

(* How many of n bytes the ring cannot hold.                               *)
Excess(n) == IF n > Size THEN n - Size ELSE 0

(* Byte i of what remains of h \o data once d bytes are dropped, l being   *)
(* the length of h.                                                        *)
KeptByte(h, l, data, d, i) == IF i + d <= l THEN h[i + d] ELSE data[i + d - l]

(* l bytes h are held, len more are written, d have to go.                 *)
Overflowing(h, l, data, len, d) ==
  /\ h \in Seq(Byte) /\ l \in Nat /\ l = Len(h)
  /\ data \in Seq(Byte) /\ len \in Nat /\ len = Len(data)
  /\ d \in Nat /\ d = Excess(l + len)

(* The last Size bytes of h \o data, byte by byte.                         *)
LEMMA LastSizeIs ==
  ASSUME NEW h, NEW l, NEW data, NEW len, NEW d, Overflowing(h, l, data, len, d)
  PROVE  LET kept == Log!LastSize(h \o data)
         IN  /\ kept = [i \in 1 .. (l + len) - d |-> kept[i]]
             /\ \A i \in 1 .. (l + len) - d :
                  kept[i] = KeptByte(h, l, data, d, i)
  <1> USE DEF Overflowing
  <1> DEFINE s == h \o data
  <1>1. s \in Seq(Byte) BY SMT
  <1>2. Len(s) = l + len BY SMT
  <1>3. ASSUME NEW j \in 1 .. l + len
        PROVE  s[j] = IF j <= l THEN h[j] ELSE data[j - l]
    BY SMT
  <1> HIDE DEF s
  <1>4. CASE l + len > Size
    <2>1. d = (l + len) - Size /\ Size \in Nat
      BY <1>4, RingAssumption, BufferAssumption DEF Excess
    <2>2. Log!LastSize(s) = SubSeq(s, (l + len) - Size + 1, l + len)
      <3>1. ASSUME NEW n, n = Len(s), n > Size
            PROVE  Log!LastSize(s) = SubSeq(s, n - Size + 1, n)
        BY <3>1, Zenon DEF Log!LastSize
      <3> QED BY <3>1, <1>2, <1>4, Zenon
    <2>3. SubSeq(s, (l + len) - Size + 1, l + len)
            = [i \in 1 .. Size |-> s[i + ((l + len) - Size)]]
      BY <1>1, <1>2, <1>4, <2>1, SMT
    <2>4. (l + len) - d = Size /\ (l + len) - Size = d
      BY <1>4, <2>1
    <2>5. ASSUME NEW i \in 1 .. Size
          PROVE  s[i + d] = KeptByte(h, l, data, d, i)
      <3>1. i + d \in 1 .. l + len BY <1>4, <2>1
      <3> QED BY <1>3, <3>1 DEF KeptByte
    <2>6. Log!LastSize(s) = [i \in 1 .. Size |-> s[i + d]]
      BY <2>2, <2>3, <2>4, Zenon
    <2> QED BY <2>4, <2>5, <2>6 DEF s
  <1>5. CASE ~ (l + len > Size)
    <2>1. Log!LastSize(s) = s BY <1>2, <1>5 DEF Log!LastSize
    <2>2. d = 0 /\ (l + len) - d = l + len
      BY <1>5 DEF Excess
    <2>3. ASSUME NEW i \in 1 .. l + len
          PROVE  s[i] = KeptByte(h, l, data, d, i)
      <3>1. i + d = i BY <2>2
      <3>2. KeptByte(h, l, data, d, i) = IF i <= l THEN h[i] ELSE data[i - l]
        BY <3>1 DEF KeptByte
      <3> QED BY <1>3, <3>2, Zenon
    <2>4. s = [i \in 1 .. l + len |-> s[i]] BY <1>1, <1>2
    <2> QED BY <2>1, <2>2, <2>3, <2>4 DEF s
  <1> QED BY <1>4, <1>5

(* A write appends its chunk to what a full read returns and drops the     *)
(* oldest bytes beyond Size.                                               *)
LEMMA WriteAppends ==
  ASSUME RingInv, RingInv', NEW data \in Log!Chunks, Write(data)
  PROVE  ReadSince(0)' = Log!LastSize(ReadSince(0) \o data)
  <1> USE RingAssumption, BufferAssumption
  <1>1. PICK len \in Nat \ {0} : len = Len(data) BY ChunkType
  <1>2. data \in Seq(Byte) BY ChunkType
  <1>3. written' = written + len BY <1>1 DEF Write
  <1>4. head \in 0 .. Size - 1 /\ written \in Nat
    BY DEF RingInv, RingTypeOK, Slots
  <1>0. PICK h : h = ReadSince(0) OBVIOUS
  <1>5. /\ h = [i \in 1 .. HeldLen |-> buf[HeldSlot(i)]]
        /\ HeldLen \in 0 .. Size
        /\ \A i \in 1 .. HeldLen : HeldSlot(i) \in Slots
    BY <1>0, HeldIs
  <1>6. ReadSince(0)' = [i \in 1 .. HeldLen' |-> buf'[HeldSlot(i)']]
    <2>1. (RingInv => ReadSince(0) = [i \in 1 .. HeldLen |-> buf[HeldSlot(i)]])'
      BY HeldIs, PTL
    <2> QED BY <2>1
  <1>7. PICK l \in Nat : l = HeldLen BY <1>5
  <1>8. l = IF written > Size THEN Size ELSE written BY <1>7 DEF HeldLen
  <1>9. h \in Seq(Byte) /\ Len(h) = l
    BY <1>5, <1>7, SMT DEF RingInv, RingTypeOK
  <1>10. PICK d \in Nat : d = Excess(l + len)
    <2>1. Excess(l + len) \in Nat BY DEF Excess
    <2> QED BY <2>1
  <1>11. d = IF l + len > Size THEN (l + len) - Size ELSE 0
    BY <1>10 DEF Excess
  <1>12. HeldLen' = (l + len) - d
    BY <1>3, <1>4, <1>8, <1>11 DEF HeldLen
  <1>13. written <= Size => head = Wrap(written)
    <2> SUFFICES ASSUME written <= Size PROVE head = Wrap(written) OBVIOUS
    <2>1. written \in 0 .. 2 * Size - 1 BY <1>4
    <2> QED BY <2>1, WrapIsMod DEF RingInv, UnwrappedLayout
  <1>14. ASSUME NEW i \in 1 .. (l + len) - d
         PROVE  buf'[HeldSlot(i)'] = KeptByte(h, l, data, d, i)
    <2>1. CASE WriteWhole(data)
      <3>1. len >= Size /\ head' = 0 BY <1>1, <2>1 DEF WriteWhole
      <3>2. HeldSlot(i)' = i - 1 /\ i - 1 \in Slots
        <4>1. i \in 1 .. Size BY <1>11
        <4> QED BY <3>1, <4>1 DEF HeldSlot, Wrap, Slots
      <3>3. ~ (i + d <= l) /\ i + d - l = len - Size + (i - 1) + 1
        BY <1>4, <1>8, <1>11, <3>1
      <3>4. buf'[i - 1] = data[len - Size + (i - 1) + 1]
        BY <1>1, <3>2, <2>1, Zenon DEF WriteWhole
      <3> QED BY <3>2, <3>3, <3>4 DEF KeptByte
    <2>2. CASE WriteWrapping(data)
      <3> DEFINE p == HeldSlot(i)'
      <3>1. len \in 1 .. Size - 1 BY <1>1, <2>2 DEF WriteWrapping
      <3>2. head' = Wrap(head + len)
        <4>1. head + len \in 0 .. 2 * Size - 1 BY <1>4, <3>1
        <4>2. head' = (head + len) % Size BY <1>1, <2>2 DEF WriteWrapping
        <4> QED BY <4>1, <4>2, WrapIsMod
      <3>3. p = IF written + len <= Size THEN i - 1
                ELSE Wrap(Wrap(head + len) + i - 1)
        BY <1>3, <3>2, Zenon DEF HeldSlot
      <3>4. PICK a : a = Ahead(p) OBVIOUS
      <3>4a. a = IF p >= head THEN p - head ELSE p - head + Size
        BY <3>4 DEF Ahead
      <3> HIDE DEF p
      <3>5. /\ p \in Slots
            /\ i + d <= l =>
                 /\ ~ (a < len)
                 /\ p = IF written <= Size THEN i + d - 1
                        ELSE Wrap(head + (i + d) - 1)
            /\ ~ (i + d <= l) => a < len /\ a + 1 = i + d - l
        BY <1>4, <1>8, <1>11, <1>13, <3>1, <3>3, <3>4a DEF Wrap, Slots
      <3>6. buf'[p] = IF a < len THEN data[a + 1] ELSE buf[p]
        BY <1>1, <3>4, <3>5, <2>2, Zenon DEF WriteWrapping
      <3>7. CASE i + d <= l
        <4>1. i + d \in 1 .. HeldLen BY <3>7, <1>7
        <4>2. HeldSlot(i + d) = p BY <3>5, <3>7 DEF HeldSlot
        <4>3. h[i + d] = buf[p] BY <4>1, <4>2, <1>5
        <4> QED BY <4>3, <3>5, <3>6, <3>7 DEF KeptByte, p
      <3>8. CASE ~ (i + d <= l)
        BY <3>5, <3>6, <3>8 DEF KeptByte, p
      <3> QED BY <3>7, <3>8
    <2> QED BY <2>1, <2>2 DEF Write
  <1> DEFINE kept == Log!LastSize(h \o data)
  <1>15. /\ kept = [i \in 1 .. (l + len) - d |-> kept[i]]
         /\ \A i \in 1 .. (l + len) - d : kept[i] = KeptByte(h, l, data, d, i)
    <2>1. l = Len(h) /\ h \in Seq(Byte) /\ len \in Nat BY <1>9
    <2>2. Overflowing(h, l, data, len, d)
      BY <1>1, <1>2, <1>10, <2>1, Zenon DEF Overflowing
    <2> QED BY <2>2, LastSizeIs
  <1> HIDE DEF kept
  <1> QED BY <1>0, <1>6, <1>12, <1>14, <1>15 DEF kept

(* The ring implements the bounded log (write in output.rs, whose wrapping *)
(* copy and oversized-chunk case are where an off-by-one would hide).      *)
THEOREM RingImplementsLog == RingSpec => ImplementsLog
  <1>1. RingInit => Log!LogInit
    <2> SUFFICES ASSUME RingInit PROVE ReadSince(0) = <<>> /\ written = 0
      BY DEF Log!LogInit
    <2> QED BY DEF RingInit, ReadSince
  <1>2. ASSUME RingInv, RingInv', NEW data \in Log!Chunks, Write(data)
        PROVE  Log!AppendChunk(data)
    <2>1. ReadSince(0)' = Log!LastSize(ReadSince(0) \o data)
      BY <1>2, WriteAppends
    <2> QED BY <1>2, <2>1, Zenon DEF Write, Log!AppendChunk
  <1>3. RingInv /\ RingInv' /\ [RingNext]_ringVars
          => [Log!LogNext]_<<ReadSince(0), written>>
    <2> SUFFICES ASSUME RingInv, RingInv', [RingNext]_ringVars
                 PROVE  [Log!LogNext]_<<ReadSince(0), written>>
      OBVIOUS
    <2>1. CASE UNCHANGED ringVars
      BY <2>1 DEF ringVars, ReadSince, ReadStart, Oldest, Take, StartSlot
    <2>2. CASE RingNext
      <3>1. PICK data \in Log!Chunks : Write(data) BY <2>2 DEF RingNext
      <3>2. Log!AppendChunk(data) BY <1>2, <3>1
      <3>3. PICK len \in Nat \ {0} : len = Len(data) BY ChunkType
      <3>4. written' = written + len BY <3>1, <3>3 DEF Write
      <3>5. written' > written BY <3>4, SMT DEF RingInv, RingTypeOK
      <3> QED BY <3>2, <3>5, Zenon DEF Log!LogNext
    <2> QED BY <2>1, <2>2
  <1>4. RingInv /\ RingInv' /\ [RingNext]_ringVars
          => [written' > written =>
                \A data \in Log!Chunks : Write(data) => Log!AppendChunk(data)]_ringVars
    BY <1>2
  <1> QED BY <1>1, <1>3, <1>4, RingInvariant, PTL
          DEF RingSpec, ImplementsLog, WritesAppend, Log!LogSpec
-----------------------------------------------------------------------------
(* Reading n bytes from cursor start on is slicing a full read.            *)
LEMMA TakeIsSlice ==
  ASSUME RingInv, NEW start \in Oldest .. written, NEW n \in Nat,
         start + n <= written
  PROVE  /\ Take(start, n) = SubSeq(ReadSince(0), start - Oldest + 1,
                                    start - Oldest + n)
         /\ Len(Take(start, n)) = n
  <1> USE RingAssumption, BufferAssumption
  <1>1. head \in 0 .. Size - 1 /\ written \in Nat
    BY DEF RingInv, RingTypeOK, Slots
  <1>2. Oldest = (IF written > Size THEN written - Size ELSE 0)
    BY DEF Oldest
  <1>3. PICK h : h = ReadSince(0) OBVIOUS
  <1>4. PICK l \in 0 .. Size : l = HeldLen BY HeldIs
  <1>5. /\ h = [i \in 1 .. l |-> buf[HeldSlot(i)]]
        /\ \A i \in 1 .. l : HeldSlot(i) \in Slots
    BY <1>3, <1>4, HeldIs
  <1>6. h \in Seq(Byte) /\ Len(h) = l
    BY <1>4, <1>5, SMT DEF RingInv, RingTypeOK
  <1>7. l = written - Oldest BY <1>1, <1>2, <1>4 DEF HeldLen
  <1>8. PICK k \in Nat : k = start - Oldest /\ k + n <= l
    BY <1>1, <1>2, <1>7
  <1>9. ASSUME NEW i \in 1 .. n
        PROVE  buf[(StartSlot(start) + i - 1) % Size] = h[k + i]
    <2>1. k + i \in 1 .. l BY <1>4, <1>8
    <2>2. CASE written <= Size
      <3>1. StartSlot(start) = start /\ Oldest = 0 /\ start = k
        BY <1>1, <1>2, <1>8, <2>2 DEF StartSlot
      <3>2. k + i - 1 \in 0 .. 2 * Size - 1 /\ k + i - 1 < Size
        BY <1>4, <2>1
      <3>3. (k + i - 1) % Size = k + i - 1
        BY <3>2, WrapIsMod DEF Wrap
      <3>4. HeldSlot(k + i) = k + i - 1 BY <2>2 DEF HeldSlot
      <3> QED BY <1>5, <2>1, <3>1, <3>3, <3>4
    <2>3. CASE written > Size
      <3>1. head + k \in 0 .. 2 * Size - 1 BY <1>1, <1>4, <1>8, <2>1
      <3>2. StartSlot(start) = (head + k) % Size
        BY <1>1, <1>8, <2>3 DEF StartSlot
      <3>3. StartSlot(start) = Wrap(head + k) BY <3>1, <3>2, WrapIsMod
      <3>4. /\ Wrap(head + k) + i - 1 \in 0 .. 2 * Size - 1
            /\ Wrap(Wrap(head + k) + i - 1) = Wrap(head + (k + i) - 1)
        BY <1>1, <1>4, <2>1, <3>1 DEF Wrap
      <3>5. (Wrap(head + k) + i - 1) % Size = Wrap(Wrap(head + k) + i - 1)
        BY <3>4, WrapIsMod
      <3>6. HeldSlot(k + i) = Wrap(head + (k + i) - 1)
        BY <1>1, <2>3 DEF HeldSlot
      <3> QED BY <1>5, <2>1, <3>3, <3>4, <3>5, <3>6
    <2> QED BY <1>1, <2>2, <2>3
  <1>10. /\ SubSeq(h, k + 1, k + n) = [i \in 1 .. n |-> h[k + i]]
         /\ \A i \in 1 .. n : h[k + i] \in Byte
    <2>1. \A i \in 1 .. n : h[k + i] \in Byte
      <3>1. \A j \in 1 .. l : h[j] \in Byte BY <1>6
      <3>2. \A i \in 1 .. n : k + i \in 1 .. l BY <1>4, <1>8
      <3> QED BY <3>1, <3>2
    <2>2. 1 .. ((k + n) - (k + 1)) + 1 = 1 .. n BY <1>8
    <2>3. SubSeq(h, k + 1, k + n) = [i \in 1 .. n |-> h[i + (k + 1) - 1]]
      BY <2>2, Z3
    <2>4. \A i \in 1 .. n : i + (k + 1) - 1 = k + i BY <1>8
    <2> QED BY <2>1, <2>3, <2>4
  <1>11. Take(start, n) = [i \in 1 .. n |-> h[k + i]]
    BY <1>9 DEF Take
  <1>12. start - Oldest + 1 = k + 1 /\ start - Oldest + n = k + n
    BY <1>8
  <1>13. Len(Take(start, n)) = n BY <1>10, <1>11, SMT
  <1> QED BY <1>3, <1>10, <1>11, <1>12, <1>13

(* Every read from every cursor returns the slice of the stream it names,  *)
(* for every capacity (read_since, read_since_max and is_truncated).       *)
THEOREM PagesContiguous == RingSpec => []PagesAreContiguous
  <1>1. RingInv => PagesAreContiguous
    <2> SUFFICES ASSUME RingInv, NEW c \in 0 .. written + 1,
                        NEW max \in 0 .. Size + 1
                 PROVE
                   LET page == ReadSinceMax(c, max) IN
                   /\ ReadSince(c) = Log!LogSince(c)
                   /\ page.output = Log!LogPage(c, max)
                   /\ page.new_cursor = Log!PageEnd(c, max)
                   /\ ~IsTruncated(c) => page.new_cursor = c + Len(page.output)
                   /\ IsTruncated(c) <=> Log!Unreadable(c)
      BY DEF PagesAreContiguous
    <2> USE RingAssumption, BufferAssumption
    <2>1. written \in Nat /\ c \in Nat /\ max \in Nat
      BY DEF RingInv, RingTypeOK
    <2>2. /\ Oldest = (IF written > Size THEN written - Size ELSE 0)
          /\ Log!Earliest = Oldest
          /\ Oldest \in Nat
      BY <2>1 DEF Oldest, Log!Earliest
    <2>3. IsTruncated(c) <=> Log!Unreadable(c)
      BY <2>1, <2>2 DEF IsTruncated, Log!Unreadable
    <2>4. CASE c >= written
      <3>1. Log!StartOf(c) = written BY <2>4 DEF Log!StartOf
      <3>2. Log!PageEnd(c, max) = written
        BY <2>1, <3>1 DEF Log!PageEnd
      <3>3. SubSeq(ReadSince(0), written - Oldest + 1, written - Oldest) = <<>>
        <4>1. Take(written, 0) = <<>> BY DEF Take
        <4>2. written \in Oldest .. written /\ written + 0 <= written
              /\ written - Oldest + 0 = written - Oldest
          BY <2>1, <2>2
        <4> QED BY <4>1, <4>2, TakeIsSlice
      <3>4. /\ Log!LogSince(c) = <<>>
            /\ Log!LogPage(c, max) = <<>>
        BY <2>2, <3>1, <3>2, <3>3 DEF Log!LogSince, Log!LogPage
      <3>5. ~IsTruncated(c) => written = c + 0
        BY <2>1, <2>2, <2>3, <2>4 DEF Log!Unreadable
      <3> QED BY <2>3, <2>4, <3>2, <3>4, <3>5 DEF ReadSince, ReadSinceMax
    <2>5. CASE c < written
      <3>1. PICK start \in Oldest .. written :
              start = ReadStart(c) /\ start = Log!StartOf(c)
        BY <2>1, <2>2, <2>5 DEF ReadStart, Log!StartOf
      <3>2. PICK n \in Nat : n = PageLen(c, max) /\ start + n <= written
                             /\ start + n = Log!PageEnd(c, max)
        BY <2>1, <2>2, <3>1 DEF PageLen, Log!PageEnd
      <3>3. /\ ReadSinceMax(c, max) = [output |-> Take(start, n),
                                       new_cursor |-> start + n]
            /\ ReadSince(c) = Take(start, written - start)
        BY <2>1, <2>5, <3>1, <3>2 DEF ReadSinceMax, ReadSince
      <3>4. /\ Take(start, n) =
                 SubSeq(ReadSince(0), start - Oldest + 1, start - Oldest + n)
            /\ Len(Take(start, n)) = n
        BY <3>2, TakeIsSlice
      <3>5. Take(start, written - start) =
              SubSeq(ReadSince(0), start - Oldest + 1, written - Oldest)
        <4>1. /\ written - start \in Nat
              /\ start + (written - start) <= written
              /\ start - Oldest + (written - start) = written - Oldest
          BY <2>1, <2>2
        <4> QED BY <4>1, TakeIsSlice
      <3>6. start - Oldest + n = (start + n) - Oldest BY <2>1, <2>2
      <3>7. /\ Log!LogPage(c, max) = Take(start, n)
            /\ Log!LogSince(c) = Take(start, written - start)
        BY <2>2, <3>1, <3>2, <3>4, <3>5, <3>6 DEF Log!LogPage, Log!LogSince
      <3>8. ~IsTruncated(c) => start = c
        BY <2>1, <2>2, <2>3, <2>5, <3>1 DEF Log!Unreadable, Log!StartOf
      <3>9. /\ ReadSinceMax(c, max).output = Take(start, n)
            /\ ReadSinceMax(c, max).new_cursor = start + n
        BY <3>3
      <3>10. ~IsTruncated(c) => start + n = c + Len(Take(start, n))
        BY <3>4, <3>8
      <3> QED BY <2>3, <3>2, <3>3, <3>7, <3>9, <3>10, Zenon
    <2> QED BY <2>1, <2>4, <2>5
  <1> QED BY <1>1, RingInvariant, PTL

-----------------------------------------------------------------------------
(* The log holds exactly the bytes from Earliest on.                       *)
LogInv == Len(held) = total - Earliest

(* The watch channel and the cursors lag behind the log, never ahead.      *)
CursorInv == published <= total /\ mark <= drained /\ drained <= total

Consuming(r) == rd[r].call \in {"wait_for", "settle"}

(* A call that consumes began at a cursor the log has reached.             *)
BeganBehind(r) ==
  /\ Consuming(r) => rd[r].mark <= total
  /\ rd[r].pc \in {"subscribe", "scan", "parked", "hit"}
       => rd[r].call = "wait_for"
  /\ rd[r].pc = "poll" => rd[r].call = "settle"
  /\ rd[r].pc \in {"store", "flag"} => Consuming(r)
  /\ rd[r].pc = "tail" => rd[r].call = "tail"

(* A parked waiter scanned all it was told of; its scan saw no more than   *)
(* was written.                                                            *)
ScannedSeen(r) ==
  /\ rd[r].pc \in {"scan", "parked"} => rd[r].seen <= published
  /\ rd[r].pc = "parked" => rd[r].seen <= rd[r].scanned /\ rd[r].scanned <= total

(* What a call is about to return begins where it began, unless the bytes  *)
(* there have been overwritten.                                            *)
FromMark(r) ==
  /\ rd[r].pc \in {"hit", "store", "flag"}
       => rd[r].from = rd[r].mark \/ rd[r].mark < Earliest
  /\ rd[r].pc = "done" /\ rd[r].call # "tail" /\ ~rd[r].flag
       => rd[r].from = rd[r].mark

(* What a call is about to consume, it returns or gives up.                *)
StoresDelivered(r) ==
  rd[r].pc = "store" => rd[r].cursor <= Consumed(r) /\ Consumed(r) <= total

ReaderInv(r) ==
  BeganBehind(r) /\ ScannedSeen(r) /\ FromMark(r) /\ StoresDelivered(r)

EngineInv ==
  TypeOK /\ LogInv /\ CursorInv /\ \A r \in Reader : ReaderInv(r)

-----------------------------------------------------------------------------
(* Where a read of cursor c starts (the clamping in read_since_inner).     *)
LEMMA StartBounds ==
  ASSUME total \in Nat, NEW c \in Nat
  PROVE  /\ Earliest \in Nat /\ Earliest <= total
         /\ StartOf(c) \in Nat /\ StartOf(c) <= total
         /\ c <= total => c <= StartOf(c)
         /\ c <= total => StartOf(c) = c \/ c < Earliest
         /\ ~Unreadable(c) => StartOf(c) = c
  BY BufferAssumption DEF StartOf, Earliest, Unreadable

(* A read returns bytes.                                                   *)
LEMMA LogSinceType ==
  ASSUME TypeOK, LogInv, NEW c \in Nat
  PROVE  LogSince(c) \in Seq(Byte)
  <1>1. /\ Earliest \in Nat /\ Earliest <= total
        /\ StartOf(c) \in Nat /\ total \in Nat
        /\ Earliest <= StartOf(c)
    BY BufferAssumption DEF TypeOK, StartOf, Earliest
  <1>2. PICK m \in Int, n \in Int : /\ m = StartOf(c) - Earliest + 1
                                    /\ n = total - Earliest
                                    /\ m >= 1 /\ n = Len(held)
    BY <1>1 DEF LogInv
  <1>3. \A i \in m .. n : held[i] \in Byte
    <2>1. \A i \in 1 .. Len(held) : held[i] \in Byte BY DEF TypeOK
    <2>2. m .. n \subseteq 1 .. Len(held) BY <1>2
    <2> QED BY <2>1, <2>2
  <1>4. SubSeq(held, m, n) \in Seq(Byte) BY <1>3, SubSeqProperties, Zenon
  <1> QED BY <1>2, <1>4 DEF LogSince
-----------------------------------------------------------------------------
(* A write keeps the log's size and moves its window forward.              *)
LEMMA AppendLog ==
  ASSUME TypeOK, LogInv, NEW data \in Chunks, AppendChunk(data)
  PROVE  /\ held' \in Seq(Byte) /\ Len(held') <= Size /\ LogInv'
         /\ total' \in Nat /\ total <= total' /\ Earliest <= Earliest'
  <1>1. PICK len \in Nat : len = Len(data) /\ data \in Seq(Byte)
    BY BufferAssumption DEF Chunks
  <1>2. total' = total + len /\ total \in Nat /\ total' \in Nat
    BY <1>1 DEF AppendChunk, TypeOK
  <1>3. PICK s \in Seq(Byte) : s = held \o data
    <2>1. held \in Seq(Byte) BY DEF TypeOK
    <2>2. held \o data \in Seq(Byte) BY <1>1, <2>1, ConcatProperties, Zenon
    <2> QED BY <2>2
  <1>4. PICK l \in Nat : l = Len(held) /\ l = total - Earliest /\ l <= Size
    BY DEF TypeOK, LogInv
  <1>5. PICK n \in Nat : n = Len(s) /\ n = l + len
    <2>1. Len(held \o data) = Len(held) + Len(data)
      BY <1>1, ConcatProperties, Zenon DEF TypeOK
    <2> QED BY <1>1, <1>3, <1>4, <2>1
  <1>6. CASE n > Size
    <2>1. held' = SubSeq(s, n - Size + 1, n)
      BY <1>3, <1>5, <1>6 DEF AppendChunk, LastSize
    <2>2. PICK m \in Int : m = n - Size + 1 /\ m >= 1 /\ m <= n
                          /\ n - m + 1 = Size
      BY <1>6, BufferAssumption
    <2>3. \A i \in m .. n : s[i] \in Byte
      <3>1. \A i \in 1 .. Len(s) : s[i] \in Byte BY <1>3
      <3>2. m .. n \subseteq 1 .. Len(s) BY <1>5, <2>2
      <3> QED BY <3>1, <3>2
    <2>4. SubSeq(s, m, n) \in Seq(Byte) /\ Len(SubSeq(s, m, n)) = n - m + 1
      BY <2>2, <2>3, SubSeqProperties
    <2>5. held' \in Seq(Byte) /\ Len(held') = Size
      BY <2>1, <2>2, <2>4
    <2> QED BY <1>2, <1>4, <1>5, <1>6, <2>5, BufferAssumption DEF LogInv, Earliest
  <1>7. CASE n <= Size
    <2>1. held' = s /\ Len(held') = n
      <3>1. ~(Len(s) > Size) BY <1>5, <1>7, BufferAssumption
      <3> QED BY <1>3, <1>5, <3>1 DEF AppendChunk, LastSize
    <2>2. PICK t \in Nat, e \in Nat, size \in Nat :
            /\ t = total /\ e = Earliest /\ size = Size /\ size > 0
            /\ l = t - e /\ e = IF t > size THEN t - size ELSE 0
      BY <1>2, <1>4, BufferAssumption DEF Earliest
    <2>3. (IF t + len > size THEN (t + len) - size ELSE 0) = e /\ n = (t + len) - e
      BY <1>5, <1>7, <2>2
    <2>4. Earliest' = e BY <1>2, <2>2, <2>3 DEF Earliest
    <2> QED BY <1>2, <1>3, <1>7, <2>1, <2>2, <2>3, <2>4 DEF LogInv
  <1> QED BY <1>5, <1>6, <1>7, BufferAssumption

(* Before any call.                                                        *)
LEMMA IdleType == Idle \in CallInProgress
  BY DEF Idle, CallInProgress, Mode

LEMMA InitInv == Init => EngineInv
  <1> SUFFICES ASSUME Init PROVE EngineInv OBVIOUS
  <1> USE BufferAssumption DEF Init
  <1>1. held = <<>> /\ total = 0 BY DEF LogInit
  <1>2. Earliest = 0 /\ LogInv
    <2>1. Earliest = 0 BY <1>1 DEF Earliest
    <2>2. Len(held) = 0 BY <1>1, SMT
    <2> QED BY <1>1, <2>1, <2>2 DEF LogInv
  <1>4. TypeOK /\ CursorInv BY <1>1, IdleType DEF TypeOK, CursorInv
  <1>5. ASSUME NEW r \in Reader PROVE ReaderInv(r)
    BY DEF Idle, ReaderInv, BeganBehind, ScannedSeen, FromMark,
           StoresDelivered, Consuming
  <1> QED BY <1>2, <1>4, <1>5 DEF EngineInv

(* The writer's two steps disturb no call in progress.                     *)
LEMMA AppendInv ==
  ASSUME EngineInv, NEW data \in Chunks, Append1(data) PROVE EngineInv'
  <1>1. /\ held' \in Seq(Byte) /\ Len(held') <= Size /\ LogInv'
        /\ total' \in Nat /\ total <= total' /\ Earliest <= Earliest'
    BY AppendLog DEF EngineInv, Append1
  <1>2. UNCHANGED <<published, mark, rd, drained>> /\ total \in Nat
    BY DEF Append1, EngineInv, TypeOK
  <1>3. TypeOK' /\ CursorInv'
    BY <1>1, <1>2 DEF EngineInv, TypeOK, CursorInv
  <1>4. ASSUME NEW r \in Reader PROVE ReaderInv(r)'
    <2>1. rd[r] \in CallInProgress /\ ReaderInv(r)
      BY DEF EngineInv, TypeOK
    <2>2. Earliest \in Int /\ Earliest' \in Int
      BY <1>1, <1>2, BufferAssumption DEF Earliest
    <2>3. BeganBehind(r)'
      BY <1>1, <1>2, <2>1 DEF ReaderInv, BeganBehind, Consuming, CallInProgress
    <2>4. ScannedSeen(r)'
      BY <1>1, <1>2, <2>1 DEF ReaderInv, ScannedSeen, CallInProgress
    <2>5. FromMark(r)'
      BY <1>1, <1>2, <2>1, <2>2 DEF ReaderInv, FromMark, CallInProgress
    <2>6. StoresDelivered(r)'
      BY <1>1, <1>2, <2>1
      DEF ReaderInv, StoresDelivered, Consumed, CallInProgress
    <2> QED BY <2>3, <2>4, <2>5, <2>6 DEF ReaderInv
  <1> QED BY <1>1, <1>3, <1>4 DEF EngineInv

LEMMA PublishInv == ASSUME EngineInv, Publish PROVE EngineInv'
  <1>1. ASSUME NEW r \in Reader PROVE ReaderInv(r)'
    <2>1. rd[r] \in CallInProgress /\ ReaderInv(r)
      BY DEF EngineInv, TypeOK
    <2> QED BY <2>1 DEF Publish, EngineInv, TypeOK, CursorInv, ReaderInv,
              BeganBehind, Consuming, ScannedSeen, FromMark, StoresDelivered,
              Consumed, CallInProgress, Earliest
  <1> QED BY <1>1 DEF Publish, EngineInv, TypeOK, LogInv, CursorInv, Earliest

(* A step of one call that only reads: the other calls are as before.      *)
LEMMA CallStep ==
  ASSUME EngineInv, NEW r \in Reader, NEW call \in CallInProgress,
         rd' = [rd EXCEPT ![r] = call], LogStays, UNCHANGED <<mark, drained>>,
         ReaderInv(r)'
  PROVE  EngineInv'
  <1>1. rd \in [Reader -> CallInProgress] BY DEF EngineInv, TypeOK
  <1>2. rd' \in [Reader -> CallInProgress] BY <1>1
  <1>3. ASSUME NEW q \in Reader, q # r PROVE ReaderInv(q)'
    <2>1. rd'[q] = rd[q] /\ ReaderInv(q) BY <1>1, <1>3 DEF EngineInv
    <2> QED BY <2>1 DEF LogStays, ReaderInv, BeganBehind, Consuming, ScannedSeen,
              FromMark, StoresDelivered, Consumed, Earliest
  <1>4. \A q \in Reader : ReaderInv(q)' BY <1>3
  <1> QED BY <1>2, <1>4 DEF LogStays, EngineInv, TypeOK, LogInv, CursorInv, Earliest
-----------------------------------------------------------------------------
(* The reading modes, one step of one call each.                           *)
LEMMA PeekInv ==
  ASSUME EngineInv, NEW r \in Reader,
         \/ \E c \in 0 .. total + 1, max \in {1, Size} : SinceRead(r, c, max)
         \/ TailRead(r) \/ TailCursor(r)
  PROVE  EngineInv'
  <1>1. rd \in [Reader -> CallInProgress] /\ total \in Nat /\ mark \in Nat
    BY DEF EngineInv, TypeOK
  <1>2. rd[r] \in CallInProgress BY <1>1
  <1>3. ASSUME NEW c \in 0 .. total + 1, NEW max \in {1, Size},
               SinceRead(r, c, max)
        PROVE  EngineInv'
    <2>1. c \in Nat /\ max \in Nat BY <1>1, BufferAssumption
    <2>2. /\ StartOf(c) \in Nat /\ StartOf(c) <= total
          /\ ~Unreadable(c) => StartOf(c) = c
      BY <1>1, <2>1, StartBounds
    <2>3. PageEnd(c, max) \in Nat BY <1>1, <2>1, <2>2 DEF PageEnd
    <2>4. Unreadable(c) \in BOOLEAN BY DEF Unreadable
    <2> DEFINE call == [Idle EXCEPT
                 !.pc = "done", !.call = "since", !.mark = c,
                 !.from = StartOf(c), !.upto = PageEnd(c, max),
                 !.cursor = PageEnd(c, max), !.flag = Unreadable(c)]
    <2>5. call \in CallInProgress
      BY <2>1, <2>2, <2>3, <2>4, IdleType DEF CallInProgress, Mode
    <2>6. rd' = [rd EXCEPT ![r] = call] /\ LogStays /\ UNCHANGED <<mark, drained>>
      BY <1>3 DEF SinceRead
    <2>7. rd'[r] = call BY <1>1, <2>6
    <2>8. /\ call.pc = "done" /\ call.call = "since"
          /\ call.from = StartOf(c) /\ call.mark = c
          /\ call.flag = Unreadable(c)
      BY DEF Idle
    <2> HIDE DEF call
    <2>9. ReaderInv(r)'
      BY <2>2, <2>7, <2>8 DEF ReaderInv, BeganBehind, Consuming,
         ScannedSeen, FromMark, StoresDelivered
    <2> QED BY <2>5, <2>6, <2>9, CallStep
  <1>4. ASSUME TailRead(r) PROVE EngineInv'
    <2> DEFINE call == [Idle EXCEPT
                 !.pc = "tail", !.call = "tail", !.scanned = total]
    <2>1. call \in CallInProgress BY <1>1, IdleType DEF CallInProgress, Mode
    <2>2. rd' = [rd EXCEPT ![r] = call] /\ LogStays /\ UNCHANGED <<mark, drained>>
      BY <1>4 DEF TailRead
    <2>3. rd'[r] = call BY <1>1, <2>2
    <2>4. ReaderInv(r)'
      BY <2>3 DEF Idle, ReaderInv, BeganBehind, Consuming,
         ScannedSeen, FromMark, StoresDelivered
    <2> HIDE DEF call
    <2> QED BY <2>1, <2>2, <2>4, CallStep
  <1>5. ASSUME TailCursor(r) PROVE EngineInv'
    <2> DEFINE call == [rd[r] EXCEPT !.pc = "done", !.cursor = mark]
    <2>1. call \in CallInProgress BY <1>1, <1>2 DEF CallInProgress
    <2>2. rd' = [rd EXCEPT ![r] = call] /\ LogStays /\ UNCHANGED <<mark, drained>>
      BY <1>1, <1>5 DEF TailCursor
    <2>3. rd'[r] = call BY <1>1, <2>2
    <2>4. ReaderInv(r)'
      <3>1. rd[r].pc = "tail" /\ ReaderInv(r)
        BY <1>5 DEF TailCursor, At, EngineInv
      <3>2. call.pc = "done" /\ call.call = "tail"
        BY <1>2, <3>1 DEF CallInProgress, ReaderInv, BeganBehind
      <3> HIDE DEF call
      <3> QED BY <2>3, <3>2 DEF ReaderInv, BeganBehind, Consuming,
                ScannedSeen, FromMark, StoresDelivered
    <2> HIDE DEF call
    <2> QED BY <2>1, <2>2, <2>4, CallStep
  <1> QED BY <1>3, <1>4, <1>5
-----------------------------------------------------------------------------
(* wait_for: each step keeps the call behind what was announced.           *)
LEMMA WaitInv ==
  ASSUME EngineInv, NEW r \in Reader,
         \/ WaitStart(r) \/ Subscribe(r) \/ Scan(r) \/ Wake(r) \/ Hit(r)
         \/ WaitTimeout(r)
  PROVE  EngineInv'
  <1>1. /\ rd \in [Reader -> CallInProgress] /\ total \in Nat /\ mark \in Nat
        /\ published \in Nat /\ mark <= total /\ published <= total
    BY DEF EngineInv, TypeOK, CursorInv
  <1>2. rd[r] \in CallInProgress /\ ReaderInv(r) BY <1>1 DEF EngineInv
  <1>3. /\ StartOf(rd[r].mark) \in Nat
        /\ rd[r].mark <= total => StartOf(rd[r].mark) = rd[r].mark
                                  \/ rd[r].mark < Earliest
    BY <1>1, <1>2, StartBounds DEF CallInProgress
  <1>4. ASSUME WaitStart(r) PROVE EngineInv'
    <2>1. rd'[r] \in CallInProgress /\ rd' = [rd EXCEPT ![r] = rd'[r]]
      BY <1>1, <1>2, <1>3, <1>4, IdleType
      DEF WaitStart, At, LogStays, Idle, Mode, CallInProgress
    <2>2. ReaderInv(r)'
      BY <1>1, <1>2, <1>3, <1>4
     
      DEF WaitStart, At, LogStays, Idle, Mode, ReaderInv, BeganBehind, Consuming, ScannedSeen,
          FromMark, StoresDelivered, CallInProgress, Earliest
    <2> QED BY <1>4, <2>1, <2>2, CallStep DEF WaitStart, At, LogStays, Idle, Mode
  <1>5. ASSUME Subscribe(r) PROVE EngineInv'
    <2>1. rd'[r] \in CallInProgress /\ rd' = [rd EXCEPT ![r] = rd'[r]]
      BY <1>1, <1>2, <1>3, <1>5 DEF Subscribe, At, LogStays, CallInProgress
    <2>2. ReaderInv(r)'
      BY <1>1, <1>2, <1>3, <1>5
      DEF Subscribe, At, LogStays, ReaderInv, BeganBehind, Consuming, ScannedSeen,
          FromMark, StoresDelivered, CallInProgress, Earliest
    <2> QED BY <1>5, <2>1, <2>2, CallStep DEF Subscribe, At
  <1>6. ASSUME Scan(r) PROVE EngineInv'
    <2>1. rd'[r] \in CallInProgress /\ rd' = [rd EXCEPT ![r] = rd'[r]]
      BY <1>1, <1>2, <1>3, <1>6 DEF Scan, At, LogStays, CallInProgress
    <2>2. ReaderInv(r)'
      BY <1>1, <1>2, <1>3, <1>6
      DEF Scan, At, LogStays, ReaderInv, BeganBehind, Consuming, ScannedSeen,
          FromMark, StoresDelivered, CallInProgress, Earliest
    <2> QED BY <1>6, <2>1, <2>2, CallStep DEF Scan, At, LogStays
  <1>7. ASSUME Wake(r) PROVE EngineInv'
    <2>1. rd'[r] \in CallInProgress /\ rd' = [rd EXCEPT ![r] = rd'[r]]
      BY <1>1, <1>2, <1>3, <1>7 DEF Wake, At, LogStays, CallInProgress
    <2>2. ReaderInv(r)'
      BY <1>1, <1>2, <1>3, <1>7
      DEF Wake, At, LogStays, ReaderInv, BeganBehind, Consuming, ScannedSeen,
          FromMark, StoresDelivered, CallInProgress, Earliest
    <2> QED BY <1>7, <2>1, <2>2, CallStep DEF Wake, At, LogStays
  <1>8. ASSUME Hit(r) PROVE EngineInv'
    <2>1. rd'[r] \in CallInProgress /\ rd' = [rd EXCEPT ![r] = rd'[r]]
      BY <1>1, <1>2, <1>3, <1>8 DEF Hit, At, LogStays, CallInProgress
    <2>2. ReaderInv(r)'
      BY <1>1, <1>2, <1>3, <1>8
      DEF Hit, At, LogStays, ReaderInv, BeganBehind, Consuming, ScannedSeen,
          FromMark, StoresDelivered, CallInProgress, Earliest, Consumed
    <2> QED BY <1>8, <2>1, <2>2, CallStep DEF Hit, At, LogStays
  <1>9. ASSUME WaitTimeout(r) PROVE EngineInv'
    <2>1. rd'[r] \in CallInProgress /\ rd' = [rd EXCEPT ![r] = rd'[r]]
      BY <1>1, <1>2, <1>3, <1>9 DEF WaitTimeout, At, LogStays, CallInProgress
    <2>2. ReaderInv(r)'
      BY <1>1, <1>2, <1>3, <1>9
      DEF WaitTimeout, At, LogStays, ReaderInv, BeganBehind, Consuming, ScannedSeen,
          FromMark, StoresDelivered, CallInProgress, Earliest
    <2> QED BY <1>9, <2>1, <2>2, CallStep DEF WaitTimeout, At, LogStays
  <1> QED BY <1>4, <1>5, <1>6, <1>7, <1>8, <1>9
-----------------------------------------------------------------------------
(* settle: what it is about to consume is what it is about to return.      *)
LEMMA SettleInv ==
  ASSUME EngineInv, NEW r \in Reader,
         SettleStart(r) \/ SettlePoll(r) \/ SettleTimeout(r)
  PROVE  EngineInv'
  <1>1. /\ rd \in [Reader -> CallInProgress] /\ total \in Nat /\ mark \in Nat
        /\ published \in Nat /\ mark <= total /\ published <= total
    BY DEF EngineInv, TypeOK, CursorInv
  <1>2. rd[r] \in CallInProgress /\ ReaderInv(r) BY <1>1 DEF EngineInv
  <1>3. /\ StartOf(rd[r].mark) \in Nat /\ StartOf(rd[r].mark) <= total
        /\ rd[r].mark <= total => rd[r].mark <= StartOf(rd[r].mark)
        /\ rd[r].mark <= total => StartOf(rd[r].mark) = rd[r].mark
                                  \/ rd[r].mark < Earliest
    BY <1>1, <1>2, StartBounds DEF CallInProgress
  <1>4. /\ LogSince(mark) \in Seq(Byte) /\ LogSince(rd[r].mark) \in Seq(Byte)
        /\ <<>> \in Seq(Byte)
    BY <1>1, <1>2, LogSinceType DEF EngineInv, CallInProgress
  <1>5. rd[r].mark + (total - StartOf(rd[r].mark)) \in Nat
    BY <1>1, <1>2, <1>3 DEF CallInProgress
  <1>6. ASSUME SettleNow(r)
        PROVE  rd'[r] \in CallInProgress /\ rd' = [rd EXCEPT ![r] = rd'[r]]
    <2>1. PICK start \in Nat, end \in Nat :
            /\ start = StartOf(rd[r].mark)
            /\ end = rd[r].mark + (total - StartOf(rd[r].mark))
      BY <1>3, <1>5
    <2>2. rd' = [rd EXCEPT ![r] = [rd[r] EXCEPT
              !.pc = "store", !.last = <<>>, !.from = start, !.upto = total,
              !.cursor = end]]
      BY <1>1, <1>2, <1>6, <2>1 DEF SettleNow
    <2>3. [rd[r] EXCEPT
              !.pc = "store", !.last = <<>>, !.from = start, !.upto = total,
              !.cursor = end] \in CallInProgress
      BY <1>1, <1>2, <1>4 DEF CallInProgress
    <2> QED BY <1>1, <2>2, <2>3
  <1>7. ASSUME SettleStart(r) PROVE EngineInv'
    <2>1. rd'[r] \in CallInProgress /\ rd' = [rd EXCEPT ![r] = rd'[r]]
      BY <1>1, <1>2, <1>3, <1>7, <1>4, IdleType
      DEF SettleStart, At, LogStays, Idle, Mode, CallInProgress
    <2>2. ReaderInv(r)'
      BY <1>1, <1>2, <1>3, <1>7
     
      DEF SettleStart, At, LogStays, Idle, Mode, ReaderInv, BeganBehind, Consuming, ScannedSeen,
          FromMark, StoresDelivered, CallInProgress, Earliest
    <2> QED BY <1>7, <2>1, <2>2, CallStep DEF SettleStart, At, LogStays, Idle, Mode
  <1>8. ASSUME SettlePoll(r) PROVE EngineInv'
    <2>1. rd'[r] \in CallInProgress /\ rd' = [rd EXCEPT ![r] = rd'[r]]
      <3>1. CASE SettleNow(r) BY <1>6, <3>1
      <3>2. CASE rd' = [rd EXCEPT ![r].last = LogSince(rd[r].mark)]
        <4>1. PICK current \in Seq(Byte) : current = LogSince(rd[r].mark)
          BY <1>4
        <4>2. /\ rd' = [rd EXCEPT ![r] = [rd[r] EXCEPT !.last = current]]
              /\ [rd[r] EXCEPT !.last = current] \in CallInProgress
          BY <1>1, <1>2, <3>2, <4>1 DEF CallInProgress
        <4> QED BY <1>1, <4>2
      <3> QED BY <1>8, <3>1, <3>2 DEF SettlePoll
    <2>2. ReaderInv(r)'
      BY <1>1, <1>2, <1>3, <1>8
     
      DEF SettlePoll, SettleNow, At, LogStays, ReaderInv, BeganBehind, Consuming, ScannedSeen,
          FromMark, StoresDelivered, CallInProgress, Earliest
          , Consumed
    <2> QED BY <1>8, <2>1, <2>2, CallStep DEF SettlePoll, SettleNow, At, LogStays
  <1>9. ASSUME SettleTimeout(r) PROVE EngineInv'
    <2>1. rd'[r] \in CallInProgress /\ rd' = [rd EXCEPT ![r] = rd'[r]]
      BY <1>9, <1>6 DEF SettleTimeout
    <2>2. ReaderInv(r)'
      BY <1>1, <1>2, <1>3, <1>9
     
      DEF SettleTimeout, SettleNow, At, LogStays, ReaderInv, BeganBehind, Consuming, ScannedSeen,
          FromMark, StoresDelivered, CallInProgress, Earliest
          , Consumed
    <2> QED BY <1>9, <2>1, <2>2, CallStep DEF SettleTimeout, SettleNow, At, LogStays
  <1> QED BY <1>7, <1>8, <1>9
-----------------------------------------------------------------------------
(* Both consuming modes end alike.                                         *)
LEMMA FinishInv ==
  ASSUME EngineInv, NEW r \in Reader,
         StoreMark(r) \/ Flag(r) \/ Return(r)
  PROVE  EngineInv'
  <1>1. /\ rd \in [Reader -> CallInProgress] /\ total \in Nat /\ mark \in Nat
        /\ published \in Nat /\ mark <= total /\ published <= total
    BY DEF EngineInv, TypeOK, CursorInv
  <1>2. rd[r] \in CallInProgress /\ ReaderInv(r) BY <1>1 DEF EngineInv
  <1>3. /\ StartOf(rd[r].mark) \in Nat /\ StartOf(rd[r].mark) <= total
        /\ rd[r].mark <= total => rd[r].mark <= StartOf(rd[r].mark)
        /\ rd[r].mark <= total => StartOf(rd[r].mark) = rd[r].mark
                                  \/ rd[r].mark < Earliest
    BY <1>1, <1>2, StartBounds DEF CallInProgress
  <1>4. ASSUME Flag(r) PROVE EngineInv'
    <2>1. rd'[r] \in CallInProgress /\ rd' = [rd EXCEPT ![r] = rd'[r]]
      BY <1>1, <1>2, <1>4, Unreadable(rd[r].mark) \in BOOLEAN
      DEF Flag, At, LogStays, CallInProgress, Unreadable
    <2>2. ReaderInv(r)'
      BY <1>1, <1>2, <1>3, <1>4, StartBounds
      DEF Flag, At, LogStays, ReaderInv, BeganBehind, Consuming, ScannedSeen,
          FromMark, StoresDelivered, CallInProgress, Earliest, Unreadable
    <2> QED BY <1>4, <2>1, <2>2, CallStep DEF Flag, At, LogStays
  <1>5. ASSUME Return(r) PROVE EngineInv'
    <2>1. rd'[r] \in CallInProgress /\ rd' = [rd EXCEPT ![r] = rd'[r]]
      BY <1>1, <1>2, <1>3, <1>5, IdleType
      DEF Return, At, LogStays, Idle, CallInProgress
    <2>2. ReaderInv(r)'
      BY <1>1, <1>2, <1>3, <1>5
     
      DEF Return, At, LogStays, Idle, ReaderInv, BeganBehind, Consuming, ScannedSeen,
          FromMark, StoresDelivered, CallInProgress, Earliest
    <2> QED BY <1>5, <2>1, <2>2, CallStep DEF Return, At, LogStays, Idle
  <1>6. ASSUME StoreMark(r) PROVE EngineInv'
    <2>1. /\ rd' \in [Reader -> CallInProgress] /\ mark' = rd[r].cursor
          /\ rd'[r] = [rd[r] EXCEPT !.pc = "flag"]
          /\ \A q \in Reader : q # r => rd'[q] = rd[q]
      BY <1>1, <1>2, <1>6 DEF StoreMark, CallInProgress
    <2>2. /\ Consumed(r) \in Nat /\ rd[r].cursor \in Nat
          /\ rd[r].cursor <= Consumed(r) /\ Consumed(r) <= total
      BY <1>2, <1>6 DEF StoreMark, At, ReaderInv, StoresDelivered, Consumed,
                        CallInProgress
    <2>3. TypeOK' /\ CursorInv' /\ LogInv'
      BY <1>6, <2>1, <2>2 DEF StoreMark, LogStays, EngineInv, TypeOK, CursorInv,
                              LogInv, Earliest
    <2>4. ReaderInv(r)'
      BY <1>2, <1>6, <2>1 DEF StoreMark, At, LogStays, ReaderInv, BeganBehind,
         Consuming, ScannedSeen, FromMark, StoresDelivered, CallInProgress,
         Earliest
    <2>5. ASSUME NEW q \in Reader, q # r PROVE ReaderInv(q)'
      <3>1. rd'[q] = rd[q] /\ ReaderInv(q) BY <2>1, <2>5 DEF EngineInv
      <3> QED BY <1>6, <3>1 DEF StoreMark, LogStays, ReaderInv, BeganBehind,
         Consuming, ScannedSeen, FromMark, StoresDelivered, Consumed, Earliest
    <2> QED BY <2>3, <2>4, <2>5 DEF EngineInv
  <1> QED BY <1>4, <1>5, <1>6
-----------------------------------------------------------------------------
(* EngineInv holds throughout, whatever the callers do.                    *)
THEOREM EngineInvariant == Spec => []EngineInv
  <1>1. EngineInv /\ [Next]_vars => EngineInv'
    <2> SUFFICES ASSUME EngineInv, [Next]_vars PROVE EngineInv' OBVIOUS
    <2>1. CASE Next
      BY <2>1, AppendInv, PublishInv, PeekInv, WaitInv, SettleInv, FinishInv
      DEF Next, ReaderStep
    <2>2. CASE UNCHANGED vars
      BY <2>2 DEF vars, EngineInv, TypeOK, LogInv, CursorInv, Earliest,
         ReaderInv, BeganBehind, Consuming, ScannedSeen, FromMark,
         StoresDelivered, Consumed
    <2> QED BY <2>1, <2>2
  <1> QED BY InitInv, <1>1, PTL DEF Spec

(* No result begins later than its caller asked without saying so, for any *)
(* number of concurrent callers and any capacity (read_output's modes).    *)
THEOREM ReadsAreFlagged == Spec => []TruncationFlagged
  <1>1. EngineInv => TruncationFlagged
    BY DEF EngineInv, TruncationFlagged, ReaderInv, FromMark, At
  <1> QED BY <1>1, EngineInvariant, PTL

(* No wait_for caller sleeps through a write, whatever the other callers   *)
(* do: the order subscribe, scan, wait of read_with_wait_for.              *)
THEOREM WaitersAreWoken == Spec => []NoLostWakeup
  <1>1. EngineInv => NoLostWakeup
    <2> SUFFICES ASSUME EngineInv, NEW r \in Reader, rd[r].pc = "parked",
                        rd[r].seen = published, published = total
                 PROVE  rd[r].scanned = total
      BY DEF NoLostWakeup, At
    <2> QED BY DEF EngineInv, TypeOK, CallInProgress, ReaderInv, ScannedSeen
  <1> QED BY <1>1, EngineInvariant, PTL

(* Concurrent draining callers never make the mark skip a byte that nobody *)
(* was given (read_with_settle and read_with_wait_for storing mark_cursor).*)
THEOREM MarkNeverSkips == Spec => []MarkCoversDelivered
  <1>1. EngineInv => MarkCoversDelivered
    BY DEF EngineInv, CursorInv, MarkCoversDelivered
  <1> QED BY <1>1, EngineInvariant, PTL

(* The three that the runs check together.                                 *)
THEOREM NothingIsLost == Spec => []NothingLost
  <1>1. EngineInv => TypeOK BY DEF EngineInv
  <1>2. TypeOK /\ TruncationFlagged /\ MarkCoversDelivered => NothingLost
    BY DEF NothingLost
  <1> QED BY <1>1, <1>2, EngineInvariant, ReadsAreFlagged, MarkNeverSkips, PTL
=============================================================================
