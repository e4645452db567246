---------------------------- MODULE OutputPages ----------------------------
(***************************************************************************)
(* read_output(since_cursor, strip_ansi) over the ring buffer: the output  *)
(* without the terminal's control sequences, in pages that cut them        *)
(* anywhere (domain/ansi_strip.rs).  The engine keeps one carry - where    *)
(* the last page ended and the sequence it ended in - for all its callers, *)
(* and takes the page and the carry under two different locks.             *)
(*                                                                         *)
(* A byte is one of its kinds:  ESC, the introducers [ ] P, the \ that     *)
(* ends a string, BEL, "p" a parameter, "i" an intermediate byte, "m" any  *)
(* other final byte, "t" any other byte (line ends, UTF-8).                *)
(***************************************************************************)
EXTENDS OutputRing

CONSTANTS
  Streams,    \* what the terminal may send
  Reader,     \* calls of read_output in progress
  MaxPending  \* bytes of an unfinished sequence that are kept

ASSUME PagesAssumption ==
  MaxPending \in Nat /\ \A s \in Streams : Len(s) >= MaxWritten

VARIABLES
  carry,      \* [armed, next_cursor, pending]
  page,       \* reader -> [busy, start, end, output]: taken, not yet stripped
  stream,     \* what the terminal sends
  from        \* ghost: the cursor from which pages are stripped as one

pageVars == <<buf, head, written, carry, page, stream, from>>

NoPage == [busy |-> FALSE, start |-> 0, end |-> 0, output |-> <<>>]
Intermediate == {"i"}
GenericFinal == {"p", "[", "]", "P", "\\", "m"}   \* 0x30 - 0x7E
CsiFinal == GenericFinal \ {"p"}                  \* 0x40 - 0x7E

Drop(s, n) == SubSeq(s, n + 1, Len(s))
Least(S) == CHOOSE x \in S : \A y \in S : x <= y

(* The first position from k on whose byte is not in Kinds. *)
Past(s, k, Kinds) ==
  Least({j \in k .. Len(s) + 1 : j > Len(s) \/ s[j] \notin Kinds})

(* Where a sequence that starts at s[e] = ESC ends: the position after it, *)
(* 0 if s ends first - or, for a CSI, if a byte does not belong to it.     *)
CsiEnd(s, e) ==   \* consume_csi
  LET k == Past(s, Past(s, e + 2, {"p"}), Intermediate)
  IN  IF k <= Len(s) /\ s[k] \in CsiFinal THEN k + 1 ELSE 0
StringEnd(s, e, bel) ==   \* consume_string_until
  LET ends == {j \in e + 2 .. Len(s) : \/ bel /\ s[j] \in {"BEL", "ESC"}
                                       \/ s[j] = "ESC" /\ j < Len(s) /\ s[j + 1] = "\\"}
  IN  IF ends = {} THEN 0
      ELSE LET j == Least(ends) IN
           IF s[j] = "BEL" THEN j + 1
           ELSE IF j < Len(s) /\ s[j + 1] = "\\" THEN j + 2 ELSE j
OtherEnd(s, e) ==
  LET k == Past(s, e + 1, Intermediate)
  IN  IF k > Len(s) THEN 0 ELSE IF s[k] \in GenericFinal THEN k + 1 ELSE k
SequenceEnd(s, e) ==
  IF e = Len(s) THEN 0
  ELSE CASE s[e + 1] = "[" -> CsiEnd(s, e)
         [] s[e + 1] = "]" -> StringEnd(s, e, TRUE)
         [] s[e + 1] = "P" -> StringEnd(s, e, FALSE)
         [] OTHER -> OtherEnd(s, e)

(* strip_control_sequences; a sequence that does not end takes all the     *)
(* rest with it, except that an ESC at the end is kept.                    *)
RECURSIVE Strip(_)
Strip(s) ==
  CASE s = <<>> -> <<>>
    [] s # <<>> /\ s[1] # "ESC" -> <<s[1]>> \o Strip(Tail(s))
    [] s = <<"ESC">> -> s
    [] OTHER -> LET end == SequenceEnd(s, 1)
                IN  IF end = 0 THEN <<>> ELSE Strip(Drop(s, end - 1))

(* incomplete_trailing_start: how many bytes at the end of s belong to a   *)
(* sequence that is not finished.                                          *)
RECURSIVE Unfinished(_)
Unfinished(s) ==
  CASE s = <<>> -> 0
    [] s # <<>> /\ s[1] # "ESC" -> Unfinished(Tail(s))
    [] OTHER -> LET end == SequenceEnd(s, 1)
                IN  IF end = 0 THEN Len(s) ELSE Unfinished(Drop(s, end - 1))

StripAlone(s, pending) ==   \* mutant: the page is stripped without the carry
  [text |-> Strip(s), trailing |-> <<>>, given_up |-> FALSE]

StripPage(s, pending) ==
  LET full == pending \o s
      n == Unfinished(full)
  IN  [text |-> Strip(SubSeq(full, 1, Len(full) - n)),
       trailing |-> IF n > MaxPending THEN <<>> ELSE Drop(full, Len(full) - n),
       given_up |-> n > MaxPending]
-----------------------------------------------------------------------------
PagesInit ==
  /\ RingInit /\ stream \in Streams /\ from = 0
  /\ carry = [armed |-> FALSE, next_cursor |-> 0, pending |-> <<>>]
  /\ page = [r \in Reader |-> NoPage]

WriteNext(n) ==
  /\ written + n <= Len(stream) /\ Write(SubSeq(stream, written + 1, written + n))
  /\ UNCHANGED <<carry, page, stream, from>>

(* The page is taken under the buffer's lock, from a cursor that an        *)
(* earlier reply has given ...                                             *)
TakePage(r, cursor, max) ==
  /\ ~page[r].busy
  /\ LET got == ReadSinceMax(cursor, max) IN
     page' = [page EXCEPT ![r] = [busy |-> TRUE, start |-> cursor,
                                  end |-> got.new_cursor, output |-> got.output]]
  /\ UNCHANGED <<buf, head, written, carry, stream, from>>

AnyPage(r) ==   \* mutant: whatever page comes next gets the carry
  ~IsTruncated(page[r].start)
(* ... and stripped under the carry's.  A page that does not start where   *)
(* the last one ended, or whose start has been overwritten by now, is      *)
(* stripped by itself and leaves the carry alone.                          *)
Contiguous(r) ==
  /\ ~IsTruncated(page[r].start)
  /\ carry.armed => carry.next_cursor = page[r].start
Stripped(r) == StripPage(page[r].output, carry.pending)
StripSincePage(r) ==
  /\ page[r].busy
  /\ page' = [page EXCEPT ![r] = NoPage]
  /\ IF ~Contiguous(r) THEN UNCHANGED <<carry, from>>
     ELSE /\ carry' = [armed |-> TRUE, next_cursor |-> page[r].end,
                       pending |-> Stripped(r).trailing]
          /\ from' = CASE Stripped(r).given_up -> page[r].end
                       [] ~Stripped(r).given_up /\ ~carry.armed -> page[r].start
                       [] OTHER -> from
  /\ UNCHANGED <<buf, head, written, stream>>

PagesNext ==
  \/ \E n \in 1 .. MaxWrite : WriteNext(n)
  \/ \E r \in Reader :
       \/ \E cursor \in 0 .. written, max \in 1 .. Size : TakePage(r, cursor, max)
       \/ StripSincePage(r)
PagesSpec == PagesInit /\ [][PagesNext]_pageVars
-----------------------------------------------------------------------------
(* What a terminal does, byte by byte: it is in one of these modes, and    *)
(* prints a byte only outside of a sequence.                               *)
Mode(m, b) ==
  CASE m = "text" -> IF b = "ESC" THEN "esc" ELSE "text"
    [] m = "esc" /\ b = "[" -> "csi"
    [] m = "esc" /\ b = "]" -> "osc"
    [] m = "esc" /\ b = "P" -> "dcs"
    [] m \in {"esc", "escI"} /\ b \in Intermediate -> "escI"
    [] m \in {"esc", "escI"} /\ b = "ESC" -> "esc"
    [] m = "csi" /\ b = "p" -> "csi"
    [] m \in {"csi", "csiI"} /\ b \in Intermediate -> "csiI"
    [] m \in {"csi", "csiI"} /\ b \notin CsiFinal \cup Intermediate
         /\ ~(m = "csi" /\ b = "p") -> "lost"
    [] m = "osc" /\ b = "ESC" -> "esc"
    [] m = "osc" /\ b \notin {"BEL", "ESC"} -> "osc"
    [] m \in {"dcs", "dcsE"} /\ b = "ESC" -> "dcsE"
    [] b # "ESC" /\ (m = "dcs" \/ (m = "dcsE" /\ b # "\\")) -> "dcs"
    [] m = "lost" -> "lost"
    [] OTHER -> "text"
Prints(m, b) == \/ m = "text" /\ b # "ESC"
                \/ m \in {"esc", "escI"} /\ b \notin GenericFinal \cup {"i", "ESC"}
RECURSIVE Shown(_, _)
Shown(s, m) ==
  IF s = <<>> THEN <<>>
  ELSE (IF Prints(m, s[1]) THEN <<s[1]>> ELSE <<>>) \o Shown(Tail(s), Mode(m, s[1]))

(* Wherever the pages cut the output, and whatever other calls read in     *)
(* between, the pages that continue one another show what a terminal that  *)
(* sees the whole stream shows: no tail of a sequence leaks as text, and   *)
(* no text is lost with the head of one.  (But for an ESC: of two in a row *)
(* at the end of a page the first is shown.)                               *)
PagesStripAsOne ==
  \A r \in Reader :
    LET p == page[r]
        at == IF carry.armed THEN from ELSE p.start IN
    p.busy /\ ~IsTruncated(p.start) /\ (carry.armed => carry.next_cursor = p.start) =>
      Shown(SubSeq(stream, at + 1, p.start), "text")
        \o SelectSeq(Stripped(r).text, LAMBDA b : b # "ESC")
        = Shown(SubSeq(stream, at + 1, p.end), "text")
=============================================================================
