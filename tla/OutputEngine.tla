---------------------------- MODULE OutputEngine ----------------------------
(***************************************************************************)
(* OutputEngine of src/src/domain/output.rs: the output log of a session,  *)
(* the single task that writes it (the PTY read task of Session), the      *)
(* watch channel that announces writes, the internal mark cursor, and      *)
(* callers of read_output running concurrently.                            *)
(*                                                                         *)
(* The log's mutex, the mark's mutex and the watch channel are separate,   *)
(* and a call takes them one after the other: each taking is one step.     *)
(* OutputRing shows that the physical ring implements the log used here.   *)
(* Time is not modelled: a timeout or a settle threshold may expire at any *)
(* poll, which covers every clock.                                         *)
(***************************************************************************)
EXTENDS BoundedLog

CONSTANTS
  Reader,     \* concurrent callers of read_output
  Call,       \* Reader -> the modes it uses, of Mode
  Pattern,    \* what wait_for looks for, a sequence of bytes
  Prompt      \* the byte that ends a shell prompt

Mode == {"since", "tail", "wait_for", "settle"}

ASSUME EngineAssumption == Call \in [Reader -> SUBSET Mode]

VARIABLES
  published,  \* value of the watch channel: total as last sent to it
  mark,       \* mark_cursor: what the settle and wait_for modes consumed
  rd,         \* Reader -> the call in progress
  drained     \* history: every byte before it was returned, given up by a
              \* wait_for hit, or reported as truncated

vars == <<held, total, published, mark, rd, drained>>

(* A call in progress.  from and upto delimit the bytes it returns; flag   *)
(* and cursor are the result's is_truncated and cursor.                    *)
Idle == [pc |-> "idle", call |-> "none", mark |-> 0, seen |-> 0,
         scanned |-> 0, last |-> <<>>, from |-> 0, upto |-> 0,
         cursor |-> 0, flag |-> FALSE]

CallInProgress ==
  [pc : {"idle", "subscribe", "scan", "parked", "hit", "poll", "tail",
         "store", "flag", "done"},
   call : Mode \cup {"none"}, mark : Nat, seen : Nat, scanned : Nat,
   last : Seq(Byte), from : Nat, upto : Nat, cursor : Nat, flag : BOOLEAN]

TypeOK ==
  /\ total \in Nat /\ published \in Nat /\ mark \in Nat /\ drained \in Nat
  /\ held \in Seq(Byte) /\ Len(held) <= Size
  /\ rd \in [Reader -> CallInProgress]

Init ==
  /\ LogInit
  /\ published = 0
  /\ mark = 0
  /\ drained = 0
  /\ rd = [r \in Reader |-> Idle]

At(r, pc) == rd[r].pc = pc
-----------------------------------------------------------------------------
(* The writer appends under the log's mutex, and sends the new total to    *)
(* the watch channel only after releasing it.                              *)
Append1(data) ==
  /\ published = total
  /\ AppendChunk(data)
  /\ UNCHANGED <<published, mark, rd, drained>>

Publish ==
  /\ published # total
  /\ published' = total
  /\ UNCHANGED <<held, total, mark, rd, drained>>

LogStays == UNCHANGED <<held, total, published>>
-----------------------------------------------------------------------------
(* since_cursor: one read of the log; the caller keeps the cursor.         *)
SinceRead(r, c, max) ==
  /\ "since" \in Call[r] /\ At(r, "idle")
  /\ rd' = [rd EXCEPT ![r] = [Idle EXCEPT
              !.pc = "done", !.call = "since", !.mark = c,
              !.from = StartOf(c), !.upto = PageEnd(c, max),
              !.cursor = PageEnd(c, max), !.flag = Unreadable(c)]]
  /\ LogStays /\ UNCHANGED <<mark, drained>>

(* tail_lines: the lines are read first, the cursor reported afterwards.   *)
TailRead(r) ==
  /\ "tail" \in Call[r] /\ At(r, "idle")
  /\ rd' = [rd EXCEPT ![r] = [Idle EXCEPT
              !.pc = "tail", !.call = "tail", !.scanned = total]]
  /\ LogStays /\ UNCHANGED <<mark, drained>>

TailCursor(r) ==
  /\ At(r, "tail")
  /\ rd' = [rd EXCEPT ![r].pc = "done", ![r].cursor = mark]
  /\ LogStays /\ UNCHANGED <<mark, drained>>
-----------------------------------------------------------------------------
(* wait_for: subscribe, scan everything unread, and on a miss wait for the *)
(* channel to move and scan it all again.                                  *)
Contains(s) ==
  \E i \in 0 .. Len(s) - Len(Pattern) :
    SubSeq(s, i + 1, i + Len(Pattern)) = Pattern

WaitStart(r) ==
  /\ "wait_for" \in Call[r] /\ At(r, "idle")
  /\ rd' = [rd EXCEPT ![r] = [Idle EXCEPT
              !.pc = "subscribe", !.call = "wait_for", !.mark = mark]]
  /\ LogStays /\ UNCHANGED <<mark, drained>>

Subscribe(r) ==
  /\ At(r, "subscribe")
  /\ rd' = [rd EXCEPT ![r].pc = "scan", ![r].seen = published]
  /\ LogStays /\ UNCHANGED <<mark, drained>>

(* Mutant: a scan resumes where the previous one stopped.                  *)
ScanNewOnly(r) ==
  LET m == IF rd[r].scanned > rd[r].mark THEN rd[r].scanned ELSE rd[r].mark
  IN  /\ At(r, "scan")
      /\ rd' = [rd EXCEPT
           ![r].pc = IF Contains(LogSince(m)) THEN "hit" ELSE "parked",
           ![r].scanned = total, ![r].from = StartOf(m), ![r].upto = total]
      /\ LogStays /\ UNCHANGED <<mark, drained>>

Scan(r) ==
  /\ At(r, "scan")
  /\ rd' = [rd EXCEPT
       ![r].pc = IF Contains(LogSince(rd[r].mark)) THEN "hit" ELSE "parked",
       ![r].scanned = total,
       ![r].from = StartOf(rd[r].mark),
       ![r].upto = total]
  /\ LogStays /\ UNCHANGED <<mark, drained>>

(* Mutant: one waiter takes the wake-up of all of them (the notify_one     *)
(* permit the code used before, issue P3-1).                               *)
WakeOnlyOne(r) ==
  /\ At(r, "parked") /\ rd[r].seen # published
  /\ rd' = [q \in Reader |->
              IF q = r THEN [rd[q] EXCEPT !.pc = "scan", !.seen = published]
              ELSE [rd[q] EXCEPT !.seen = published]]
  /\ LogStays /\ UNCHANGED <<mark, drained>>

(* changed(): the channel holds a value this receiver has not seen.        *)
Wake(r) ==
  /\ At(r, "parked") /\ rd[r].seen # published
  /\ rd' = [rd EXCEPT ![r].pc = "scan", ![r].seen = published]
  /\ LogStays /\ UNCHANGED <<mark, drained>>

(* A hit consumes everything written by now, which is read anew.           *)
Hit(r) ==
  /\ At(r, "hit")
  /\ rd' = [rd EXCEPT ![r].pc = "store", ![r].cursor = total,
                      ![r].seen = 0, ![r].scanned = 0]
  /\ LogStays /\ UNCHANGED <<mark, drained>>

(* The deadline returns what is unread and consumes nothing.               *)
WaitTimeout(r) ==
  /\ At(r, "parked")
  /\ rd' = [rd EXCEPT ![r].pc = "flag",
                      ![r].from = StartOf(rd[r].mark), ![r].upto = total,
                      ![r].cursor = rd[r].mark,
                      ![r].seen = 0, ![r].scanned = 0]
  /\ LogStays /\ UNCHANGED <<mark, drained>>
-----------------------------------------------------------------------------
(* settle: poll until the unread bytes are unchanged for long enough or    *)
(* look like a prompt.  An empty read never settles.                       *)
HasPromptSuffix(s) == s # <<>> /\ s[Len(s)] = Prompt

SettleStart(r) ==
  /\ "settle" \in Call[r] /\ At(r, "idle")
  /\ rd' = [rd EXCEPT ![r] = [Idle EXCEPT
              !.pc = "poll", !.call = "settle", !.mark = mark,
              !.last = LogSince(mark)]]
  /\ LogStays /\ UNCHANGED <<mark, drained>>

(* The read that ends the call: the mark is to move by its length.         *)
SettleNow(r) ==
  LET m == rd[r].mark IN
  rd' = [rd EXCEPT ![r].pc = "store", ![r].last = <<>>,
                   ![r].from = StartOf(m), ![r].upto = total,
                   ![r].cursor = m + (total - StartOf(m))]

SettlePoll(r) ==
  LET current == LogSince(rd[r].mark) IN
  /\ At(r, "poll") /\ current # <<>>
  /\ \/ /\ HasPromptSuffix(current) \/ current = rd[r].last
        /\ SettleNow(r)
     \/ /\ ~HasPromptSuffix(current) /\ current # rd[r].last
        /\ rd' = [rd EXCEPT ![r].last = current]
  /\ LogStays /\ UNCHANGED <<mark, drained>>

SettleTimeout(r) ==
  /\ At(r, "poll")
  /\ SettleNow(r)
  /\ LogStays /\ UNCHANGED <<mark, drained>>
-----------------------------------------------------------------------------
(* Both consuming modes end alike: store the mark, then evaluate           *)
(* is_truncated for the mark the call began with, then return.             *)
Consumed(r) == IF rd[r].call = "settle" THEN rd[r].upto ELSE rd[r].cursor

(* Mutant: the mark jumps to what is written by the time it is stored.     *)
StoreWritten(r) ==
  /\ At(r, "store")
  /\ mark' = total
  /\ drained' = IF Consumed(r) > drained THEN Consumed(r) ELSE drained
  /\ rd' = [rd EXCEPT ![r].pc = "flag"]
  /\ LogStays

StoreMark(r) ==
  /\ At(r, "store")
  /\ mark' = rd[r].cursor
  /\ drained' = IF Consumed(r) > drained THEN Consumed(r) ELSE drained
  /\ rd' = [rd EXCEPT ![r].pc = "flag"]
  /\ LogStays

(* Mutant: is_truncated is asked about the cursor that is returned.        *)
FlagOfCursor(r) ==
  /\ At(r, "flag")
  /\ rd' = [rd EXCEPT ![r].pc = "done", ![r].flag = Unreadable(rd[r].cursor)]
  /\ LogStays /\ UNCHANGED <<mark, drained>>

Flag(r) ==
  /\ At(r, "flag")
  /\ rd' = [rd EXCEPT ![r].pc = "done", ![r].flag = Unreadable(rd[r].mark)]
  /\ LogStays /\ UNCHANGED <<mark, drained>>

Return(r) ==
  /\ At(r, "done")
  /\ rd' = [rd EXCEPT ![r] = Idle]
  /\ LogStays /\ UNCHANGED <<mark, drained>>

ReaderStep(r) ==
  \/ \E c \in 0 .. total + 1, max \in {1, Size} : SinceRead(r, c, max)
  \/ TailRead(r) \/ TailCursor(r)
  \/ WaitStart(r) \/ Subscribe(r) \/ Scan(r) \/ Wake(r) \/ Hit(r)
  \/ WaitTimeout(r)
  \/ SettleStart(r) \/ SettlePoll(r) \/ SettleTimeout(r)
  \/ StoreMark(r) \/ Flag(r) \/ Return(r)

Next ==
  \/ \E data \in Chunks : Append1(data)
  \/ Publish
  \/ \E r \in Reader : ReaderStep(r)

(* The writer task announces what it wrote, and the runtime polls a woken  *)
(* waiter and lets it go on.  No timer is fair.                            *)
Fairness ==
  /\ WF_vars(Publish)
  /\ \A r \in Reader : WF_vars(Subscribe(r) \/ Scan(r) \/ Wake(r))

Spec == Init /\ [][Next]_vars /\ Fairness
-----------------------------------------------------------------------------
Done(r, call) == At(r, "done") /\ rd[r].call = call

(* A result that does not say is_truncated really begins where the call    *)
(* began: a byte overwritten while the call waited, between its read and   *)
(* its report, or by a writer faster than the poll is never lost silently. *)
TruncationFlagged ==
  \A r \in Reader :
    At(r, "done") /\ rd[r].call # "tail" /\ ~rd[r].flag
      => rd[r].from = rd[r].mark

(* A waiter that would sleep on has scanned every byte announced: a write  *)
(* between its scan and its wait, or another waiter's wake-up, never       *)
(* leaves it waiting for the next write with a match unread (P3-1).        *)
NoLostWakeup ==
  \A r \in Reader :
    At(r, "parked") /\ rd[r].seen = published /\ published = total
      => rd[r].scanned = total

(* Callers that drain in parallel may see bytes twice, but the mark never  *)
(* passes a byte that no caller was given, that no wait_for hit gave up    *)
(* and that no result reported as truncated.                               *)
MarkCoversDelivered == mark <= drained

(* However callers overlap, no byte is lost silently: neither by a result  *)
(* nor by the mark that the next default read starts from.                 *)
NothingLost == TypeOK /\ TruncationFlagged /\ MarkCoversDelivered

(* A parked waiter whose pattern can be read, split over writes or not, is *)
(* let go before its deadline, unless newer output pushes the match out.   *)
Readable(r) == Contains(LogSince(rd[r].mark))
WaiterAnswered ==
  \A r \in Reader :
    (At(r, "parked") /\ Readable(r))
      ~> (~rd[r].pc \in {"scan", "parked"} \/ ~Readable(r))
=============================================================================
