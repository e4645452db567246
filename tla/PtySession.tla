----------------------------- MODULE PtySession -----------------------------
(***************************************************************************)
(* The shell of one daemon session and the input path to it                *)
(* (agentd/src/pty.rs, with the parts of agentd/src/session.rs that own    *)
(* it): the child process behind the PTY, the thread that reads the PTY,   *)
(* the bounded input queue with its writer thread, the request threads     *)
(* that send input, a close, and the teardown by whichever thread lets go  *)
(* of the session last.                                                    *)
(*                                                                         *)
(* Queue and flags are guarded by one mutex with one condition variable    *)
(* for everybody: the writer waiting for input and senders waiting for     *)
(* room.  parking_lot wakes in the order of waiting, and never without a   *)
(* notification.  A critical section is one step.  Output is not modelled  *)
(* here (see AgentDaemon), only the end of it.  A chunk is a piece of a    *)
(* sender's input: the bytes after `from' up to `to'.                      *)
(***************************************************************************)
EXTENDS Integers, Sequences, SequencesExt

CONSTANTS
  Sender,   \* request threads: each sends one input
  Length,   \* Sender -> the length of its input, in bytes
  Chunk,    \* WRITER_CHUNK: an input is queued in chunks of this size
  Queue,    \* WRITER_QUEUE_BYTES: capacity of the queue
  Tty       \* what the terminal takes before somebody reads it

ASSUME PtyAssumption ==
  /\ Length \in [Sender -> Nat \ {0}] /\ Chunk \in Nat \ {0} /\ Tty \in Nat \ {0}
  /\ Queue \in Nat /\ Chunk <= Queue
  /\ "writer" \notin Sender

VARIABLES
  entry,    \* the session in the manager's map: "none", "live", "removed"
  child,    \* the shell: "none", "running", "zombie", "reaped"
  slave,    \* who has the terminal open, of "child" and "escaped": a
            \* descendant in a group of its own, out of the kill's reach
  master,   \* the PTY's master descriptor is open
  reader,   \* the read thread: "none", "read", "reap", "lost", "gone"
  at,       \* Sender -> where its send_input is
  given,    \* Sender -> bytes of its input that are queued so far
  late,     \* Sender -> its deadline has passed
  queue,    \* the chunks queued
  queued,   \* and their bytes
  closed,   \* the queue is closed
  waiting,  \* who waits on the condition variable, longest first
  writer,   \* the writer thread: "none", "lock", "wait", "write", "gone"
  rest,     \* what the writer still has to write of its chunk
  tty,      \* how many bytes in the terminal nobody has read
  teardown, \* "none", "kill", "drop", "release", "close", "notify", "join",
            \* "done"
  sent,     \* Sender -> it has made its call
  accepted, \* history: the chunks queued, in order
  written   \* history: of each chunk the writer took, what the terminal took

shell == <<child, slave, master, reader>>
calls == <<at, given, late, sent>>
input == <<queue, queued, closed, waiting, writer, rest, tty, accepted, written>>
vars == <<entry, shell, calls, input, teardown>>

Size(c) == c.to - c.from
NoChunk == [of |-> "nobody", from |-> 0, to |-> 0]
InCall == {s \in Sender : at[s] # "idle"}

TypeOK ==
  /\ entry \in {"none", "live", "removed"}
  /\ child \in {"none", "running", "zombie", "reaped"}
  /\ slave \subseteq {"child", "escaped"}
  /\ master \in BOOLEAN
  /\ reader \in {"none", "read", "reap", "lost", "gone"}
  /\ at \in [Sender -> {"idle", "lock", "wait", "notify"}]
  /\ late \in [Sender -> BOOLEAN] /\ closed \in BOOLEAN
  /\ \A s \in Sender : given[s] \in 0..Length[s]
  /\ \A n \in DOMAIN queue : Size(queue[n]) \in 1..Chunk
  /\ queued \in 0..Queue /\ Size(rest) \in 0..Chunk /\ tty \in 0..Tty
  /\ ToSet(waiting) = {s \in Sender : at[s] = "wait"}
                        \cup (IF writer = "wait" THEN {"writer"} ELSE {})
  /\ writer \in {"none", "lock", "wait", "write", "gone"}
  /\ teardown \in {"none", "kill", "drop", "release", "close", "notify",
                   "join", "done"}

Init ==
  /\ entry = "none" /\ child = "none" /\ slave = {} /\ master = FALSE
  /\ reader = "none"
  /\ at = [s \in Sender |-> "idle"] /\ given = [s \in Sender |-> 0]
  /\ late = [s \in Sender |-> FALSE] /\ sent = [s \in Sender |-> FALSE]
  /\ queue = <<>> /\ queued = 0 /\ closed = FALSE /\ waiting = <<>>
  /\ writer = "none" /\ rest = NoChunk /\ tty = 0
  /\ teardown = "none" /\ accepted = <<>> /\ written = <<>>
-----------------------------------------------------------------------------
(* The process.                                                            *)

(* Pty::spawn, PtyWriter::new and the read thread, then the map.           *)
Create ==
  /\ entry = "none"
  /\ entry' = "live" /\ child' = "running"
  /\ slave' \in {{"child"}, {"child", "escaped"}}
  /\ master' = TRUE /\ reader' = "read" /\ writer' = "lock"
  /\ UNCHANGED <<calls, queue, queued, closed, waiting, rest, tty,
                 accepted, written, teardown>>

(* Whoever has the terminal open reads from it.                            *)
TerminalRead ==
  /\ slave # {} /\ tty # 0
  /\ tty' = 0
  /\ UNCHANGED <<entry, shell, calls, queue, queued, closed, waiting, writer,
                 rest, accepted, written, teardown>>

(* A holder lets go of the terminal; the child perhaps by exiting.         *)
LetGo(p) ==
  /\ p \in slave
  /\ slave' = slave \ {p}
  /\ child' \in IF p = "child" THEN {child, "zombie"} ELSE {child}
  /\ UNCHANGED <<entry, master, reader, calls, input, teardown>>

(* kill_child: SIGKILL to the group, or to the process if there is none.   *)
KillChild ==
  /\ child' = IF child = "running" THEN "zombie" ELSE child
  /\ slave' = slave \ {"child"}

(* Pty::drop: kill, reap if that takes at most 200 ms, close.              *)
DropPty ==
  /\ \E left \in {"zombie", "reaped"} :
       child' = IF child = "reaped" THEN child ELSE left
  /\ slave' = slave \ {"child"}
  /\ master' = FALSE

ReleaseUnshared(sharedStill) == DropPty   \* mutant: the thread has no share

(* The Pty is shared by the session and the read thread: the last of them  *)
(* to let go drops it.                                                     *)
ReleasePty(sharedStill) ==
  IF sharedStill THEN UNCHANGED <<child, slave, master>> ELSE DropPty

-----------------------------------------------------------------------------
(* The read thread (pty_read_loop, finish_lost).                           *)

(* End of file or EIO, when nobody has the terminal open any more, or      *)
(* another error.                                                          *)
ReadEnds ==
  /\ reader = "read"
  /\ \/ slave = {} /\ reader' = "reap"
     \/ reader' = "lost"
  /\ UNCHANGED <<entry, child, slave, master, calls, input,
                 teardown>>

(* reap_exit_code_bounded: a child that has exited is reaped; after 2 s    *)
(* the session is lost without that.                                       *)
Reap ==
  /\ reader = "reap"
  /\ child' = IF child = "zombie" THEN "reaped" ELSE child
  /\ reader' = "lost"
  /\ UNCHANGED <<entry, slave, master, calls, input, teardown>>

ReaderLeaves ==
  /\ reader = "lost"
  /\ reader' = "gone"
  /\ ReleasePty(teardown \notin {"close", "notify", "join", "done"})
  /\ UNCHANGED <<entry, calls, input, teardown>>
-----------------------------------------------------------------------------
(* send_input: the session is looked up and not lost, then its chunks.     *)
(* The caller holds the session all the while.                             *)

Send(s) ==
  /\ entry = "live" /\ reader \notin {"lost", "gone"}
  /\ ~sent[s]
  /\ sent' = [sent EXCEPT ![s] = TRUE]
  /\ at' = [at EXCEPT ![s] = "lock"]
  /\ UNCHANGED <<entry, shell, given, late, input, teardown>>

NextChunk(s) ==
  [of |-> s, from |-> given[s],
   to |-> IF given[s] + Chunk < Length[s] THEN given[s] + Chunk ELSE Length[s]]
Left(s) == given[s] < Length[s]
HasRoomForSome(s) == queued < Queue   \* mutant: the chunk is not counted
HasRoom(s) == queued + Size(NextChunk(s)) <= Queue

Enqueue(s) ==
  /\ at[s] = "lock" /\ Left(s) /\ HasRoom(s)
  /\ queue' = Append(queue, NextChunk(s))
  /\ queued' = queued + Size(NextChunk(s))
  /\ accepted' = Append(accepted, NextChunk(s))
  /\ given' = [given EXCEPT ![s] = NextChunk(s).to]
  /\ at' = [at EXCEPT ![s] = "notify"]
  /\ UNCHANGED <<entry, shell, late, sent, closed, waiting, writer, rest, tty,
                 written, teardown>>

NotifyNone(s) ==   \* mutant: only a full queue is announced
  /\ at[s] = "notify"
  /\ at' = [at EXCEPT ![s] = IF Left(s) THEN "lock" ELSE "idle"]
  /\ UNCHANGED <<entry, shell, given, late, sent, input, teardown>>

(* notify_one, after the lock is released; then the next chunk or Ok.      *)
NotifyOne(s) ==
  LET woken == IF waiting = <<>> THEN {} ELSE {Head(waiting)}
      onwards == IF Left(s) THEN "lock" ELSE "idle"
  IN
  /\ at[s] = "notify"
  /\ at' = [t \in Sender |-> IF t \in woken THEN "lock"
                             ELSE IF t = s THEN onwards ELSE at[t]]
  /\ writer' = IF "writer" \in woken THEN "lock" ELSE writer
  /\ waiting' = IF waiting = <<>> THEN waiting ELSE Tail(waiting)
  /\ UNCHANGED <<entry, shell, given, late, sent, queue, queued, closed, rest,
                 tty, accepted, written, teardown>>

WaitForRoom(s) ==
  /\ at[s] = "lock" /\ ~HasRoom(s) /\ ~late[s]
  /\ at' = [at EXCEPT ![s] = "wait"]
  /\ waiting' = Append(waiting, s)
  /\ UNCHANGED <<entry, shell, given, late, sent, queue, queued, closed, writer,
                 rest, tty, accepted, written, teardown>>

(* PtyWriteError::Backlogged: what was queued so far stays queued.         *)
GiveUp(s) ==
  /\ at[s] = "lock" /\ ~HasRoom(s) /\ late[s]
  /\ at' = [at EXCEPT ![s] = "idle"]
  /\ UNCHANGED <<entry, shell, given, late, sent, input, teardown>>

(* A wait ends without a notification. *)
Unwait(s) ==
  /\ at[s] = "wait" /\ at' = [at EXCEPT ![s] = "lock"]
  /\ \E n \in DOMAIN waiting : waiting[n] = s /\ waiting' = RemoveAt(waiting, n)

DeadlinePerChunk(s) ==   \* mutant: a wait that timed out is taken up again
  /\ ~late[s] /\ Unwait(s)
  /\ UNCHANGED <<entry, shell, given, late, sent, queue, queued, closed, writer,
                 rest, tty, accepted, written, teardown>>

(* SEND_WAIT runs over the whole input.  It shows only where room is       *)
(* looked for, so it passes there.                                         *)
Deadline(s) ==
  /\ ~late[s]
  /\ \/ Unwait(s)
     \/ at[s] = "lock" /\ ~HasRoom(s) /\ UNCHANGED <<at, waiting>>
  /\ late' = [late EXCEPT ![s] = TRUE]
  /\ UNCHANGED <<entry, shell, given, sent, queue, queued, closed, writer, rest,
                 tty, accepted, written, teardown>>

-----------------------------------------------------------------------------
(* The writer thread (writer_loop).                                        *)

NotifyAll ==
  /\ waiting' = <<>>
  /\ at' = [s \in Sender |-> IF at[s] = "wait" THEN "lock" ELSE at[s]]

TakeChunk ==
  /\ writer = "lock" /\ ~closed /\ queue # <<>>
  /\ rest' = Head(queue) /\ queue' = Tail(queue)
  /\ queued' = queued - Size(Head(queue))
  /\ written' = Append(written, [Head(queue) EXCEPT !.to = Head(queue).from])
  /\ writer' = "write" /\ NotifyAll
  /\ UNCHANGED <<entry, shell, given, late, sent, closed, tty, accepted,
                 teardown>>

AwaitChunk ==
  /\ writer = "lock" /\ ~closed /\ queue = <<>>
  /\ writer' = "wait" /\ waiting' = Append(waiting, "writer")
  /\ UNCHANGED <<entry, shell, calls, queue, queued, closed, rest, tty,
                 accepted, written, teardown>>

(* The backlog of a closed queue is dropped.                               *)
WriterLeaves ==
  /\ writer = "lock" /\ closed
  /\ queue' = <<>> /\ queued' = 0 /\ writer' = "gone" /\ NotifyAll
  /\ UNCHANGED <<entry, shell, given, late, sent, closed, rest, tty, accepted,
                 written, teardown>>

(* The terminal takes k of the bytes that are left.                        *)
Take(k) ==
  /\ slave # {} /\ tty + k <= Tty
  /\ tty' = tty + k
  /\ written' = [written EXCEPT ![Len(written)].to = rest.from + k]

WriteShort ==   \* mutant: what a short write left is forgotten
  /\ writer = "write"
  /\ \/ \E k \in 1..Size(rest) : Take(k)
     \/ slave = {} /\ UNCHANGED <<tty, written>>
  /\ rest' = [rest EXCEPT !.from = rest.to] /\ writer' = "lock"
  /\ UNCHANGED <<entry, shell, calls, queue, queued, closed, waiting, accepted,
                 teardown>>

(* write(2) takes part of what is left, blocks while the terminal is full, *)
(* and fails with EIO when nobody has it open: then the chunk is dropped.  *)
Write ==
  /\ writer = "write"
  /\ \/ \E k \in 1..Size(rest) :
          Take(k) /\ rest' = [rest EXCEPT !.from = rest.from + k]
     \/ /\ slave = {} /\ rest' = [rest EXCEPT !.from = rest.to]
        /\ UNCHANGED <<tty, written>>
  /\ writer' = IF Size(rest') = 0 THEN "lock" ELSE "write"
  /\ UNCHANGED <<entry, shell, calls, queue, queued, closed, waiting, accepted,
                 teardown>>

-----------------------------------------------------------------------------
(* close, and the teardown.                                                *)

(* SessionManager::close takes the session out of the map ...              *)
Close ==
  /\ entry = "live"
  /\ entry' = "removed" /\ teardown' = "kill"
  /\ UNCHANGED <<shell, calls, input>>

(* ... and kills the child.                                                *)
CloseKills ==
  /\ teardown = "kill"
  /\ KillChild /\ teardown' = "drop"
  /\ UNCHANGED <<entry, master, reader, calls, input>>

DropInCall ==   \* mutant: close destroys the session at once
  /\ teardown = "drop"
  /\ KillChild /\ teardown' = "release"
  /\ UNCHANGED <<entry, master, reader, calls, input>>

(* Session::drop, once no call holds the session: the child is killed      *)
(* before the writer is joined.                                            *)
DropSession ==
  /\ teardown = "drop" /\ InCall = {}
  /\ KillChild /\ teardown' = "release"
  /\ UNCHANGED <<entry, master, reader, calls, input>>

ReleaseSession ==
  /\ teardown = "release"
  /\ ReleasePty(reader # "gone") /\ teardown' = "close"
  /\ UNCHANGED <<entry, reader, calls, input>>

(* PtyWriter::drop.                                                        *)
CloseQueue ==
  /\ teardown = "close"
  /\ closed' = TRUE /\ teardown' = "notify"
  /\ UNCHANGED <<entry, shell, calls, queue, queued, waiting, writer, rest, tty,
                 accepted, written>>

NotifySenders ==   \* mutant: the writer is not woken
  /\ teardown = "notify"
  /\ teardown' = "join"
  /\ UNCHANGED <<entry, shell, calls, input>>

NotifyClosed ==
  /\ teardown = "notify"
  /\ NotifyAll /\ teardown' = "join"
  /\ writer' = IF writer = "wait" THEN "lock" ELSE writer
  /\ UNCHANGED <<entry, shell, given, late, sent, queue, queued, closed, rest,
                 tty, accepted, written>>

(* The join gives up after DROP_JOIN_TIMEOUT.                              *)
Join ==
  /\ teardown = "join"
  /\ teardown' = "done"
  /\ UNCHANGED <<entry, shell, calls, input>>

SenderStep(s) ==
  Enqueue(s) \/ NotifyOne(s) \/ WaitForRoom(s) \/ GiveUp(s) \/ Deadline(s)
ReaderStep == ReadEnds \/ Reap \/ ReaderLeaves
WriterStep == TakeChunk \/ AwaitChunk \/ WriterLeaves \/ Write
Teardown ==
  \/ CloseKills \/ DropSession \/ ReleaseSession \/ CloseQueue
  \/ NotifyClosed \/ Join

Next ==
  \/ Create \/ TerminalRead \/ Close
  \/ \E p \in slave : LetGo(p)
  \/ ReaderStep \/ WriterStep \/ Teardown
  \/ \E s \in Sender : SenderStep(s) \/ Send(s)

(* The daemon's threads run and its timers expire.  Nobody has to read     *)
(* the terminal, to send, to exit or to close.                             *)
Fairness ==
  /\ WF_vars(WriterStep) /\ WF_vars(Teardown)
  /\ WF_vars(slave = {} /\ ReadEnds) /\ WF_vars(Reap \/ ReaderLeaves)
  /\ \A s \in Sender :
       /\ WF_vars(Enqueue(s) \/ NotifyOne(s) \/ WaitForRoom(s) \/ GiveUp(s))
       /\ WF_vars(Deadline(s))

Spec == Init /\ [][Next]_vars /\ Fairness
-----------------------------------------------------------------------------
(* Each sender's bytes are queued once and in their order, and what an     *)
(* input that failed has left behind is its beginning.                     *)
QueuedInOrder ==
  /\ \A n \in DOMAIN accepted :
       LET c == accepted[n] IN
       /\ c.from < c.to /\ c.to <= given[c.of]
       /\ \A m \in 1..n - 1 : accepted[m].of = c.of => accepted[m].to <= c.from
  /\ \A s \in Sender : \A i \in 0..given[s] - 1 :
       \E n \in DOMAIN accepted :
         /\ accepted[n].of = s
         /\ accepted[n].from <= i /\ i < accepted[n].to

(* What the terminal has taken is what was queued, in that order and       *)
(* without a gap, and as long as somebody has the terminal open and the    *)
(* session is not torn down, all the rest is still on its way.             *)
Writing(n) == n = Len(written) /\ writer = "write"
WrittenInOrder ==
  /\ Len(written) <= Len(accepted)
  /\ \A n \in DOMAIN written :
       /\ \E k \in accepted[n].from..accepted[n].to :
            written[n] = [accepted[n] EXCEPT !.to = k]
       /\ \A m \in 1..n - 1 : written[m] # accepted[m]
                                => written[n].from = written[n].to
  /\ slave # {} /\ ~closed =>
       /\ \A n \in DOMAIN written :
            IF Writing(n) THEN rest = [accepted[n] EXCEPT !.from = written[n].to]
            ELSE written[n] = accepted[n]
       /\ queue = SubSeq(accepted, Len(written) + 1, Len(accepted))

InputInOrder == QueuedInOrder /\ WrittenInOrder

(* No wakeup is lost although senders and the writer share a condition     *)
(* variable: the writer sleeps only if there is nothing to do or its       *)
(* notification is on the way, a sender only if there is no room for it.   *)
NoStall ==
  /\ writer = "wait" =>
       \/ queue = <<>> /\ ~closed
       \/ teardown = "notify" \/ \E s \in Sender : at[s] = "notify"
  /\ \A s \in Sender : at[s] = "wait" => ~HasRoom(s)

(* The teardown finds what it tears down unused: the read thread never     *)
(* reads a closed descriptor, no sender meets a closed queue, and the      *)
(* child is dead before the writer is joined (session.rs, Session::drop).  *)
TeardownInOrder ==
  /\ reader = "read" => master
  /\ closed => InCall = {}
  /\ teardown = "join" => child # "running"

(* Input and teardown keep their order, within the queue's limits.         *)
InOrder == TypeOK /\ InputInOrder /\ TeardownInOrder

(* send_input never blocks its thread for ever, whatever the shell does.   *)
SenderAnswers == \A s \in Sender : at[s] # "idle" ~> at[s] = "idle"

(* A closed session is torn down; its threads end and its descriptor is    *)
(* closed unless an escaped descendant keeps the terminal open.            *)
ClosedIsReleased ==
  entry = "removed" ~>
    /\ teardown = "done"
    /\ slave # {} \/ (reader = "gone" /\ writer = "gone" /\ ~master)
=============================================================================
