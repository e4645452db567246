---------------------------- MODULE DaemonClient ----------------------------
(***************************************************************************)
(* The client's half of a persistent session                               *)
(* (src/src/infrastructure/persistent.rs): one connection to the daemon    *)
(* with its reader task and its table of pending calls, the opening of a   *)
(* remote session over it, the terminal handle that results, and the read  *)
(* task that moves output from the handle to the session's buffer.  Every  *)
(* attach opens a connection of its own.                                   *)
(*                                                                         *)
(* Of the daemon it assumes only AttachStream, which AgentDaemon           *)
(* implements, and how a request changes the session's state.              *)
(***************************************************************************)
EXTENDS AttachStream, FiniteSets

CONSTANTS
  Opener,     \* the task that opens or attaches the remote session
  Caller,     \* tasks that use the handle afterwards
  QueueSize,  \* capacity of the output queue (256 in the code)
  MaxCalls,   \* bound: calls made on the connection
  MaxUpto,    \* bound: bytes of output
  MaxData     \* bound: bytes of one message, and bytes skipped before it

ASSUME ClientAssumption ==
  /\ Opener \notin Caller
  /\ QueueSize \in Nat \ {0} /\ MaxCalls \in Nat /\ MaxUpto \in Nat
  /\ MaxData \in Nat /\ Terminals \cap Output = {}

VARIABLES
  remote,     \* the daemon's session
  link,       \* the SSH channel: "up", "cut" (nobody noticed), "closed"
  requests,   \* requests on their way to the daemon
  wire,       \* messages on their way to the client
  served,     \* history: the requests that the daemon carried out
  reader,     \* the reader task, and where it is in handle_disconnect
  closed,     \* DaemonClientInner.closed
  pending,    \* DaemonClientInner.pending: ids
  nextId,     \* DaemonClient.next_id
  call,       \* actor -> the call it is in
  phase,      \* how far the opening has come; the handle's life after it
  subscriber, \* the handle's sender in pty_data_subscribers
  queue,      \* its channel: positions in sent
  dropped,    \* history: output events found the queue full
  events,     \* the handle's receiver of terminal events
  task,       \* the session's read task
  given,      \* history: what it handed on, positions in sent
  ended,      \* PersistentTerminalHandle.closed
  held,       \* the registry holds the session
  freed       \* the client's half of the channel has been dropped

daemon == <<sent, remote, requests, wire, served>>
calls == <<closed, pending, nextId, call>>
output == <<subscriber, queue, dropped, events, task, given>>
vars == <<daemon, link, reader, calls, phase, output, ended, held, freed>>

Actor == Caller \cup {Opener}
Id == 1 .. MaxCalls
CallOp == {"create", "attach", "input", "detach", "close"}
CallPc == {"idle", "insert", "write", "wait"}
CallRec == [op : CallOp \cup {"none"}, pc : CallPc, id : Id \cup {0},
            got : {"none", "ok", "error"}]
NoCall == [op |-> "none", pc |-> "idle", id |-> 0, got |-> "none"]
Refused(op) == [op |-> op, pc |-> "wait", id |-> 0, got |-> "error"]

(* The call has its result.                                                *)
Done(a) == call[a].pc = "wait" /\ call[a].got # "none"

Messages == [kind : Output \cup Terminals, from : 0 .. MaxUpto,
             upto : 0 .. MaxUpto, trunc : BOOLEAN]

(* What the daemon writes to the connection: the answer to a call, or the  *)
(* n-th message of the attach (the first is an answer and a message).      *)
Answer(id, got, n) == [id |-> id, got |-> got, n |-> n]
Event(n) == Answer(0, "none", n)

TypeOK ==
  /\ sent \in Seq(Messages)
  /\ remote \in {"none", "created", "attached", "detached", "lost", "closed"}
  /\ link \in {"up", "cut", "closed"}
  /\ requests \in Seq([id : Id, op : CallOp])
  /\ wire \in Seq([id : Id \cup {0}, got : {"none", "ok", "error"}, n : Nat])
  /\ served \subseteq [id : Id, op : CallOp]
  /\ reader \in {"run", "drain", "clear", "ended"}
  /\ closed \in BOOLEAN /\ pending \subseteq Id /\ nextId \in Nat \ {0}
  /\ call \in [Actor -> CallRec]
  /\ phase \in {"create", "subscribe", "attach", "handle", "open", "failed",
                "gone"}
  /\ subscriber \in {"none", "listed", "gone"}
  /\ queue \in Seq(Nat) /\ dropped \subseteq Nat /\ given \in Seq(Nat)
  /\ events \in {"none", "empty", "terminal"}
  /\ task \in {"none", "initial", "select", "ended"}
  /\ ended \in BOOLEAN /\ held \in BOOLEAN /\ freed \in BOOLEAN

FirstIdZero == 0   \* mutant: the id of handle_disconnect's answers is used
FirstId == 1

(* connect has spawned the reader task and said hello.  A session is       *)
(* created, or one that was left detached is attached.                     *)
Init ==
  /\ StreamInit
  /\ \/ phase = "create" /\ remote = "none"
     \/ phase = "subscribe" /\ remote = "detached"
  /\ link = "up" /\ reader = "run" /\ freed = FALSE
  /\ requests = <<>> /\ wire = <<>> /\ served = {}
  /\ closed = FALSE /\ pending = {} /\ nextId = FirstId
  /\ call = [a \in Actor |-> NoCall]
  /\ subscriber = "none" /\ queue = <<>> /\ dropped = {} /\ events = "none"
  /\ task = "none" /\ given = <<>>
  /\ ended = FALSE /\ held = FALSE
-----------------------------------------------------------------------------
(* The daemon and the network.                                             *)

(* The requests the session accepts, and what becomes of it.               *)
Accepts(op) ==
  CASE op = "create" -> remote = "none"
    [] op = "attach" -> remote \in {"created", "detached"}
    [] op = "detach" -> remote = "attached"
    [] op = "close"  -> remote \notin {"none", "closed"}
    [] op = "input"  -> remote \notin {"none", "closed", "lost"}
After(op) ==
  CASE op = "create" -> "created"
    [] op = "attach" -> "attached"
    [] op = "detach" -> "detached"
    [] op = "close"  -> "closed"
    [] op = "input"  -> remote

(* What is written on a connection that is not up is lost.                 *)
Put(m) == wire' = IF link = "up" THEN Append(wire, m) ELSE wire

(* A new shell may fail to start, and the input queue may stay full.       *)
Serve ==
  LET r == Head(requests) IN
  /\ requests # <<>> /\ requests' = Tail(requests)
  /\ \/ /\ Accepts(r.op)
        /\ remote' = After(r.op) /\ served' = served \cup {r}
        /\ IF r.op = "attach" /\ link = "up"
           THEN /\ \E m \in Messages :
                     /\ m.kind = "attached" /\ m.trunc = (m.from > 0)
                     /\ m.from <= MaxData
                     /\ m.upto \in m.from .. m.from + MaxData
                     /\ Send(m)
                /\ Put(Answer(r.id, "ok", 1))
           ELSE UNCHANGED sent /\ Put(Answer(r.id, "ok", 0))
     \/ /\ ~Accepts(r.op) \/ r.op \in {"create", "input"}
        /\ Put(Answer(r.id, "error", 0))
        /\ UNCHANGED <<remote, served, sent>>
  /\ UNCHANGED <<link, reader, calls, phase, output, ended, held, freed>>

(* The event pump sends what AttachStream allows.  (What is sent to a      *)
(* client that has gone changes nothing and is left out.)                  *)
Push ==
  /\ link = "up" /\ sent # <<>> /\ phase \notin {"failed", "gone"}
  /\ \E m \in Messages :
       /\ IF m.kind = "data"
          THEN /\ m.upto \in m.from + 1 .. m.from + MaxData
               /\ m.from <= sent[Len(sent)].upto + MaxData
          ELSE /\ remote \in {"lost", "closed"}
               /\ m.from = 0 /\ m.upto = 0 /\ ~m.trunc
       /\ Send(m)
  /\ wire' = Append(wire, Event(Len(sent')))
  /\ UNCHANGED <<remote, requests, served, link, reader, calls, phase, output,
                 ended, held, freed>>

ShellEnds ==
  /\ remote \in {"created", "attached", "detached"}
  /\ remote' = "lost"
  /\ UNCHANGED <<sent, requests, wire, served, link, reader, calls, phase,
                 output, ended, held, freed>>

(* The network fails, and TCP may or may not tell.                         *)
LinkFails ==
  /\ link # "closed" /\ link' \in {"cut", "closed"} \ {link}
  /\ UNCHANGED <<daemon, reader, calls, phase, output, ended, held, freed>>

(* The daemon's end of the connection ends, its session is reset.          *)
DaemonNotices ==
  /\ link # "up"
  /\ requests' = <<>>
  /\ remote' = IF remote = "attached" THEN "detached" ELSE remote
  /\ requests # <<>> \/ remote = "attached"
  /\ UNCHANGED <<sent, wire, served, link, reader, calls, phase, output, ended,
                 held, freed>>
-----------------------------------------------------------------------------
(* DaemonClient::call.                                                     *)

CallIs(a, c) == call' = [call EXCEPT ![a] = c]
CallTo(a, pc) == call' = [call EXCEPT ![a].pc = pc]

ReuseId(a, op) ==   \* mutant: an id is taken again
  IF closed
  THEN /\ CallIs(a, Refused(op))
       /\ UNCHANGED nextId
  ELSE /\ CallIs(a, [NoCall EXCEPT !.op = op, !.pc = "insert",
                                   !.id = CHOOSE i \in Id : i \notin pending])
       /\ UNCHANGED nextId

(* The closed flag is looked at, and an id is taken.                       *)
StartCall(a, op) ==
  IF closed
  THEN /\ CallIs(a, Refused(op))
       /\ UNCHANGED nextId
  ELSE /\ nextId <= MaxCalls
       /\ CallIs(a, [NoCall EXCEPT !.op = op, !.pc = "insert", !.id = nextId])
       /\ nextId' = nextId + 1

Insert(a) ==
  /\ call[a].pc = "insert"
  /\ pending' = pending \cup {call[a].id}
  /\ CallTo(a, "write")
  /\ UNCHANGED <<daemon, link, reader, closed, nextId, phase, output, ended,
                 held, freed>>

(* The request is written: sent, lost on a connection that is dead, or     *)
(* refused once the end of the channel is known.                           *)
Write(a) ==
  /\ call[a].pc = "write"
  /\ \/ /\ link # "closed"
        /\ requests' = IF link = "cut" THEN requests ELSE
             Append(requests, [id |-> call[a].id, op |-> call[a].op])
        /\ CallTo(a, "wait") /\ UNCHANGED <<pending, closed>>
     \/ /\ link # "up"
        /\ pending' = pending \ {call[a].id} /\ closed' = TRUE
        /\ CallIs(a, Refused(call[a].op))
        /\ UNCHANGED requests
  /\ UNCHANGED <<sent, remote, wire, served, link, reader, nextId, phase,
                 output, ended, held, freed>>

TimeoutKeepingId(a) ==   \* mutant: the id stays in the table
  /\ call[a].pc = "wait" /\ call[a].got = "none"
  /\ CallIs(a, Refused(call[a].op))
  /\ UNCHANGED <<daemon, link, reader, closed, pending, nextId, phase, output,
                 ended, held, freed>>

(* 30 s without an answer.                                                 *)
Timeout(a) ==
  /\ call[a].pc = "wait" /\ call[a].got = "none"
  /\ pending' = pending \ {call[a].id}
  /\ CallIs(a, Refused(call[a].op))
  /\ UNCHANGED <<daemon, link, reader, closed, nextId, phase, output, ended,
                 held, freed>>

CallStep(a) ==
  Insert(a) \/ Write(a) \/ Timeout(a)
-----------------------------------------------------------------------------
(* The reader task.                                                        *)

(* The calls whose ids are in S get an answer.                             *)
Deliver(S, got) ==
  /\ call' = [a \in Actor |->
       IF call[a].id \in S THEN [call[a] EXCEPT !.got = got] ELSE call[a]]
  /\ pending' = pending \ S

(* An answer nobody waits for any more is ignored.                         *)
DispatchAnswer ==
  /\ reader = "run" /\ wire # <<>> /\ Head(wire).id # 0
  /\ Deliver(pending \cap {Head(wire).id}, Head(wire).got)
  /\ wire' = Tail(wire)
  /\ UNCHANGED <<sent, remote, requests, served, link, reader, closed, nextId,
                 phase, output, ended, held, freed>>

(* Output goes to the queue if there is room, and is dropped otherwise; a  *)
(* terminal event goes to whoever has subscribed by now.                   *)
DispatchEvent ==
  /\ reader = "run" /\ wire # <<>> /\ Head(wire).id = 0
  /\ LET n == Head(wire).n
         isData == sent[n].kind = "data"
         full == Len(queue) = QueueSize
     IN
     /\ queue' = IF isData /\ subscriber = "listed" /\ ~full
                 THEN Append(queue, n) ELSE queue
     /\ dropped' = IF isData /\ subscriber = "listed" /\ full
                   THEN dropped \cup {n} ELSE dropped
     /\ events' = IF ~isData /\ events # "none" THEN "terminal" ELSE events
  /\ wire' = Tail(wire)
  /\ UNCHANGED <<sent, remote, requests, served, link, reader, calls, phase,
                 subscriber, task, given, ended, held, freed>>

(* handle_disconnect: the flag, then the pending calls, then the queue.    *)
ReaderEof ==
  /\ reader = "run" /\ link = "closed"
  /\ closed' = TRUE /\ reader' = "drain"
  /\ UNCHANGED <<daemon, link, pending, nextId, call, phase, output, ended,
                 held, freed>>

ReaderDrain ==
  /\ reader = "drain" /\ reader' = "clear"
  /\ Deliver(pending, "error")
  /\ UNCHANGED <<daemon, link, closed, nextId, phase, output, ended, held,
                 freed>>

ClearNothing ==   \* mutant: the subscribers keep their queues
  /\ reader = "clear" /\ reader' = "ended"
  /\ UNCHANGED <<daemon, link, calls, phase, output, ended, held, freed>>

ReaderClear ==
  /\ reader = "clear" /\ reader' = "ended"
  /\ subscriber' = IF subscriber = "listed" THEN "gone" ELSE subscriber
  /\ UNCHANGED <<daemon, link, calls, phase, queue, dropped, events, task,
                 given, ended, held, freed>>

ReaderStep == DispatchAnswer \/ DispatchEvent \/ ReaderEof \/ ReaderDrain
                \/ ReaderClear
-----------------------------------------------------------------------------
(* PersistentProvider::open, attach_remote_session: create, subscribe to   *)
(* the output, attach, make the handle.                                    *)

Open(before, after) == phase = before /\ phase' = after
OpenerCalls(op) ==
  /\ call[Opener].pc = "idle"
  /\ StartCall(Opener, op)
OpenerAnswered(got) ==
  /\ Done(Opener) /\ call[Opener].got = got
  /\ CallIs(Opener, NoCall) /\ UNCHANGED nextId
QuietOpen == UNCHANGED <<daemon, link, reader, closed, pending, queue, dropped,
                         given, ended, freed>>

CreateSession ==
  /\ \/ Open("create", "create") /\ OpenerCalls("create")
     \/ Open("create", "subscribe") /\ OpenerAnswered("ok")
     \/ Open("create", "failed") /\ OpenerAnswered("error")
  /\ QuietOpen /\ UNCHANGED <<subscriber, events, task, held>>

SubscribeData ==
  /\ Open("subscribe", "attach")
  /\ subscriber' = "listed"
  /\ QuietOpen /\ UNCHANGED <<nextId, call, events, task, held>>

(* If the attach fails the client and the subscription are dropped.        *)
AttachSession ==
  /\ phase = "attach"
  /\ \/ /\ OpenerCalls("attach") /\ UNCHANGED <<phase, subscriber>>
     \/ /\ OpenerAnswered("ok") /\ phase' = "handle" /\ UNCHANGED subscriber
     \/ /\ OpenerAnswered("error") /\ phase' = "failed"
        /\ subscriber' = "gone"
  /\ QuietOpen /\ UNCHANGED <<events, task, held>>

(* PersistentTerminalHandle::new subscribes to terminal events; Session    *)
(* ::new starts the read task.                                             *)
NewHandle ==
  /\ Open("handle", "open")
  /\ events' = "empty" /\ task' = "initial" /\ held' = TRUE
  /\ QuietOpen /\ UNCHANGED <<nextId, call, subscriber>>
-----------------------------------------------------------------------------
(* The handle in the hands of the session manager's callers.               *)

Idle(a) == phase = "open" /\ call[a].pc = "idle"
QuietUse == UNCHANGED <<daemon, link, reader, closed, pending, phase,
                        subscriber, queue, dropped, events, given, freed>>

(* send_input, send_control, resize.                                       *)
Input(a) ==
  /\ Idle(a) /\ held
  /\ StartCall(a, "input")
  /\ QuietUse /\ UNCHANGED <<task, ended, held>>

(* detach_session.  The handle's flag lets one detach or close through;    *)
(* the others are answered ok at once, and the registry lets go.           *)
Detach(a) ==
  /\ Idle(a) /\ held
  /\ ended' = TRUE
  /\ IF ended THEN held' = FALSE /\ UNCHANGED <<nextId, call>>
              ELSE StartCall(a, "detach") /\ UNCHANGED held
  /\ QuietUse /\ UNCHANGED task

CloseUnasked(a) ==   \* mutant: close does not look at the handle's flag
  /\ Idle(a) /\ held
  /\ held' = FALSE /\ task' = "ended" /\ ended' = TRUE
  /\ StartCall(a, "close")
  /\ QuietUse

(* close_session: the registry lets go, the read task is aborted.          *)
Close(a) ==
  /\ Idle(a) /\ held
  /\ held' = FALSE /\ task' = "ended" /\ ended' = TRUE
  /\ IF ended THEN UNCHANGED <<nextId, call>> ELSE StartCall(a, "close")
  /\ QuietUse

(* The call returns; a detach that succeeded removes the session.          *)
Return(a) ==
  /\ phase = "open" /\ Done(a)
  /\ held' = (held /\ ~(call[a].op = "detach" /\ call[a].got = "ok"))
  /\ CallIs(a, NoCall)
  /\ QuietUse /\ UNCHANGED <<nextId, task, ended>>

(* The last reference to the handle goes, and the read task with it.       *)
DropHandle ==
  /\ phase = "open" /\ ~held /\ \A a \in Caller : call[a].pc = "idle"
  /\ phase' = "gone" /\ task' = "ended"
  /\ subscriber' = "gone" /\ queue' = <<>>
  /\ UNCHANGED <<daemon, link, reader, calls, dropped, events, given, ended,
                 held, freed>>

(* The client's half of the channel lives in DaemonClientInner, which the  *)
(* reader task shares: the channel closes when the last of them is gone.   *)
Release ==
  /\ phase \in {"failed", "gone"} /\ reader = "ended" /\ ~freed
  /\ freed' = TRUE /\ link' = "closed"
  /\ UNCHANGED <<daemon, reader, calls, phase, output, ended, held>>
-----------------------------------------------------------------------------
(* The read task: PersistentTerminalHandle::read, again and again.         *)

QuietRead == UNCHANGED <<daemon, link, reader, calls, phase, subscriber,
                         dropped, events, ended, held, freed>>

ForgetInitial ==   \* mutant: what the attach answered is not handed on
  /\ task = "initial" /\ task' = "select"
  /\ QuietRead /\ UNCHANGED <<given, queue>>

(* First what the attach answered, unless it is empty.                     *)
ReadInitial ==
  /\ task = "initial" /\ task' = "select"
  /\ given' = IF sent[1].from < sent[1].upto THEN Append(given, 1) ELSE given
  /\ QuietRead /\ UNCHANGED queue

ReadQueue ==
  /\ task = "select" /\ queue # <<>>
  /\ given' = Append(given, Head(queue)) /\ queue' = Tail(queue)
  /\ QuietRead /\ UNCHANGED task

(* select! takes either branch when both are ready: the end may overtake   *)
(* what is queued.                                                         *)
ReadEnd ==
  /\ task = "select"
  /\ events = "terminal" \/ (subscriber = "gone" /\ queue = <<>>)
  /\ task' = "ended"
  /\ QuietRead /\ UNCHANGED <<given, queue>>

ReadStep == ReadInitial \/ ReadQueue \/ ReadEnd
-----------------------------------------------------------------------------
OpenerStep == CreateSession \/ SubscribeData \/ AttachSession \/ NewHandle
CallerStep(a) == Input(a) \/ Detach(a) \/ Close(a) \/ Return(a)

Next ==
  \/ Serve \/ Push \/ ShellEnds \/ LinkFails \/ DaemonNotices
  \/ ReaderStep \/ OpenerStep \/ ReadStep \/ DropHandle \/ Release
  \/ \E a \in Actor : CallStep(a)
  \/ \E a \in Caller : CallerStep(a)

(* Tasks run, and what nobody refers to is freed.  Nothing is asked of the *)
(* calls: a write may block for ever.  The daemon, the network and the     *)
(* callers owe nothing.                                                    *)
Fairness == WF_vars(ReaderStep) /\ WF_vars(ReadStep) /\ WF_vars(Release)

Spec == Init /\ [][Next]_vars /\ Fairness
-----------------------------------------------------------------------------
(* What the read task hands to the session's buffer is the output in       *)
(* order, each piece once; between two pieces output is missing only where *)
(* the daemon's buffer overflowed or the queue was full.                   *)
Before(i) == IF i = 1 THEN 1 ELSE given[i - 1]
GivenJoins ==
  \A i \in 1 .. Len(given) :
    LET p == Before(i)
        n == given[i]
        upto == IF i = 1 THEN sent[1].from ELSE sent[p].upto
    IN  /\ n \in 1 .. Len(sent) /\ (i > 1 => p < n)
        /\ \/ sent[n].from = upto
           \/ /\ sent[n].from > upto
              /\ sent[n].trunc \/ \E k \in p + 1 .. n - 1 : k \in dropped

(* A call that was answered ok was carried out, and it was this call: a    *)
(* late answer never counts for a later one.                               *)
OkMeansServed ==
  \A a \in Actor :
    call[a].got = "ok" => [id |-> call[a].id, op |-> call[a].op] \in served

(* The table of pending calls holds no more than the calls in progress,    *)
(* whatever timed out, failed or was cut off.                              *)
PendingIsWaiting ==
  \A id \in pending : \E a \in Actor :
    call[a].id = id /\ call[a].pc \in {"write", "wait"}

(* Ids bind calls and answers, both ways.                                  *)
CallsAnswered == TypeOK /\ OkMeansServed /\ PendingIsWaiting

(* A shell that was detached to be kept is not closed by a caller that     *)
(* closes the same handle at the same time or later.                       *)
DetachedIsKept ==
  [][remote = "detached" => remote' # "closed"]_vars

(* read() ends once the terminal event has arrived or the connection is    *)
(* known to be lost.                                                       *)
ReadEnds ==
  (task = "select" /\ (events = "terminal" \/ reader = "ended"))
    ~> task = "ended"
=============================================================================
