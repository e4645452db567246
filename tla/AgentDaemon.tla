---------------------------- MODULE AgentDaemon ----------------------------
(***************************************************************************)
(* One session of the remote daemon (agentd/src/session.rs) with the       *)
(* connections that attach to it (agentd/src/rpc.rs): the thread that      *)
(* reads the PTY, the request loop of each connection, and the event pump  *)
(* each attach starts.  They run concurrently; the session's fields have a *)
(* lock each, so a request handler is as many steps as it takes locks.     *)
(*                                                                         *)
(* Output is modelled by positions: byte number i of the PTY's output is   *)
(* the i-th byte of the stream, and a chunk is the pair of cursors around  *)
(* it.  The ring that holds the bytes is the one proved in OutputRing.     *)
(* A connection attaches at most once, as DaemonClient does: each attach   *)
(* opens its own.  Sessions share no state, so one is enough.              *)
(***************************************************************************)
EXTENDS Integers, Sequences, SequencesExt

CONSTANTS
  Conn,       \* connections
  Size,       \* capacity of the session's ring buffer
  MaxRead,    \* bound: bytes of one read from the PTY
  MaxWritten, \* bound: bytes the PTY ever outputs
  Cursors,    \* bound: the cursors an attach may ask for
  Vanishing,  \* bound: the connections whose client may vanish
  AnyClient,  \* whether a connection may detach or close a session that it
              \* did not attach, which the daemon allows and TermBridge's
              \* own client never does
  Ending,     \* how a shell may end, of "exited", "failed"
  Watched,    \* the connections whose liveness is checked: they are all
              \* alike, so one is enough
  NoConn      \* the owner of a session nobody attached

ASSUME DaemonAssumption ==
  /\ Size \in Nat \ {0} /\ MaxRead \in Nat \ {0} /\ MaxWritten \in Nat
  /\ Cursors \subseteq Nat /\ AnyClient \in BOOLEAN /\ Watched \subseteq Conn
  /\ Ending \subseteq {"exited", "failed"}
  /\ NoConn \notin Conn

VARIABLES
  entry,      \* the session in the manager's map: "none", "live", "removed"
  state,      \* Session.state
  total,      \* bytes written to the session's buffer
  terminal,   \* Session.terminal: how the shell ended
  epoch,      \* Session.pump_epoch
  permit,     \* the permit stored in Session.pump_notify
  reader,     \* where the PTY read thread is
  job,        \* Conn -> the request the connection's task is executing
  alive,      \* Conn -> the client is still there
  listed,     \* Conn -> the session is in attached_sessions
  reply,      \* Conn -> the attach result being prepared, and its epoch
  pump,       \* Conn -> the event pump its attach started
  net,        \* Conn -> messages written to the connection, oldest first
  owner       \* history: the connection whose attach last succeeded

session == <<entry, state, total, terminal, epoch, reader>>
vars == <<entry, state, total, terminal, epoch, permit, reader,
          job, alive, listed, reply, pump, net, owner>>

Terminals == Ending \cup {"closed"}

(* What travels to the client: an attach response or a pty_data event, the *)
(* bytes between two cursors; or a terminal event.                         *)
Chunk(kind, from, upto, trunc) ==
  [kind |-> kind, from |-> from, upto |-> upto, trunc |-> trunc]
Terminal(kind) == Chunk(kind, 0, 0, FALSE)
Message == [kind : {"attached", "data"} \cup Terminals,
            from : Nat, upto : Nat, trunc : BOOLEAN]

NoReply == [since |-> 0, from |-> 0, upto |-> 0, epoch |-> 0]
NoPump == [pc |-> "none", epoch |-> 0, sent |-> 0, from |-> 0, upto |-> 0]

ReplyRec == [since : Nat, from : Nat, upto : Nat, epoch : Nat]
PumpPc == {"none", "check", "flush", "send", "contains", "closed", "state",
           "terminal", "wait", "ended"}
PumpRec == [pc : PumpPc, epoch : Nat, sent : Nat, from : Nat, upto : Nat]

Running(c) == pump[c].pc \notin {"none", "ended"}

TypeOK ==
  /\ entry \in {"none", "live", "removed"}
  /\ state \in {"created", "attached", "detached", "lost"}
  /\ total \in Nat /\ epoch \in Nat /\ permit \in BOOLEAN
  /\ terminal \in Ending \cup {"none"}
  /\ reader \in {"none", "read", "wrote", "ending", "flipped", "done"}
  /\ job \in [Conn -> {"idle", "bump", "snapshot", "epoch", "respond",
                       "exit", "gone"}]
  /\ alive \in [Conn -> BOOLEAN] /\ listed \in [Conn -> BOOLEAN]
  /\ reply \in [Conn -> ReplyRec] /\ pump \in [Conn -> PumpRec]
  /\ net \in [Conn -> Seq(Message)]
  /\ owner \in Conn \cup {NoConn}

Init ==
  /\ entry = "none" /\ state = "created"
  /\ total = 0 /\ epoch = 0 /\ permit = FALSE
  /\ terminal = "none" /\ reader = "none"
  /\ job = [c \in Conn |-> "idle"]
  /\ alive = [c \in Conn |-> TRUE] /\ listed = [c \in Conn |-> FALSE]
  /\ reply = [c \in Conn |-> NoReply] /\ pump = [c \in Conn |-> NoPump]
  /\ net = [c \in Conn |-> <<>>]
  /\ owner = NoConn

(* read_since: where a read from cursor c starts.                          *)
Oldest == IF total > Size THEN total - Size ELSE 0
StartOf(c) == IF c > Oldest THEN c ELSE Oldest
-----------------------------------------------------------------------------
(* The PTY read thread (pty_read_loop).                                    *)

ReadPty(n) ==
  /\ reader = "read" /\ total + n <= MaxWritten
  /\ total' = total + n /\ reader' = "wrote"
  /\ UNCHANGED <<entry, state, terminal, epoch, permit, job, alive, listed,
                 reply, pump, net, owner>>

(* End of file or EIO ("exited", with a code if the child could be reaped  *)
(* in time), or a read error: the terminal information is stored before    *)
(* the state changes.                                                      *)
ReadEndUnrecorded(how) ==   \* mutant: nothing is recorded
  /\ reader = "read" /\ how \in Ending
  /\ reader' = "ending"
  /\ UNCHANGED <<entry, state, total, terminal, epoch, permit, job, alive,
                 listed, reply, pump, net, owner>>

ReadEnd(how) ==
  /\ reader = "read"
  /\ terminal' = how /\ reader' = "ending"
  /\ UNCHANGED <<entry, state, total, epoch, permit, job, alive, listed,
                 reply, pump, net, owner>>

FlipToTerminal ==   \* mutant: the ending lands in the state
  /\ reader = "ending"
  /\ state' = terminal /\ reader' = "flipped"
  /\ UNCHANGED <<entry, total, terminal, epoch, permit, job, alive, listed,
                 reply, pump, net, owner>>

FlipLost ==
  /\ reader = "ending"
  /\ state' = "lost" /\ reader' = "flipped"
  /\ UNCHANGED <<entry, total, terminal, epoch, permit, job, alive, listed,
                 reply, pump, net, owner>>

NotifyPump ==
  /\ reader \in {"wrote", "flipped"}
  /\ reader' = IF reader = "wrote" THEN "read" ELSE "done"
  /\ permit' = TRUE
  /\ UNCHANGED <<entry, state, total, terminal, epoch, job, alive, listed,
                 reply, pump, net, owner>>
-----------------------------------------------------------------------------
(* Requests of connection c.  A refused request changes nothing.           *)

Ready(c) == alive[c] /\ job[c] = "idle"

Create(c) ==
  /\ Ready(c) /\ entry = "none"
  /\ entry' = "live" /\ reader' = "read"
  /\ UNCHANGED <<state, total, terminal, epoch, permit, job, alive, listed,
                 reply, pump, net, owner>>

(* session.attach: the state under its lock, then the epoch, then the read *)
(* of the buffer, then the epoch again for the pump to be started.         *)
Attach(c, since) ==
  /\ Ready(c) /\ net[c] = <<>> /\ entry = "live"
  /\ state \in {"created", "detached"}
  /\ state' = "attached" /\ owner' = c
  /\ job' = [job EXCEPT ![c] = "bump"]
  /\ reply' = [reply EXCEPT ![c].since = since]
  /\ UNCHANGED <<entry, total, terminal, epoch, permit, reader, alive, listed,
                 pump, net>>

NoBumpEpoch(c) ==   \* mutant: the previous attach's pump stays valid
  /\ job[c] = "bump"
  /\ job' = [job EXCEPT ![c] = "snapshot"]
  /\ UNCHANGED <<session, permit, alive, listed, reply, pump, net, owner>>

BumpEpoch(c) ==
  /\ job[c] = "bump"
  /\ epoch' = epoch + 1
  /\ job' = [job EXCEPT ![c] = "snapshot"]
  /\ UNCHANGED <<entry, state, total, terminal, permit, reader, alive, listed,
                 reply, pump, net, owner>>

Snapshot(c) ==
  /\ job[c] = "snapshot"
  /\ job' = [job EXCEPT ![c] = "epoch"]
  /\ reply' = [reply EXCEPT ![c].from = StartOf(reply[c].since),
                            ![c].upto = total]
  /\ UNCHANGED <<session, permit, alive, listed, pump, net, owner>>

ReadEpochEarly(c) ==   \* mutant: the epoch of before the attach is kept
  /\ job[c] = "epoch"
  /\ IF entry = "live"
     THEN /\ listed' = [listed EXCEPT ![c] = TRUE]
          /\ reply' = [reply EXCEPT ![c].epoch = epoch - 1]
          /\ job' = [job EXCEPT ![c] = "respond"]
     ELSE /\ job' = [job EXCEPT ![c] = "idle"]
          /\ UNCHANGED <<listed, reply>>
  /\ UNCHANGED <<session, permit, alive, pump, net, owner>>

ReadEpochUnlisted(c) ==   \* mutant: the attach is not recorded
  /\ job[c] = "epoch"
  /\ IF entry = "live"
     THEN /\ UNCHANGED listed
          /\ reply' = [reply EXCEPT ![c].epoch = epoch]
          /\ job' = [job EXCEPT ![c] = "respond"]
     ELSE /\ job' = [job EXCEPT ![c] = "idle"]
          /\ UNCHANGED <<listed, reply>>
  /\ UNCHANGED <<session, permit, alive, pump, net, owner>>

(* The session is looked up again; if it was closed meanwhile the request  *)
(* fails, and neither a pump is started nor the attach recorded.           *)
ReadEpoch(c) ==
  /\ job[c] = "epoch"
  /\ IF entry = "live"
     THEN /\ listed' = [listed EXCEPT ![c] = TRUE]
          /\ reply' = [reply EXCEPT ![c].epoch = epoch]
          /\ job' = [job EXCEPT ![c] = "respond"]
     ELSE /\ job' = [job EXCEPT ![c] = "idle"]
          /\ UNCHANGED <<listed, reply>>
  /\ UNCHANGED <<session, permit, alive, pump, net, owner>>

RespondFromTotal(c) ==   \* mutant: the pump starts at what is written by now
  LET r == reply[c] IN
  /\ job[c] = "respond"
  /\ job' = [job EXCEPT ![c] = "idle"]
  /\ net' = [net EXCEPT ![c] =
               Append(@, Chunk("attached", r.from, r.upto, r.from # r.since))]
  /\ pump' = [pump EXCEPT ![c] = [NoPump EXCEPT !.pc = "check",
                                  !.epoch = r.epoch, !.sent = total]]
  /\ UNCHANGED <<session, permit, alive, listed, reply, owner>>

(* The response is written, then the pump is spawned; if the write fails   *)
(* the connection's task leaves its loop.                                  *)
Respond(c) ==
  LET r == reply[c] IN
  /\ job[c] = "respond"
  /\ \/ /\ job' = [job EXCEPT ![c] = "idle"]
        /\ net' = [net EXCEPT ![c] =
             Append(@, Chunk("attached", r.from, r.upto, r.from # r.since))]
        /\ pump' = [pump EXCEPT ![c] = [NoPump EXCEPT !.pc = "check",
                                  !.epoch = r.epoch, !.sent = r.upto]]
     \/ /\ ~alive[c]
        /\ job' = [job EXCEPT ![c] = "exit"]
        /\ UNCHANGED <<net, pump>>
  /\ reply' = [reply EXCEPT ![c] = NoReply]
  /\ UNCHANGED <<session, permit, alive, listed, owner>>

(* SessionManager::detach, also used by the cleanup of a connection.       *)
SetDetached ==
  /\ entry = "live" /\ state = "attached"
  /\ state' = "detached" /\ permit' = TRUE

DetachKeepsListed(c) ==   \* mutant: the connection still lists the session
  /\ Ready(c) /\ (AnyClient \/ listed[c])
  /\ SetDetached
  /\ UNCHANGED <<entry, total, terminal, epoch, reader, job, alive, listed,
                 reply, pump, net, owner>>

Detach(c) ==
  /\ Ready(c) /\ (AnyClient \/ listed[c])
  /\ SetDetached
  /\ listed' = [listed EXCEPT ![c] = FALSE]
  /\ UNCHANGED <<entry, total, terminal, epoch, reader, job, alive, reply, pump,
                 net, owner>>

(* session.close: the map entry goes first; the killed child's end of file *)
(* reaches the read thread like any other.                                 *)
Close(c) ==
  /\ Ready(c) /\ (AnyClient \/ listed[c]) /\ entry = "live"
  /\ entry' = "removed" /\ permit' = TRUE
  /\ listed' = [listed EXCEPT ![c] = FALSE]
  /\ UNCHANGED <<state, total, terminal, epoch, reader, job, alive, reply, pump,
                 net, owner>>

(* The client goes away, or the network drops it.                          *)
Disconnect(c) ==
  /\ alive[c]
  /\ alive' = [alive EXCEPT ![c] = FALSE]
  /\ UNCHANGED <<session, permit, job, listed, reply, pump, net, owner>>

(* The connection's task notices, and resets the session it attached.      *)
ConnExit(c) ==
  /\ ~alive[c] /\ job[c] \in {"idle", "exit"}
  /\ job' = [job EXCEPT ![c] = "gone"]
  /\ listed' = [listed EXCEPT ![c] = FALSE]
  /\ \/ listed[c] /\ SetDetached
     \/ /\ ~(listed[c] /\ entry = "live" /\ state = "attached")
        /\ UNCHANGED <<state, permit>>
  /\ UNCHANGED <<entry, total, terminal, epoch, reader, alive, reply, pump, net,
                 owner>>
-----------------------------------------------------------------------------
(* The event pump of connection c (event_pump).                            *)

PumpAt(c, pc) == pump[c].pc = pc
PumpTo(c, pc) == pump' = [pump EXCEPT ![c].pc = pc]
PumpEnds(c) == pump' = [pump EXCEPT ![c] = [NoPump EXCEPT !.pc = "ended"]]
Rest(c) == UNCHANGED <<session, job, alive, listed, reply, owner>>

(* A pump of an older attach gives up.                                     *)
PumpCheck(c) ==
  /\ PumpAt(c, "check")
  /\ IF pump[c].epoch = epoch THEN PumpTo(c, "flush") ELSE PumpEnds(c)
  /\ Rest(c) /\ UNCHANGED <<permit, net>>

PumpFlush(c) ==
  /\ PumpAt(c, "flush")
  /\ IF pump[c].sent < total
     THEN pump' = [pump EXCEPT ![c].pc = "send", ![c].upto = total,
                               ![c].from = StartOf(pump[c].sent)]
     ELSE PumpTo(c, "contains")
  /\ Rest(c) /\ UNCHANGED <<permit, net>>

PumpSendAgain(c) ==   \* mutant: the cursor is not moved after a write
  LET p == pump[c] IN
  /\ PumpAt(c, "send")
  /\ \/ /\ net' = [net EXCEPT ![c] =
             Append(@, Chunk("data", p.from, p.upto, p.from # p.sent))]
        /\ PumpTo(c, "contains")
     \/ /\ ~alive[c]
        /\ PumpEnds(c) /\ UNCHANGED net
  /\ Rest(c) /\ UNCHANGED permit

(* The write waits for its turn on the connection and for the client to    *)
(* read; on a dead connection it fails, or is lost in the socket's buffer. *)
PumpSend(c) ==
  LET p == pump[c] IN
  /\ PumpAt(c, "send")
  /\ \/ /\ net' = [net EXCEPT ![c] =
             Append(@, Chunk("data", p.from, p.upto, p.from # p.sent))]
        /\ pump' = [pump EXCEPT ![c] = [NoPump EXCEPT !.pc = "contains",
                                  !.epoch = p.epoch, !.sent = p.upto]]
     \/ /\ ~alive[c]
        /\ PumpEnds(c) /\ UNCHANGED net
  /\ Rest(c) /\ UNCHANGED permit

PumpContains(c) ==
  /\ PumpAt(c, "contains")
  /\ PumpTo(c, IF entry = "live" THEN "state" ELSE "closed")
  /\ Rest(c) /\ UNCHANGED <<permit, net>>

PumpStateQuiet(c) ==   \* mutant: a lost session ends the pump like a detach
  /\ PumpAt(c, "state")
  /\ IF state = "attached" THEN PumpTo(c, "wait") ELSE PumpEnds(c)
  /\ Rest(c) /\ UNCHANGED <<permit, net>>

PumpState(c) ==
  /\ PumpAt(c, "state")
  /\ CASE state = "attached" -> PumpTo(c, "wait")
       [] state = "lost"     -> PumpTo(c, "terminal")
       [] OTHER              -> PumpEnds(c)
  /\ Rest(c) /\ UNCHANGED <<permit, net>>

(* One terminal event: session_lost if the session was closed or its end   *)
(* is unknown, otherwise what the read thread recorded.                    *)
SayTerminal(c) ==
  /\ PumpAt(c, "terminal") \/ PumpAt(c, "closed")
  /\ net' = [net EXCEPT ![c] = Append(@, Terminal(
                IF PumpAt(c, "closed") \/ terminal = "none" THEN "closed"
                ELSE terminal))]
  /\ PumpEnds(c)
  /\ Rest(c) /\ UNCHANGED permit

WakeByPermit(c) ==   \* mutant: the pump relies on the permit alone
  /\ PumpAt(c, "wait") /\ permit
  /\ PumpTo(c, "check") /\ permit' = FALSE
  /\ Rest(c) /\ UNCHANGED net

(* The pump waits for the permit or for 200 ms.  Every pump of the session *)
(* waits on the same permit, and the first one takes it.                   *)
PumpWake(c) ==
  /\ PumpAt(c, "wait")
  /\ permit' \in {FALSE, permit}
  /\ PumpTo(c, "check")
  /\ Rest(c) /\ UNCHANGED net

PumpStep(c) ==
  \/ PumpCheck(c) \/ PumpFlush(c) \/ PumpSend(c) \/ PumpContains(c)
  \/ PumpState(c) \/ SayTerminal(c) \/ PumpWake(c)

JobStep(c) == BumpEpoch(c) \/ Snapshot(c) \/ ReadEpoch(c) \/ Respond(c)

Next ==
  \/ \E n \in 1 .. MaxRead : ReadPty(n)
  \/ \E how \in Ending : ReadEnd(how)
  \/ FlipLost \/ NotifyPump
  \/ \E c \in Conn :
       \/ Create(c)
       \/ \E since \in 0 .. total : since \in Cursors /\ Attach(c, since)
       \/ JobStep(c)
       \/ Detach(c) \/ Close(c) \/ ConnExit(c)
       \/ c \in Vanishing /\ Disconnect(c)
       \/ PumpStep(c)

(* Threads and tasks run; a client that is alive reads, so its pump's      *)
(* write completes.  Clients, the shell and the network owe nothing.       *)
Fairness ==
  /\ WF_vars(FlipLost) /\ WF_vars(NotifyPump)
  /\ \A c \in Conn :
       WF_vars(JobStep(c)) /\ WF_vars(PumpStep(c)) /\ WF_vars(ConnExit(c))

Spec == Init /\ [][Next]_vars /\ Fairness
-----------------------------------------------------------------------------
(* What a connection receives is the session's output from the cursor it   *)
(* asked for: the attach response and the events after it join up, across  *)
(* writes that happen while the response is on its way; bytes are skipped  *)
(* only where the buffer overflowed and the event says so; nothing is sent *)
(* after a terminal event.                                                 *)
Stream(c) == INSTANCE AttachStream WITH sent <- net[c]
StreamContiguous ==
  \A c \in Conn : \A i \in 2 .. Len(net[c]) :
    Stream(c)!Follows(net[c][i - 1], net[c][i])

(* Each connection's messages are those of an AttachStream: an attach is   *)
(* answered first, and no step takes back or inserts a message.  (This is  *)
(* \A c \in Conn : Stream(c)!StreamSpec in the form that TLC checks.)      *)
ImplementsStream ==
  /\ \A c \in Conn : Stream(c)!StreamInit
  /\ [][\A c \in Conn : [Stream(c)!StreamNext]_(net[c])]_vars

(* A pump that sees the state lost finds the reason recorded: the fallback *)
(* "pty eof" of event_pump is never what a client is told.                 *)
TerminalRecorded == state = "lost" => terminal # "none"

(* However a pump ends, the client it served has been told that the        *)
(* session is over, or has left: a connection that is still attached is    *)
(* never left without its pump.                                            *)
Told(c) == \E i \in 1 .. Len(net[c]) : net[c][i].kind \in Terminals
EndedMeansTold ==
  \A c \in Conn :
    PumpAt(c, "ended") /\ alive[c] /\ listed[c] => Told(c)

(* Of the pumps that run at most one belongs to the latest attach: after a *)
(* detach and a new attach the old pump gives up.                          *)
OneCurrentPump ==
  \A c, d \in Conn :
    Running(c) /\ Running(d) /\ pump[c].epoch = epoch /\ pump[d].epoch = epoch
      => c = d

(* What the clients of a session are told is whole: the stream joins up,   *)
(* one pump sends it, and its end is the true one and reaches every client *)
(* that is still attached.                                                 *)
ClientsTold == /\ TypeOK /\ StreamContiguous /\ OneCurrentPump
               /\ TerminalRecorded /\ EndedMeansTold

(* A connection that ends resets only a session that it attached itself:   *)
(* "the sessions still attached by this connection" (rpc.rs, stage 3).     *)
CleanupIsLocal ==
  [][\A c \in Conn :
       ConnExit(c) /\ state = "attached" /\ state' = "detached" => owner = c]_vars

(* Output reaches an attached client, even when an old pump has taken the  *)
(* wake-up meant for the new one.                                          *)
Serving(c) ==
  /\ alive[c] /\ listed[c] /\ Running(c)
  /\ entry = "live" /\ state = "attached"
DataReaches ==
  \A c \in Watched, n \in 1 .. MaxWritten :
    (Serving(c) /\ total >= n) ~> (pump[c].sent >= n \/ ~Serving(c))

(* An attached client is told when the session ends or is closed.          *)
TerminalReaches ==
  \A c \in Watched :
    (listed[c] /\ (state = "lost" \/ entry = "removed"))
      ~> (Told(c) \/ ~alive[c] \/ ~listed[c])

(* The pump serves its client to the end: output and the ending.           *)
PumpServes == DataReaches /\ TerminalReaches

(* A session whose client vanished can be attached again.                  *)
ReattachPossible ==
  \A c \in Watched :
    (entry = "live" /\ state = "attached" /\ owner = c /\ ~alive[c])
      ~> (entry = "removed" \/ state # "attached")
=============================================================================
