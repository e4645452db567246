-------------------------- MODULE AgentDaemonProofs --------------------------
(***************************************************************************)
(* Proofs about AgentDaemon for any number of connections, any capacity of *)
(* the ring and any output.  Typing, the contiguity of each connection's   *)
(* stream and the record of the ending hold whatever clients do; who owns  *)
(* the session, which pump is current and whom a cleanup touches are       *)
(* proved for clients that end only what they attached (AnyClient FALSE),  *)
(* the discipline of TermBridge's own client.                              *)
(***************************************************************************)
EXTENDS AgentDaemon, TLAPS

(* Where a read starts is a cursor at or after the one asked for.          *)
LEMMA StartBounds ==
  ASSUME total \in Nat, NEW c \in Nat
  PROVE  StartOf(c) \in Nat /\ StartOf(c) >= c
  BY DaemonAssumption DEF StartOf, Oldest

(* Records keep their type when their fields do.                           *)
LEMMA RecordsTyped ==
  /\ NoPump \in PumpRec /\ NoReply \in ReplyRec
  /\ [NoPump EXCEPT !.pc = "ended"] \in PumpRec
  /\ \A q \in PumpRec : q.epoch \in Nat /\ q.sent \in Nat /\ q.upto \in Nat
                         /\ q.from \in Nat /\ q.pc \in PumpPc
  /\ \A q \in ReplyRec : q.epoch \in Nat /\ q.since \in Nat /\ q.from \in Nat
                          /\ q.upto \in Nat
  BY DEF NoPump, NoReply, PumpRec, ReplyRec, PumpPc

LEMMA PumpRecords ==
  ASSUME NEW q \in PumpRec, NEW pc \in PumpPc,
         NEW e \in Nat, NEW n \in Nat, NEW m \in Nat
  PROVE  /\ [q EXCEPT !.pc = pc] \in PumpRec
         /\ [q EXCEPT !.pc = pc, !.upto = n, !.from = m] \in PumpRec
         /\ [NoPump EXCEPT !.pc = pc, !.epoch = e, !.sent = n] \in PumpRec
  BY DEF NoPump, PumpRec

LEMMA MessageTyped ==
  ASSUME NEW n \in Nat, NEW m \in Nat, NEW b \in BOOLEAN,
         NEW kind \in {"attached", "data"} \cup Terminals
  PROVE  Chunk(kind, n, m, b) \in Message
  BY DEF Chunk, Message

(* What a step of the pump of c leaves behind, whichever it is.            *)
PumpMoves(c) ==
  /\ \E q \in PumpRec : pump' = [pump EXCEPT ![c] = q]
  /\ \/ net' = net
     \/ \E m \in Message : net' = [net EXCEPT ![c] = Append(@, m)]
  /\ permit' \in BOOLEAN
  /\ Rest(c)

LEMMA PumpTyped ==
  ASSUME TypeOK, NEW c \in Conn, PumpStep(c)
  PROVE  PumpMoves(c)
  <1> DEFINE p == pump[c]
  <1>0. /\ p \in PumpRec /\ p.epoch \in Nat /\ p.sent \in Nat
        /\ p.upto \in Nat /\ p.from \in Nat
        /\ permit \in BOOLEAN /\ total \in Nat
    BY RecordsTyped DEF TypeOK
  <1>1. ASSUME NEW pc \in PumpPc, PumpTo(c, pc)
        PROVE  \E q \in PumpRec : pump' = [pump EXCEPT ![c] = q]
    BY <1>0, <1>1, PumpRecords DEF PumpTo
  <1>2. ASSUME PumpEnds(c)
        PROVE  \E q \in PumpRec : pump' = [pump EXCEPT ![c] = q]
    BY <1>2, RecordsTyped DEF PumpEnds
  <1>3. CASE PumpCheck(c)
    BY <1>0, <1>1, <1>2, <1>3 DEF PumpCheck, PumpMoves, PumpPc
  <1>4. CASE PumpFlush(c)
    <2>1. StartOf(p.sent) \in Nat BY <1>0, StartBounds
    <2>2. [p EXCEPT !.pc = "send", !.upto = total, !.from = StartOf(p.sent)]
            \in PumpRec
      BY <1>0, <2>1, PumpRecords DEF PumpPc
    <2>3. CASE p.sent < total
      <3>1. pump' = [pump EXCEPT ![c] =
              [p EXCEPT !.pc = "send", !.upto = total, !.from = StartOf(p.sent)]]
        BY <1>4, <2>3 DEF PumpFlush
      <3> QED BY <1>0, <1>4, <2>2, <3>1 DEF PumpFlush, PumpMoves
    <2>4. CASE ~(p.sent < total)
      <3>1. PumpTo(c, "contains") BY <1>4, <2>4 DEF PumpFlush
      <3> QED BY <1>0, <1>1, <1>4, <3>1 DEF PumpFlush, PumpMoves, PumpPc
    <2> QED BY <2>3, <2>4
  <1>5. CASE PumpSend(c)
    <2>1. Chunk("data", p.from, p.upto, p.from # p.sent) \in Message
      BY <1>0, MessageTyped
    <2>2. [NoPump EXCEPT !.pc = "contains", !.epoch = p.epoch, !.sent = p.upto]
            \in PumpRec
      BY <1>0, PumpRecords DEF PumpPc
    <2> QED BY <1>0, <1>2, <1>5, <2>1, <2>2 DEF PumpSend, PumpMoves
  <1>6. CASE PumpContains(c)
    BY <1>0, <1>1, <1>6 DEF PumpContains, PumpMoves, PumpPc
  <1>7. CASE PumpState(c)
    BY <1>0, <1>1, <1>2, <1>7 DEF PumpState, PumpMoves, PumpPc
  <1>8. CASE SayTerminal(c)
    <2>1. (IF PumpAt(c, "closed") \/ terminal = "none" THEN "closed"
           ELSE terminal) \in Terminals
      BY DEF TypeOK, Terminals
    <2>2. PICK m \in Message : net' = [net EXCEPT ![c] = Append(@, m)]
      BY <1>8, <2>1, MessageTyped DEF SayTerminal, Terminal
    <2> QED BY <1>0, <1>2, <1>8, <2>2 DEF SayTerminal, PumpMoves
  <1>9. CASE PumpWake(c)
    BY <1>0, <1>1, <1>9 DEF PumpWake, PumpMoves, PumpPc
  <1> QED BY <1>3, <1>4, <1>5, <1>6, <1>7, <1>8, <1>9 DEF PumpStep

(* The fields of Session and of the connections keep their types.          *)
THEOREM DaemonTyped == Spec => []TypeOK
  <1>1. Init => TypeOK
    <2> SUFFICES ASSUME Init PROVE TypeOK OBVIOUS
    <2>1. reply \in [Conn -> ReplyRec] /\ pump \in [Conn -> PumpRec]
      BY RecordsTyped DEF Init
    <2>2. net \in [Conn -> Seq(Message)] BY DEF Init
    <2> QED BY <2>1, <2>2 DEF Init, TypeOK
  <1>2. TypeOK /\ [Next]_vars => TypeOK'
    <2> SUFFICES ASSUME TypeOK, [Next]_vars PROVE TypeOK' OBVIOUS
    <2> USE DEF TypeOK
    <2>1. CASE UNCHANGED vars BY <2>1 DEF vars
    <2>2. ASSUME NEW n \in 1 .. MaxRead, ReadPty(n) PROVE TypeOK'
      BY <2>2 DEF ReadPty
    <2>3. ASSUME NEW how \in Ending, ReadEnd(how) PROVE TypeOK'
      BY <2>3 DEF ReadEnd
    <2>4. CASE FlipLost BY <2>4 DEF FlipLost
    <2>5. CASE NotifyPump BY <2>5 DEF NotifyPump
    <2>6. ASSUME NEW c \in Conn, Create(c) PROVE TypeOK' BY <2>6 DEF Create
    <2>7. ASSUME NEW c \in Conn, NEW since \in 0 .. total, Attach(c, since)
          PROVE  TypeOK'
      <3>1. PICK r \in ReplyRec : r = reply[c] OBVIOUS
      <3>2. [r EXCEPT !.since = since] \in ReplyRec
        <4>1. since \in Nat OBVIOUS
        <4> QED BY <4>1 DEF ReplyRec
      <3> QED BY <2>7, <3>1, <3>2 DEF Attach
    <2>8. ASSUME NEW c \in Conn, JobStep(c) PROVE TypeOK'
      <3>0. PICK r \in ReplyRec : r = reply[c] OBVIOUS
      <3>1. CASE BumpEpoch(c) BY <3>1 DEF BumpEpoch
      <3>2. CASE Snapshot(c)
        <4>1. StartOf(r.since) \in Nat BY StartBounds, RecordsTyped
        <4>2. [r EXCEPT !.from = StartOf(r.since), !.upto = total] \in ReplyRec
          BY <4>1 DEF ReplyRec
        <4> QED BY <3>0, <3>2, <4>2 DEF Snapshot, session
      <3>3. CASE ReadEpoch(c)
        <4>1. [r EXCEPT !.epoch = epoch] \in ReplyRec BY DEF ReplyRec
        <4> QED BY <3>0, <3>3, <4>1 DEF ReadEpoch, session
      <3>4. CASE Respond(c)
        <4>1. Chunk("attached", r.from, r.upto, r.from # r.since) \in Message
          BY RecordsTyped, MessageTyped
        <4>2. [NoPump EXCEPT !.pc = "check", !.epoch = r.epoch, !.sent = r.upto]
                \in PumpRec
          BY RecordsTyped, PumpRecords DEF PumpPc
        <4>3. reply' \in [Conn -> ReplyRec]
          BY <3>4, RecordsTyped DEF Respond
        <4>4. pump' \in [Conn -> PumpRec] /\ net' \in [Conn -> Seq(Message)]
              /\ job' \in [Conn -> {"idle", "bump", "snapshot", "epoch",
                                    "respond", "exit", "gone"}]
          <5>1. CASE ~alive[c] /\ UNCHANGED <<net, pump>>
                     /\ job' = [job EXCEPT ![c] = "exit"]
            BY <5>1
          <5>2. CASE /\ job' = [job EXCEPT ![c] = "idle"]
                     /\ net' = [net EXCEPT ![c] = Append(@, Chunk("attached",
                                    r.from, r.upto, r.from # r.since))]
                     /\ pump' = [pump EXCEPT ![c] = [NoPump EXCEPT
                           !.pc = "check", !.epoch = r.epoch, !.sent = r.upto]]
            BY <4>1, <4>2, <5>2
          <5> QED BY <3>0, <3>4, <5>1, <5>2 DEF Respond
        <4> QED BY <3>4, <4>3, <4>4 DEF Respond, session
      <3> QED BY <2>8, <3>1, <3>2, <3>3, <3>4 DEF JobStep
    <2>9. ASSUME NEW c \in Conn,
                 Detach(c) \/ Close(c) \/ Disconnect(c) \/ ConnExit(c)
          PROVE  TypeOK'
      BY <2>9 DEF Detach, Close, Disconnect, ConnExit, SetDetached, session
    <2>10. ASSUME NEW c \in Conn, PumpStep(c) PROVE TypeOK'
      <3>1. PumpMoves(c) BY <2>10, PumpTyped
      <3>2. pump' \in [Conn -> PumpRec] BY <3>1 DEF PumpMoves
      <3>3. net' \in [Conn -> Seq(Message)]
        <4>1. CASE net' = net BY <4>1
        <4>2. ASSUME NEW m \in Message, net' = [net EXCEPT ![c] = Append(@, m)]
              PROVE  net' \in [Conn -> Seq(Message)]
          BY <4>2
        <4> QED BY <3>1, <4>1, <4>2 DEF PumpMoves
      <3> QED BY <3>1, <3>2, <3>3 DEF PumpMoves, Rest, session
    <2> QED BY <2>1, <2>2, <2>3, <2>4, <2>5, <2>6, <2>7, <2>8, <2>9, <2>10
            DEF Next
  <1> QED BY <1>1, <1>2, PTL DEF Spec
-----------------------------------------------------------------------------
(* What a step of the pump of c does to that pump and to the connection,   *)
(* told apart by how the pump goes on.                                     *)
PumpStays(c) ==
  /\ Running(c)' /\ pump'[c].epoch = pump[c].epoch
  /\ pump'[c].sent = pump[c].sent /\ net'[c] = net[c]
  /\ PumpAt(c, "send")' => pump'[c].from >= pump[c].sent
PumpSends(c) ==
  /\ PumpAt(c, "send")
  /\ Running(c)' /\ pump'[c].epoch = pump[c].epoch
  /\ pump'[c].sent = pump[c].upto /\ ~PumpAt(c, "send")'
  /\ net'[c] = Append(net[c], Chunk("data", pump[c].from, pump[c].upto,
                                    pump[c].from # pump[c].sent))
PumpStops(c) ==
  /\ pump'[c].pc = "ended" /\ net'[c] = net[c]
  /\ \/ pump[c].epoch # epoch
     \/ ~alive[c]
     \/ state \notin {"attached", "lost"}
PumpSays(c) ==
  /\ pump'[c].pc = "ended"
  /\ \E m \in Message : m.kind \in Terminals /\ net'[c] = Append(net[c], m)

(* Connections other than c see nothing of a step made for c.              *)
OthersKeep(c) ==
  \A d \in Conn : d # c => pump'[d] = pump[d] /\ net'[d] = net[d]

LEMMA PumpCases ==
  ASSUME TypeOK, NEW c \in Conn, PumpStep(c)
  PROVE  /\ Running(c) /\ OthersKeep(c) /\ Rest(c)
         /\ PumpStays(c) \/ PumpSends(c) \/ PumpStops(c) \/ PumpSays(c)
  <1> DEFINE p == pump[c]
  <1>0. /\ p \in PumpRec /\ p.sent \in Nat /\ total \in Nat
        /\ pump \in [Conn -> PumpRec] /\ net \in [Conn -> Seq(Message)]
    BY RecordsTyped DEF TypeOK
  <1>1. Running(c)
    BY DEF PumpStep, PumpCheck, PumpFlush, PumpSend, PumpContains, PumpState,
           SayTerminal, PumpWake, PumpAt, Running
  <1>2. OthersKeep(c) /\ Rest(c)
    <2>1. PumpMoves(c) BY PumpTyped
    <2> QED BY <1>0, <2>1 DEF PumpMoves, OthersKeep
  <1> SUFFICES PumpStays(c) \/ PumpSends(c) \/ PumpStops(c) \/ PumpSays(c)
    BY <1>1, <1>2
  <1>3. ASSUME NEW pc \in PumpPc \ {"none", "ended", "send"}, PumpTo(c, pc),
               net' = net
        PROVE  PumpStays(c)
    <2>1. pump'[c] = [p EXCEPT !.pc = pc] BY <1>0, <1>3 DEF PumpTo
    <2>2. /\ pump'[c].pc = pc /\ pump'[c].epoch = p.epoch
          /\ pump'[c].sent = p.sent
      BY <1>0, <2>1 DEF PumpRec
    <2> QED BY <1>3, <2>2 DEF PumpStays, Running, PumpAt
  <1>4. PumpEnds(c) => pump'[c].pc = "ended"
    BY <1>0 DEF PumpEnds, NoPump
  <1>5. CASE PumpCheck(c)
    BY <1>3, <1>4, <1>5 DEF PumpCheck, PumpStops, PumpPc
  <1>6. CASE PumpFlush(c)
    <2>1. CASE p.sent < total
      <3>1. pump'[c] =
              [p EXCEPT !.pc = "send", !.upto = total, !.from = StartOf(p.sent)]
        BY <1>0, <1>6, <2>1 DEF PumpFlush
      <3>2. /\ pump'[c].pc = "send" /\ pump'[c].epoch = p.epoch
            /\ pump'[c].sent = p.sent /\ pump'[c].from = StartOf(p.sent)
        BY <1>0, <3>1 DEF PumpRec
      <3>3. StartOf(p.sent) >= p.sent BY <1>0, StartBounds
      <3> QED BY <1>6, <3>2, <3>3 DEF PumpFlush, PumpStays, Running
    <2>2. CASE ~(p.sent < total)
      BY <1>3, <1>6, <2>2 DEF PumpFlush, PumpPc
    <2> QED BY <2>1, <2>2
  <1>7. CASE PumpSend(c)
    <2>1. CASE ~alive[c] /\ PumpEnds(c) /\ UNCHANGED net
      BY <1>4, <2>1 DEF PumpStops
    <2>2. CASE /\ net' = [net EXCEPT ![c] =
                  Append(@, Chunk("data", p.from, p.upto, p.from # p.sent))]
               /\ pump' = [pump EXCEPT ![c] = [NoPump EXCEPT !.pc = "contains",
                              !.epoch = p.epoch, !.sent = p.upto]]
      <3>1. pump'[c] = [NoPump EXCEPT !.pc = "contains",
                              !.epoch = p.epoch, !.sent = p.upto]
        BY <1>0, <2>2
      <3>2. /\ pump'[c].pc = "contains" /\ pump'[c].epoch = p.epoch
            /\ pump'[c].sent = p.upto
        BY <3>1 DEF NoPump
      <3> QED BY <1>0, <1>7, <2>2, <3>2 DEF PumpSend, PumpSends, Running, PumpAt
    <2> QED BY <1>7, <2>1, <2>2 DEF PumpSend
  <1>8. CASE PumpContains(c)
    BY <1>3, <1>8 DEF PumpContains, PumpPc
  <1>9. CASE PumpState(c)
    BY <1>3, <1>4, <1>9 DEF PumpState, PumpStops, PumpPc
  <1>10. CASE SayTerminal(c)
    <2>1. PICK kind \in Terminals :
            net' = [net EXCEPT ![c] = Append(@, Chunk(kind, 0, 0, FALSE))]
      BY <1>10 DEF SayTerminal, TypeOK, Terminals, Terminal
    <2>2. Chunk(kind, 0, 0, FALSE) \in Message BY MessageTyped
    <2>3. Chunk(kind, 0, 0, FALSE).kind = kind BY DEF Chunk
    <2> QED BY <1>0, <1>4, <1>10, <2>1, <2>2, <2>3 DEF SayTerminal, PumpSays
  <1>11. CASE PumpWake(c)
    BY <1>3, <1>11 DEF PumpWake, PumpPc
  <1> QED BY <1>5, <1>6, <1>7, <1>8, <1>9, <1>10, <1>11
          DEF PumpStep
-----------------------------------------------------------------------------
(* Each message continues the one before it.                               *)
Follows(m, before) ==
  /\ before.kind \in {"attached", "data"}
  /\ m.kind \in Terminals \cup {"data"}
  /\ m.kind = "data" =>
       IF m.trunc THEN m.from > before.upto ELSE m.from = before.upto
Joins(s) == \A i \in 2 .. Len(s) : Follows(s[i], s[i - 1])

LEMMA JoinOne ==
  ASSUME NEW s \in Seq(Message), NEW m \in Message, Joins(s),
         s # <<>> => Follows(m, s[Len(s)])
  PROVE  /\ Append(s, m) # <<>> /\ Joins(Append(s, m))
         /\ Append(s, m)[Len(Append(s, m))] = m
  <1>1. PICK n \in Nat : n = Len(s) OBVIOUS
  <1>2. PICK t : t = Append(s, m) OBVIOUS
  <1>3. /\ t \in Seq(Message) /\ Len(t) = n + 1 /\ t[n + 1] = m
        /\ \A i \in 1 .. n : t[i] = s[i]
    BY <1>1, <1>2
  <1>4. ASSUME NEW i \in 2 .. n + 1 PROVE Follows(t[i], t[i - 1])
    <2>1. CASE i = n + 1
      <3>1. s # <<>> /\ t[i] = m /\ t[i - 1] = s[n] BY <1>1, <1>3, <2>1
      <3> QED BY <1>1, <3>1
    <2>2. CASE i # n + 1
      <3>1. i \in 2 .. Len(s) /\ t[i] = s[i] /\ t[i - 1] = s[i - 1]
        BY <1>1, <1>3, <2>2
      <3> QED BY <3>1 DEF Joins
    <2> QED BY <2>1, <2>2
  <1> QED BY <1>2, <1>3, <1>4 DEF Joins

(* What makes the messages join up: an attach is only begun, and its pump  *)
(* only started, on a connection that has received nothing, and a running  *)
(* pump continues at the cursor the client was last given.                 *)
AttachJobs == {"bump", "snapshot", "epoch", "respond"}
LastMessage(c) == net[c][Len(net[c])]
StreamInv(c) ==
  /\ Joins(net[c])
  /\ job[c] \in AttachJobs => net[c] = <<>>
  /\ net[c] = <<>> => pump[c].pc = "none"
  /\ Running(c) => /\ LastMessage(c).kind \in {"attached", "data"}
                   /\ LastMessage(c).upto = pump[c].sent
  /\ PumpAt(c, "send") => pump[c].from >= pump[c].sent

(* A step sends connection c one message, the one that may come next.      *)
Sends(c) ==
  \E m \in Message :
    /\ net'[c] = Append(net[c], m)
    /\ IF net[c] = <<>> THEN m.kind = "attached"
                        ELSE Follows(m, LastMessage(c))

(* Steps that send nothing and move no pump.                               *)
LEMMA QuietKeepsStream ==
  ASSUME NEW c \in Conn, StreamInv(c), net'[c] = net[c], pump'[c] = pump[c],
         job'[c] \in AttachJobs => job[c] \in AttachJobs \/ net[c] = <<>>
  PROVE  StreamInv(c)'
  BY DEF StreamInv, Running, PumpAt, LastMessage

LEMMA PumpKeepsStream ==
  ASSUME TypeOK, NEW c \in Conn, StreamInv(c), PumpStep(c)
  PROVE  StreamInv(c)' /\ (net'[c] = net[c] \/ Sends(c))
  <1>1. Running(c) /\ job' = job BY PumpCases DEF Rest
  <1>2. net[c] \in Seq(Message) /\ net[c] # <<>> /\ job[c] \notin AttachJobs
    BY <1>1 DEF TypeOK, StreamInv, Running
  <1>3. CASE PumpStays(c)
    BY <1>1, <1>2, <1>3 DEF PumpStays, StreamInv, LastMessage
  <1>4. CASE PumpStops(c)
    BY <1>1, <1>2, <1>4 DEF PumpStops, StreamInv, Running, PumpAt
  <1>5. CASE PumpSends(c)
    <2>1. PICK p \in PumpRec : p = pump[c] BY DEF TypeOK
    <2>2. PICK m : m = Chunk("data", p.from, p.upto, p.from # p.sent)
      OBVIOUS
    <2>3. m \in Message BY <2>2, RecordsTyped, MessageTyped
    <2>4. /\ m.kind = "data" /\ m.upto = p.upto /\ m.from = p.from
          /\ m.trunc = (p.from # p.sent)
      BY <2>2 DEF Chunk
    <2>5. p.from >= p.sent BY <1>5, <2>1 DEF PumpSends, StreamInv
    <2>6. Follows(m, LastMessage(c))
      <3>1. /\ LastMessage(c).kind \in {"attached", "data"}
            /\ LastMessage(c).upto = p.sent
        BY <1>1, <2>1 DEF StreamInv
      <3>2. p.from \in Nat /\ p.sent \in Nat BY RecordsTyped
      <3>3. CASE p.from = p.sent
        <4>1. m.trunc = FALSE BY <2>4, <3>3
        <4> QED BY <2>4, <3>1, <3>3, <4>1 DEF Follows
      <3>4. CASE p.from # p.sent
        <4>1. p.from > p.sent BY <2>5, <3>2, <3>4
        <4>2. m.trunc = TRUE BY <2>4, <3>4, Zenon
        <4> QED BY <2>4, <3>1, <4>1, <4>2 DEF Follows
      <3> QED BY <3>3, <3>4
    <2>7. net'[c] = Append(net[c], m) BY <1>5, <2>1, <2>2 DEF PumpSends
    <2>8. /\ net'[c] # <<>> /\ Joins(net'[c]) /\ net'[c][Len(net'[c])] = m
      BY <1>2, <2>3, <2>6, <2>7, JoinOne DEF StreamInv, LastMessage
    <2>9. Running(c)' /\ pump'[c].sent = p.upto /\ ~PumpAt(c, "send")'
      BY <1>5, <2>1 DEF PumpSends
    <2>10. Sends(c) BY <1>2, <2>3, <2>6, <2>7 DEF Sends
    <2> QED BY <1>1, <1>2, <2>4, <2>8, <2>9, <2>10 DEF StreamInv, LastMessage
  <1>6. CASE PumpSays(c)
    <2>1. PICK m \in Message :
            m.kind \in Terminals /\ net'[c] = Append(net[c], m)
      BY <1>6 DEF PumpSays
    <2>2. m.kind # "data" BY <2>1, DaemonAssumption DEF Terminals
    <2>3. Follows(m, LastMessage(c))
      BY <1>1, <2>1, <2>2 DEF StreamInv, Follows
    <2>4. net'[c] # <<>> /\ Joins(net'[c]) /\ Sends(c)
      BY <1>2, <2>1, <2>3, JoinOne DEF StreamInv, LastMessage, Sends
    <2>5. ~Running(c)' /\ ~PumpAt(c, "send")'
      BY <1>6 DEF PumpSays, Running, PumpAt
    <2> QED BY <1>1, <1>2, <2>4, <2>5 DEF StreamInv
  <1> QED BY PumpCases, <1>3, <1>4, <1>5, <1>6

(* The attach response is the first message, and the pump starts where it  *)
(* ends.                                                                   *)
LEMMA RespondKeepsStream ==
  ASSUME TypeOK, NEW c \in Conn, StreamInv(c), Respond(c)
  PROVE  StreamInv(c)' /\ (net'[c] = net[c] \/ Sends(c))
  <1>1. PICK r \in ReplyRec : r = reply[c] BY DEF TypeOK
  <1>2. net[c] = <<>> /\ pump[c].pc = "none"
    BY DEF Respond, StreamInv, AttachJobs
  <1>3. /\ job \in [Conn -> {"idle", "bump", "snapshot", "epoch", "respond",
                            "exit", "gone"}]
        /\ pump \in [Conn -> PumpRec] /\ net \in [Conn -> Seq(Message)]
    BY DEF TypeOK
  <1>4. CASE UNCHANGED <<net, pump>> /\ job' = [job EXCEPT ![c] = "exit"]
    <2>1. job'[c] \notin AttachJobs BY <1>3, <1>4 DEF AttachJobs
    <2> QED BY <1>4, <2>1, QuietKeepsStream
  <1>5. ASSUME NEW m, m = Chunk("attached", r.from, r.upto, r.from # r.since),
               net' = [net EXCEPT ![c] = Append(@, m)],
               pump' = [pump EXCEPT ![c] = [NoPump EXCEPT !.pc = "check",
                                  !.epoch = r.epoch, !.sent = r.upto]],
               job' = [job EXCEPT ![c] = "idle"]
        PROVE  StreamInv(c)' /\ Sends(c)
    <2>1. m \in Message BY <1>5, RecordsTyped, MessageTyped
    <2>2. m.kind = "attached" /\ m.upto = r.upto BY <1>5 DEF Chunk
    <2>3. net'[c] = Append(net[c], m) BY <1>3, <1>5
    <2>4. /\ net'[c] # <<>> /\ Joins(net'[c]) /\ net'[c][Len(net'[c])] = m
      BY <1>2, <1>3, <2>1, <2>3, JoinOne DEF StreamInv
    <2>5. pump'[c] = [NoPump EXCEPT !.pc = "check",
                        !.epoch = r.epoch, !.sent = r.upto]
      BY <1>3, <1>5
    <2>6. pump'[c].pc = "check" /\ pump'[c].sent = r.upto
      BY <2>5 DEF NoPump
    <2>7. job'[c] = "idle" BY <1>3, <1>5
    <2>8. Sends(c) BY <1>2, <2>1, <2>2, <2>3 DEF Sends
    <2> QED BY <2>2, <2>4, <2>6, <2>7, <2>8
            DEF StreamInv, LastMessage, PumpAt, AttachJobs
  <1> QED BY <1>1, <1>4, <1>5 DEF Respond

Streams == \A c \in Conn : StreamInv(c)

(* Every step keeps that, and sends a connection at most what may follow.  *)
LEMMA StepKeepsStreams ==
  ASSUME TypeOK, Streams, [Next]_vars, NEW x \in Conn
  PROVE  StreamInv(x)' /\ (net'[x] = net[x] \/ Sends(x))
  <1> DEFINE Kept == StreamInv(x)' /\ (net'[x] = net[x] \/ Sends(x))
  <1> USE DEF Streams
  <1>0. /\ job \in [Conn -> {"idle", "bump", "snapshot", "epoch", "respond",
                            "exit", "gone"}]
        /\ pump \in [Conn -> PumpRec] /\ net \in [Conn -> Seq(Message)]
    BY DEF TypeOK
  <1>1. ASSUME net' = net, pump' = pump,
               job'[x] \in AttachJobs => job[x] \in AttachJobs \/ net[x] = <<>>
        PROVE  Kept
    BY <1>1, QuietKeepsStream
  <1>2. CASE UNCHANGED vars BY <1>1, <1>2 DEF vars
  <1>3. ASSUME NEW n \in 1 .. MaxRead, ReadPty(n) PROVE Kept
    BY <1>1, <1>3 DEF ReadPty
  <1>4. ASSUME NEW how \in Ending, ReadEnd(how) PROVE Kept
    BY <1>1, <1>4 DEF ReadEnd
  <1>5. CASE FlipLost \/ NotifyPump
    BY <1>1, <1>5 DEF FlipLost, NotifyPump
  <1>6. ASSUME NEW c \in Conn,
               Create(c) \/ Detach(c) \/ Close(c) \/ Disconnect(c)
        PROVE  Kept
    BY <1>1, <1>6 DEF Create, Detach, Close, Disconnect
  <1>7. ASSUME NEW c \in Conn, ConnExit(c) PROVE Kept
    BY <1>0, <1>1, <1>7 DEF ConnExit, AttachJobs
  <1>8. ASSUME NEW c \in Conn, NEW since \in 0 .. total, Attach(c, since)
        PROVE  Kept
    BY <1>0, <1>1, <1>8 DEF Attach, AttachJobs
  <1>9. ASSUME NEW c \in Conn, BumpEpoch(c) \/ Snapshot(c) \/ ReadEpoch(c)
        PROVE  Kept
    BY <1>0, <1>1, <1>9 DEF BumpEpoch, Snapshot, ReadEpoch, AttachJobs
  <1>10. ASSUME NEW c \in Conn, Respond(c) PROVE Kept
    <2>1. CASE x = c BY <1>10, <2>1, RespondKeepsStream
    <2>2. CASE x # c
      <3>1. net'[x] = net[x] /\ pump'[x] = pump[x] /\ job'[x] = job[x]
        BY <1>0, <1>10, <2>2 DEF Respond
      <3> QED BY <3>1, QuietKeepsStream
    <2> QED BY <2>1, <2>2
  <1>11. ASSUME NEW c \in Conn, PumpStep(c) PROVE Kept
    <2>1. CASE x = c BY <1>11, <2>1, PumpKeepsStream
    <2>2. CASE x # c
      <3>1. net'[x] = net[x] /\ pump'[x] = pump[x] /\ job'[x] = job[x]
        BY <1>11, <2>2, PumpCases DEF OthersKeep, Rest
      <3> QED BY <3>1, QuietKeepsStream
    <2> QED BY <2>1, <2>2
  <1> QED BY <1>2, <1>3, <1>4, <1>5, <1>6, <1>7, <1>8, <1>9, <1>10, <1>11
          DEF Next, JobStep

(* Attach, response and pump stay in step on every connection.             *)
THEOREM StreamsInvariant == Spec => []Streams
  <1> DEFINE Inv == Streams
  <1> USE DEF Streams
  <1>1. Init => Inv
    <2> SUFFICES ASSUME Init, NEW c \in Conn PROVE StreamInv(c) OBVIOUS
    <2>1. job[c] = "idle" /\ net[c] = <<>> /\ pump[c] = NoPump BY DEF Init
    <2>2. pump[c].pc = "none" BY <2>1 DEF NoPump
    <2>3. Joins(net[c]) BY <2>1, SMT DEF Joins
    <2> QED BY <2>1, <2>2, <2>3 DEF StreamInv, Running, PumpAt, AttachJobs
  <1>2. TypeOK /\ Inv /\ [Next]_vars => Inv'
    BY StepKeepsStreams
  <1> QED BY <1>1, <1>2, DaemonTyped, PTL DEF Spec

(* What a client receives is the session's output without a gap it is not  *)
(* told of (dispatch's session.attach, event_pump).                        *)
THEOREM StreamsJoin == Spec => []StreamContiguous
  <1>1. Streams => StreamContiguous
    BY DEF Streams, StreamInv, StreamContiguous, Joins, Follows,
           Stream!Follows, Stream!Output
  <1> QED BY <1>1, StreamsInvariant, PTL

(* Each connection's messages are those of an AttachStream: every step of  *)
(* the daemon leaves them alone or sends the one message that may follow.  *)
THEOREM DaemonImplementsStream == Spec => ImplementsStream
  <1>1. Init => \A c \in Conn : Stream(c)!StreamInit
    BY DEF Init, Stream!StreamInit
  <1>2. ASSUME TypeOK, Streams, [Next]_vars, NEW c \in Conn
        PROVE  [Stream(c)!StreamNext]_(net[c])
    <2>1. CASE net'[c] = net[c] BY <2>1
    <2>2. CASE Sends(c)
      <3>1. PICK m \in Message :
              /\ net'[c] = Append(net[c], m)
              /\ IF net[c] = <<>> THEN m.kind = "attached"
                                  ELSE Follows(m, LastMessage(c))
        BY <2>2 DEF Sends
      <3>2. net[c] \in Seq(Message) BY <1>2 DEF TypeOK
      <3>3. Len(net'[c]) = Len(net[c]) + 1 /\ net'[c][Len(net'[c])] = m
        BY <3>1, <3>2
      <3>4. Stream(c)!Send(m)
        BY <3>1 DEF Stream!Send, Stream!Follows, Stream!Output, Follows,
                    LastMessage
      <3> QED BY <3>3, <3>4 DEF Stream!StreamNext
    <2> QED BY <1>2, <2>1, <2>2, StepKeepsStreams
  <1>3. TypeOK /\ Streams /\ [Next]_vars =>
          [\A c \in Conn : [Stream(c)!StreamNext]_(net[c])]_vars
    BY <1>2
  <1> QED BY <1>1, <1>3, StreamsInvariant, DaemonTyped, PTL
          DEF Spec, ImplementsStream

(* A session is lost only after its ending was recorded (finish_lost).     *)
THEOREM LostIsRecorded == Spec => []TerminalRecorded
  <1> DEFINE Inv == /\ reader = "ending" => terminal # "none"
                    /\ TerminalRecorded
  <1>1. Init => Inv BY DEF Init, TerminalRecorded
  <1>2. Inv /\ [Next]_vars => Inv'
    <2> SUFFICES ASSUME Inv, [Next]_vars PROVE Inv' OBVIOUS
    <2> USE DEF TerminalRecorded
    <2>1. ASSUME UNCHANGED <<state, terminal, reader>> PROVE Inv' BY <2>1
    <2>2. CASE UNCHANGED vars BY <2>1, <2>2 DEF vars
    <2>3. ASSUME NEW n \in 1 .. MaxRead, ReadPty(n) PROVE Inv'
      BY <2>3 DEF ReadPty
    <2>4. ASSUME NEW how \in Ending, ReadEnd(how) PROVE Inv'
      <3>1. how # "none" BY DaemonAssumption
      <3> QED BY <2>4, <3>1 DEF ReadEnd
    <2>5. CASE FlipLost BY <2>5 DEF FlipLost
    <2>6. CASE NotifyPump BY <2>6 DEF NotifyPump
    <2>7. ASSUME NEW c \in Conn, PumpStep(c) PROVE Inv'
      BY <2>1, <2>7 DEF PumpStep, PumpCheck, PumpFlush, PumpSend, PumpContains,
            PumpState, SayTerminal, PumpWake, Rest, session
    <2>8. ASSUME NEW c \in Conn, JobStep(c) \/ Disconnect(c) PROVE Inv'
      BY <2>1, <2>8 DEF JobStep, BumpEpoch, Snapshot, ReadEpoch, Respond,
            Disconnect, session
    <2>9. ASSUME NEW c \in Conn, NEW since \in 0 .. total, Attach(c, since)
          PROVE  Inv'
      BY <2>9 DEF Attach
    <2>10. ASSUME NEW c \in Conn,
                  Create(c) \/ Detach(c) \/ Close(c) \/ ConnExit(c)
           PROVE  Inv'
      BY <2>10 DEF Create, Detach, Close, ConnExit, SetDetached
    <2> QED BY <2>2, <2>3, <2>4, <2>5, <2>6, <2>7, <2>8, <2>9, <2>10 DEF Next
  <1> QED BY <1>1, <1>2, PTL DEF Spec
-----------------------------------------------------------------------------
(* From here on clients detach and close only what they attached.  A       *)
(* connection holds the session from its attach to its detach, close or    *)
(* end; only the connection that attached last can hold it, and while it   *)
(* does the session is neither removed nor detached.                       *)
Attaching == {"bump", "snapshot", "epoch"}
Holds(c) == listed[c] \/ job[c] \in Attaching

(* Whose pump, running or about to be started, the epoch is.               *)
Current(c) ==
  \/ Running(c) /\ pump[c].epoch = epoch
  \/ job[c] = "respond" /\ reply[c].epoch = epoch

HeldInv(c) ==
  Holds(c) => entry = "live" /\ owner = c /\ state \in {"attached", "lost"}

(* Once listed, a connection's pump is the current one until it has told   *)
(* the client of the end.                                                  *)
ListedInv(c) ==
  /\ Running(c) => pump[c].epoch <= epoch
  /\ job[c] = "respond" => reply[c].epoch <= epoch
  /\ listed[c] =>
       /\ job[c] \notin Attaching
       /\ net[c] = <<>> => job[c] \in {"respond", "exit"}
       /\ Running(c) => pump[c].epoch = epoch
       /\ job[c] = "respond" => reply[c].epoch = epoch
  /\ PumpAt(c, "ended") /\ alive[c] /\ listed[c] => Told(c)

(* One pump is current, and none between the bump and the new pump's epoch.*)
PairInv(c, d) ==
  /\ Current(c) /\ Current(d) => c = d
  /\ job[c] \in {"snapshot", "epoch"} => ~Current(d)

HolderInv ==
  /\ \A c \in Conn : HeldInv(c) /\ ListedInv(c)
  /\ \A c, d \in Conn : PairInv(c, d)

(* Steps that leave a connection, its pump and the epoch alone.            *)
Alike(x) ==
  /\ pump'[x] = pump[x] /\ net'[x] = net[x] /\ reply'[x] = reply[x]
  /\ job'[x] = job[x] /\ listed'[x] = listed[x] /\ alive'[x] = alive[x]

LEMMA AlikeListed ==
  ASSUME NEW x \in Conn, ListedInv(x), Alike(x),
         epoch' = epoch \/ (epoch' >= epoch /\ ~listed[x] /\ epoch \in Nat
                            /\ epoch' \in Nat /\ pump[x].epoch \in Nat
                            /\ reply[x].epoch \in Nat)
  PROVE  ListedInv(x)'
  <1> USE DEF ListedInv, Alike, Running, PumpAt, Told
  <1>1. CASE epoch' = epoch BY <1>1
  <1>2. CASE epoch' # epoch BY <1>2
  <1> QED BY <1>1, <1>2

LEMMA AlikeHeld ==
  ASSUME NEW x \in Conn, HeldInv(x), Alike(x),
         Holds(x) => entry' = entry /\ owner' = owner
                     /\ state' \in {state, "lost"}
  PROVE  HeldInv(x)'
  BY DEF HeldInv, Alike, Holds

LEMMA AlikeCurrent ==
  ASSUME NEW x \in Conn, Alike(x), epoch' = epoch
  PROVE  Current(x)' => Current(x)
  BY DEF Current, Alike, Running

LEMMA PairKept ==
  ASSUME NEW x \in Conn, NEW y \in Conn, PairInv(x, y),
         Current(x)' => Current(x), Current(y)' => Current(y),
         job'[x] \in {"snapshot", "epoch"} => job[x] \in {"snapshot", "epoch"}
  PROVE  PairInv(x, y)'
  BY DEF PairInv

Context == AnyClient = FALSE /\ TypeOK /\ Streams /\ HolderInv
JobType == {"idle", "bump", "snapshot", "epoch", "respond", "exit", "gone"}

LEMMA ContextTypes ==
  ASSUME Context
  PROVE  /\ job \in [Conn -> JobType] /\ alive \in [Conn -> BOOLEAN]
         /\ listed \in [Conn -> BOOLEAN] /\ reply \in [Conn -> ReplyRec]
         /\ pump \in [Conn -> PumpRec] /\ net \in [Conn -> Seq(Message)]
         /\ epoch \in Nat
         /\ \A c \in Conn : pump[c].epoch \in Nat /\ reply[c].epoch \in Nat
  BY RecordsTyped DEF Context, TypeOK, JobType

(* Nobody but the owner holds the session.                                 *)
LEMMA OneHolder ==
  ASSUME Context, NEW c \in Conn, NEW d \in Conn, Holds(c), Holds(d)
  PROVE  c = d
  BY DEF Context, HolderInv, HeldInv

(* The steps of the read thread.                                           *)
LEMMA ThreadKeepsHolder ==
  ASSUME Context, epoch' = epoch, entry' = entry, owner' = owner,
         state' \in {state, "lost"}, \A x \in Conn : Alike(x)
  PROVE  HolderInv'
  <1>1. ASSUME NEW x \in Conn PROVE HeldInv(x)' /\ ListedInv(x)'
    BY AlikeHeld, AlikeListed DEF Context, HolderInv
  <1>2. ASSUME NEW x \in Conn, NEW y \in Conn PROVE PairInv(x, y)'
    <2>1. PairInv(x, y) BY DEF Context, HolderInv
    <2>2. job'[x] = job[x] BY DEF Alike
    <2> QED BY <2>1, <2>2, AlikeCurrent, PairKept
  <1> QED BY <1>1, <1>2 DEF HolderInv

(* A client that starts to attach finds no holder, and becomes the one.    *)
LEMMA AttachKeepsHolder ==
  ASSUME Context, NEW c \in Conn, NEW since \in 0 .. total, Attach(c, since)
  PROVE  HolderInv'
  <1>0. /\ epoch' = epoch /\ entry' = "live" /\ owner' = c
        /\ state' = "attached" /\ job'[c] = "bump"
        /\ pump' = pump /\ net' = net /\ listed' = listed
    BY ContextTypes DEF Attach
  <1>1. \A x \in Conn : ~Holds(x)
    BY DEF Context, HolderInv, HeldInv, Attach
  <1>2. \A x \in Conn : x # c => Alike(x)
    BY ContextTypes DEF Attach, Alike
  <1>3. ASSUME NEW x \in Conn PROVE HeldInv(x)' /\ ListedInv(x)'
    <2>0. HeldInv(x) /\ ListedInv(x) /\ ~Holds(x)
      BY <1>1 DEF Context, HolderInv
    <2>1. CASE x # c BY <1>0, <1>2, <2>0, <2>1, AlikeHeld, AlikeListed
    <2>2. CASE x = c
      BY <1>0, <2>0, <2>2 DEF HeldInv, ListedInv, Holds, Running, PumpAt
    <2> QED BY <2>1, <2>2
  <1>4. ASSUME NEW x \in Conn PROVE Current(x)' => Current(x)
    <2>1. CASE x # c BY <1>0, <1>2, <2>1, AlikeCurrent
    <2>2. CASE x = c BY <1>0, <2>2 DEF Current, Running
    <2> QED BY <2>1, <2>2
  <1>5. ASSUME NEW x \in Conn, NEW y \in Conn PROVE PairInv(x, y)'
    <2>1. PairInv(x, y) BY DEF Context, HolderInv
    <2>2. job'[x] = job[x] \/ job'[x] = "bump" BY <1>0, <1>2 DEF Alike
    <2> QED BY <1>4, <2>1, <2>2, PairKept
  <1> QED BY <1>3, <1>5 DEF HolderInv

(* The holder lets go: by a detach, a close or its connection's end.       *)
LEMMA LeavingKeepsHolder ==
  ASSUME Context, NEW c \in Conn, Detach(c) \/ Close(c) \/ ConnExit(c)
  PROVE  HolderInv'
  <1>0. /\ epoch' = epoch /\ pump' = pump /\ net' = net /\ alive' = alive
        /\ ~listed'[c] /\ job'[c] \in {"idle", "gone"} /\ reply' = reply
        /\ owner' = owner
    BY ContextTypes DEF Detach, Close, ConnExit, Ready
  <1>1. \A x \in Conn : x # c => Alike(x)
    BY <1>0, ContextTypes DEF Detach, Close, ConnExit, Alike
  <1>2. (entry' = entry /\ state' = state) \/ listed[c]
    BY DEF Detach, Close, ConnExit, Context
  <1>3. ASSUME NEW x \in Conn PROVE HeldInv(x)' /\ ListedInv(x)'
    <2>0. HeldInv(x) /\ ListedInv(x) BY DEF Context, HolderInv
    <2>1. CASE x # c
      <3>1. Holds(x) => ~listed[c] BY <2>1, OneHolder DEF Holds
      <3> QED BY <1>0, <1>1, <1>2, <2>0, <2>1, <3>1, AlikeHeld, AlikeListed
    <2>2. CASE x = c
      BY <1>0, <2>0, <2>2
         DEF HeldInv, ListedInv, Holds, Attaching, Running, PumpAt
    <2> QED BY <2>1, <2>2
  <1>4. ASSUME NEW x \in Conn PROVE Current(x)' => Current(x)
    <2>1. CASE x # c BY <1>0, <1>1, <2>1, AlikeCurrent
    <2>2. CASE x = c BY <1>0, <2>2 DEF Current, Running
    <2> QED BY <2>1, <2>2
  <1>5. ASSUME NEW x \in Conn, NEW y \in Conn PROVE PairInv(x, y)'
    <2>1. PairInv(x, y) BY DEF Context, HolderInv
    <2>2. job'[x] = job[x] \/ job'[x] \in {"idle", "gone"}
      BY <1>0, <1>1 DEF Alike
    <2> QED BY <1>4, <2>1, <2>2, PairKept
  <1> QED BY <1>3, <1>5 DEF HolderInv

(* Bumping the epoch leaves no pump current.                               *)
LEMMA BumpKeepsHolder ==
  ASSUME Context, NEW c \in Conn, BumpEpoch(c)
  PROVE  HolderInv'
  <1>0. /\ epoch' = epoch + 1 /\ pump' = pump /\ net' = net
        /\ job[c] = "bump" /\ job'[c] = "snapshot" /\ reply' = reply
        /\ owner' = owner /\ entry' = entry /\ state' = state
        /\ listed' = listed /\ alive' = alive
    BY ContextTypes DEF BumpEpoch
  <1>1. \A x \in Conn : x # c => Alike(x) /\ ~Holds(x)
    <2>1. Holds(c) BY <1>0 DEF Holds, Attaching
    <2>2. \A x \in Conn : x # c => ~Holds(x) BY <2>1, OneHolder
    <2> QED BY <1>0, <2>2, ContextTypes DEF BumpEpoch, Alike
  <1>2. ASSUME NEW x \in Conn PROVE HeldInv(x)' /\ ListedInv(x)'
    <2>0. HeldInv(x) /\ ListedInv(x) BY DEF Context, HolderInv
    <2>1. CASE x # c
      <3>1. Alike(x) /\ ~listed[x] /\ ~Holds(x) BY <1>1, <2>1 DEF Holds
      <3>2. epoch' >= epoch /\ epoch' \in Nat BY <1>0, ContextTypes
      <3>3. ListedInv(x)'
        BY <2>0, <3>1, <3>2, ContextTypes, AlikeListed
      <3> QED BY <2>0, <3>1, <3>3, AlikeHeld
    <2>2. CASE x = c
      <3>1. ~listed[c] /\ Holds(c)
        BY <1>0, <2>0, <2>2 DEF ListedInv, Holds, Attaching
      <3>2. Running(c) => pump[c].epoch <= epoch + 1
        BY <2>0, <2>2, ContextTypes DEF ListedInv
      <3>3. ListedInv(c)'
        BY <1>0, <3>1, <3>2 DEF ListedInv, Running
      <3>4. HeldInv(c)' BY <1>0, <2>0, <2>2, <3>1 DEF HeldInv
      <3> QED BY <2>2, <3>3, <3>4
    <2> QED BY <2>1, <2>2
  <1>3. ASSUME NEW x \in Conn PROVE ~Current(x)'
    <2>1. ListedInv(x) BY DEF Context, HolderInv
    <2>2. job'[x] = "respond" => job[x] = "respond"
      BY <1>0, <1>1 DEF Alike
    <2>3. Running(x) => pump[x].epoch # epoch + 1
      BY <2>1, ContextTypes DEF ListedInv
    <2>4. job[x] = "respond" => reply[x].epoch # epoch + 1
      BY <2>1, ContextTypes DEF ListedInv
    <2> QED BY <1>0, <2>2, <2>3, <2>4 DEF Current, Running
  <1> QED BY <1>2, <1>3 DEF HolderInv, PairInv

LEMMA SnapshotKeepsHolder ==
  ASSUME Context, NEW c \in Conn, Snapshot(c)
  PROVE  HolderInv'
  <1>0. /\ epoch' = epoch /\ pump' = pump /\ net' = net
        /\ job[c] = "snapshot" /\ job'[c] = "epoch"
        /\ owner' = owner /\ entry' = entry /\ state' = state
        /\ listed' = listed /\ alive' = alive
    BY ContextTypes DEF Snapshot, session
  <1>1. \A x \in Conn : x # c => Alike(x)
    BY <1>0, ContextTypes DEF Snapshot, Alike
  <1>2. ASSUME NEW x \in Conn PROVE HeldInv(x)' /\ ListedInv(x)'
    <2>0. HeldInv(x) /\ ListedInv(x) BY DEF Context, HolderInv
    <2>1. CASE x # c BY <1>0, <1>1, <2>0, <2>1, AlikeHeld, AlikeListed
    <2>2. CASE x = c
      BY <1>0, <2>0, <2>2
         DEF HeldInv, ListedInv, Holds, Attaching, Running, PumpAt
    <2> QED BY <2>1, <2>2
  <1>3. ASSUME NEW x \in Conn PROVE Current(x)' => Current(x)
    <2>1. CASE x # c BY <1>0, <1>1, <2>1, AlikeCurrent
    <2>2. CASE x = c BY <1>0, <2>2 DEF Current, Running
    <2> QED BY <2>1, <2>2
  <1>4. ASSUME NEW x \in Conn, NEW y \in Conn PROVE PairInv(x, y)'
    <2>1. PairInv(x, y) BY DEF Context, HolderInv
    <2>2. job'[x] = job[x] \/ job[x] = "snapshot" BY <1>0, <1>1 DEF Alike
    <2> QED BY <1>3, <2>1, <2>2, PairKept
  <1> QED BY <1>2, <1>4 DEF HolderInv

(* The epoch read for the new pump is the one this attach bumped.          *)
LEMMA EpochKeepsHolder ==
  ASSUME Context, NEW c \in Conn, ReadEpoch(c)
  PROVE  HolderInv'
  <1>1. Holds(c) /\ HeldInv(c) /\ ListedInv(c)
    BY DEF ReadEpoch, Holds, Attaching, Context, HolderInv
  <1>2. PICK r \in ReplyRec : r = reply[c] BY ContextTypes
  <1>3. [r EXCEPT !.epoch = epoch].epoch = epoch BY DEF ReplyRec
  <1>4. /\ epoch' = epoch /\ pump' = pump /\ net' = net
        /\ job[c] = "epoch" /\ job'[c] = "respond"
        /\ owner' = owner /\ entry' = entry /\ state' = state
        /\ listed' = [listed EXCEPT ![c] = TRUE] /\ alive' = alive
        /\ reply' = [reply EXCEPT ![c] = [r EXCEPT !.epoch = epoch]]
        /\ \A x \in Conn : x # c => Alike(x)
    BY <1>1, <1>2, ContextTypes DEF ReadEpoch, session, HeldInv, Alike
  <1>5. pump[c].pc = "none"
    BY <1>4 DEF Context, Streams, StreamInv, AttachJobs
  <1>6. reply'[c].epoch = epoch BY <1>3, <1>4, ContextTypes
  <1>7. ASSUME NEW x \in Conn PROVE HeldInv(x)' /\ ListedInv(x)'
    <2>0. HeldInv(x) /\ ListedInv(x) BY DEF Context, HolderInv
    <2>1. CASE x # c BY <1>4, <2>0, <2>1, AlikeHeld, AlikeListed
    <2>2. CASE x = c
      <3>1. HeldInv(c)' BY <1>1, <1>4 DEF HeldInv
      <3>2. ListedInv(c)'
        BY <1>4, <1>5, <1>6, ContextTypes
           DEF ListedInv, Attaching, Running, PumpAt
      <3> QED BY <2>2, <3>1, <3>2
    <2> QED BY <2>1, <2>2
  <1>8. ASSUME NEW x \in Conn, x # c PROVE ~Current(x)'
    <2>1. PairInv(c, x) BY DEF Context, HolderInv
    <2>2. ~Current(x) BY <1>4, <2>1 DEF PairInv
    <2> QED BY <1>4, <1>8, <2>2, AlikeCurrent
  <1>9. ASSUME NEW x \in Conn, job'[x] \in {"snapshot", "epoch"} PROVE FALSE
    <2>1. x # c BY <1>4, <1>9
    <2>2. job'[x] = job[x] BY <1>4, <2>1 DEF Alike
    <2>3. Holds(x) BY <1>9, <2>2 DEF Holds, Attaching
    <2> QED BY <1>1, <2>1, <2>3, OneHolder
  <1> QED BY <1>7, <1>8, <1>9 DEF HolderInv, PairInv

LEMMA RespondKeepsHolder ==
  ASSUME Context, NEW c \in Conn, Respond(c)
  PROVE  HolderInv'
  <1>1. PICK r \in ReplyRec : r = reply[c] BY ContextTypes
  <1>2. PICK q : q = [NoPump EXCEPT !.pc = "check",
                                    !.epoch = r.epoch, !.sent = r.upto]
    OBVIOUS
  <1>3. q.pc = "check" /\ q.epoch = r.epoch BY <1>2 DEF NoPump
  <1>4. pump[c].pc = "none" /\ net[c] = <<>>
    BY DEF Respond, Context, Streams, StreamInv, AttachJobs
  <1>5. /\ epoch' = epoch /\ job[c] = "respond"
        /\ owner' = owner /\ entry' = entry /\ state' = state
        /\ listed' = listed /\ alive' = alive
        /\ \A x \in Conn : x # c => Alike(x)
    BY ContextTypes DEF Respond, session, Alike
  <1>6. \/ /\ job'[c] = "idle" /\ pump'[c] = q /\ net'[c] # <<>>
        \/ job'[c] = "exit" /\ pump'[c] = pump[c] /\ net'[c] = net[c]
    <2>1. CASE UNCHANGED <<net, pump>> /\ job' = [job EXCEPT ![c] = "exit"]
      BY <2>1, ContextTypes
    <2>2. ASSUME NEW m, m = Chunk("attached", r.from, r.upto, r.from # r.since),
                 net' = [net EXCEPT ![c] = Append(@, m)],
                 pump' = [pump EXCEPT ![c] = q],
                 job' = [job EXCEPT ![c] = "idle"]
          PROVE  job'[c] = "idle" /\ pump'[c] = q /\ net'[c] # <<>>
      <3>1. m \in Message BY <2>2, RecordsTyped, MessageTyped
      <3>2. net'[c] = Append(net[c], m) BY <2>2, ContextTypes
      <3>3. Append(net[c], m) # <<>>
        <4>1. PICK s \in Seq(Message) : s = net[c] BY ContextTypes
        <4>2. Len(Append(s, m)) = Len(s) + 1 /\ Len(s) \in Nat BY <3>1
        <4>3. Len(<<>>) = 0 BY SMT
        <4> QED BY <4>1, <4>2, <4>3
      <3> QED BY <2>2, <3>2, <3>3, ContextTypes
    <2> QED BY <1>1, <1>2, <2>1, <2>2 DEF Respond
  <1>7. ASSUME NEW x \in Conn PROVE HeldInv(x)' /\ ListedInv(x)'
    <2>0. HeldInv(x) /\ ListedInv(x) BY DEF Context, HolderInv
    <2>1. CASE x # c BY <1>5, <2>0, <2>1, AlikeHeld, AlikeListed
    <2>2. CASE x = c
      <3>1. HeldInv(c)'
        BY <1>5, <1>6, <2>0, <2>2 DEF HeldInv, Holds, Attaching
      <3>2. ListedInv(c)'
        BY <1>1, <1>3, <1>4, <1>5, <1>6, <2>0, <2>2
           DEF ListedInv, Attaching, Running, PumpAt
      <3> QED BY <2>2, <3>1, <3>2
    <2> QED BY <2>1, <2>2
  <1>8. ASSUME NEW x \in Conn PROVE Current(x)' => Current(x)
    <2>1. CASE x # c BY <1>5, <2>1, AlikeCurrent
    <2>2. CASE x = c
      BY <1>1, <1>3, <1>4, <1>5, <1>6, <2>2 DEF Current, Running
    <2> QED BY <2>1, <2>2
  <1>9. ASSUME NEW x \in Conn, NEW y \in Conn PROVE PairInv(x, y)'
    <2>1. PairInv(x, y) BY DEF Context, HolderInv
    <2>2. job'[x] = job[x] \/ job'[x] \in {"idle", "exit"}
      BY <1>5, <1>6 DEF Alike
    <2> QED BY <1>8, <2>1, <2>2, PairKept
  <1> QED BY <1>7, <1>9 DEF HolderInv

LEMMA DisconnectKeepsHolder ==
  ASSUME Context, NEW c \in Conn, Disconnect(c)
  PROVE  HolderInv'
  <1>0. /\ epoch' = epoch /\ pump' = pump /\ net' = net /\ job' = job
        /\ owner' = owner /\ entry' = entry /\ state' = state
        /\ listed' = listed /\ reply' = reply
        /\ \A x \in Conn : alive'[x] => alive[x]
    BY ContextTypes DEF Disconnect, session
  <1> QED BY <1>0 DEF Context, HolderInv, HeldInv, ListedInv, PairInv, Holds,
                      Current, Running, PumpAt, Told

(* While nothing was created nobody holds it.                              *)
LEMMA CreateKeepsHolder ==
  ASSUME Context, NEW c \in Conn, Create(c)
  PROVE  HolderInv'
  <1>0. /\ epoch' = epoch /\ pump' = pump /\ net' = net /\ job' = job
        /\ listed' = listed /\ reply' = reply /\ alive' = alive
        /\ \A x \in Conn : ~Holds(x)
    BY DEF Create, Context, HolderInv, HeldInv
  <1> QED BY <1>0 DEF Context, HolderInv, HeldInv, ListedInv, PairInv, Holds,
                      Current, Running, PumpAt, Told

(* A pump that ends under a listed, living connection has just told it.    *)
LEMMA PumpKeepsHolder ==
  ASSUME Context, NEW c \in Conn, PumpStep(c)
  PROVE  HolderInv'
  <1>0. /\ epoch' = epoch /\ job' = job /\ owner' = owner /\ entry' = entry
        /\ state' = state /\ listed' = listed /\ alive' = alive
        /\ reply' = reply
        /\ Running(c) /\ OthersKeep(c)
        /\ PumpStays(c) \/ PumpSends(c) \/ PumpStops(c) \/ PumpSays(c)
    BY PumpCases DEF Context, Rest, session
  <1>1. \A x \in Conn : x # c => Alike(x)
    BY <1>0 DEF OthersKeep, Alike
  <1>2. HeldInv(c) /\ ListedInv(c) /\ net[c] \in Seq(Message) /\ net[c] # <<>>
    BY <1>0, ContextTypes
       DEF Context, HolderInv, Streams, StreamInv, Running
  <1>3. ASSUME NEW m \in Message, net'[c] = Append(net[c], m)
        PROVE  /\ net'[c] # <<>> /\ Len(net'[c]) \in 1 .. Len(net'[c])
               /\ net'[c][Len(net'[c])] = m
    <2>1. PICK s \in Seq(Message) : s = net[c] BY <1>2
    <2>2. /\ Len(Append(s, m)) = Len(s) + 1 /\ Len(s) \in Nat
          /\ Append(s, m)[Len(s) + 1] = m
      OBVIOUS
    <2>3. Len(<<>>) = 0 BY SMT
    <2> QED BY <1>3, <2>1, <2>2, <2>3
  <1>4. net'[c] # <<>>
    <2>1. CASE PumpStays(c) \/ PumpStops(c)
      BY <1>2, <2>1 DEF PumpStays, PumpStops
    <2>2. CASE PumpSends(c)
      <3>1. pump[c] \in PumpRec BY ContextTypes
      <3>2. PICK m \in Message : net'[c] = Append(net[c], m)
        BY <2>2, <3>1, RecordsTyped, MessageTyped DEF PumpSends
      <3> QED BY <1>3, <3>2
    <2>3. CASE PumpSays(c) BY <1>3, <2>3 DEF PumpSays
    <2> QED BY <1>0, <2>1, <2>2, <2>3
  <1>5. Running(c)' => pump'[c].epoch = pump[c].epoch
    BY <1>0 DEF PumpStays, PumpSends, PumpStops, PumpSays, Running
  <1>6. PumpAt(c, "ended")' /\ alive[c] /\ listed[c] => Told(c)'
    <2>1. CASE PumpStays(c) \/ PumpSends(c)
      BY <2>1 DEF PumpStays, PumpSends, Running, PumpAt
    <2>2. CASE PumpStops(c)
      <3>1. listed[c] => pump[c].epoch = epoch BY <1>0, <1>2 DEF ListedInv
      <3>2. listed[c] => state \in {"attached", "lost"}
        BY <1>2 DEF HeldInv, Holds
      <3> QED BY <2>2, <3>1, <3>2 DEF PumpStops
    <2>3. CASE PumpSays(c) BY <1>3, <2>3 DEF PumpSays, Told
    <2> QED BY <1>0, <2>1, <2>2, <2>3
  <1>7. ASSUME NEW x \in Conn PROVE HeldInv(x)' /\ ListedInv(x)'
    <2>0. HeldInv(x) /\ ListedInv(x) BY DEF Context, HolderInv
    <2>1. CASE x # c BY <1>0, <1>1, <2>0, <2>1, AlikeHeld, AlikeListed
    <2>2. CASE x = c
      <3>1. HeldInv(c)' BY <1>0, <1>2 DEF HeldInv, Holds
      <3>2. ListedInv(c)' BY <1>0, <1>2, <1>4, <1>5, <1>6 DEF ListedInv
      <3> QED BY <2>2, <3>1, <3>2
    <2> QED BY <2>1, <2>2
  <1>8. ASSUME NEW x \in Conn PROVE Current(x)' => Current(x)
    <2>1. CASE x # c BY <1>0, <1>1, <2>1, AlikeCurrent
    <2>2. CASE x = c BY <1>0, <1>5, <2>2 DEF Current
    <2> QED BY <2>1, <2>2
  <1>9. ASSUME NEW x \in Conn, NEW y \in Conn PROVE PairInv(x, y)'
    <2>1. PairInv(x, y) BY DEF Context, HolderInv
    <2> QED BY <1>0, <1>8, <2>1, PairKept
  <1> QED BY <1>7, <1>9 DEF HolderInv

(* The inductive invariant behind the three results below.                 *)
THEOREM HolderInvariant ==
  ASSUME AnyClient = FALSE
  PROVE  Spec => []HolderInv
  <1>1. Init => HolderInv
    <2> SUFFICES ASSUME Init PROVE HolderInv OBVIOUS
    <2>1. ASSUME NEW c \in Conn
          PROVE  /\ job[c] = "idle" /\ listed[c] = FALSE
                 /\ pump[c].pc = "none"
      BY DEF Init, NoPump
    <2> QED BY <2>1 DEF HolderInv, HeldInv, ListedInv, PairInv, Holds,
                        Attaching, Current, Running, PumpAt
  <1>2. TypeOK /\ Streams /\ HolderInv /\ [Next]_vars => HolderInv'
    <2> SUFFICES ASSUME Context, [Next]_vars PROVE HolderInv'
      BY DEF Context
    <2>1. ASSUME UNCHANGED <<epoch, entry, owner, pump, net, reply, job,
                             listed, alive>>,
                 state' \in {state, "lost"}
          PROVE  HolderInv'
      BY <2>1, ThreadKeepsHolder DEF Alike
    <2>2. CASE UNCHANGED vars BY <2>1, <2>2 DEF vars
    <2>3. ASSUME NEW n \in 1 .. MaxRead, ReadPty(n) PROVE HolderInv'
      BY <2>1, <2>3 DEF ReadPty
    <2>4. ASSUME NEW how \in Ending, ReadEnd(how) PROVE HolderInv'
      BY <2>1, <2>4 DEF ReadEnd
    <2>5. CASE FlipLost \/ NotifyPump
      BY <2>1, <2>5 DEF FlipLost, NotifyPump
    <2>6. ASSUME NEW c \in Conn, JobStep(c) PROVE HolderInv'
      BY <2>6, BumpKeepsHolder, SnapshotKeepsHolder, EpochKeepsHolder,
         RespondKeepsHolder DEF JobStep
    <2>7. ASSUME NEW c \in Conn, Detach(c) \/ Close(c) \/ ConnExit(c)
          PROVE  HolderInv'
      BY <2>7, LeavingKeepsHolder
    <2> QED BY <2>2, <2>3, <2>4, <2>5, <2>6, <2>7, CreateKeepsHolder,
               AttachKeepsHolder, DisconnectKeepsHolder, PumpKeepsHolder
            DEF Next
  <1> QED BY <1>1, <1>2, DaemonTyped, StreamsInvariant, PTL DEF Spec

(* After a detach and a new attach the old pump is never taken for the new *)
(* one (pump_epoch in attach and event_pump).                              *)
THEOREM PumpIsUnique ==
  ASSUME AnyClient = FALSE
  PROVE  Spec => []OneCurrentPump
  <1>1. HolderInv => OneCurrentPump
    BY DEF HolderInv, PairInv, Current, OneCurrentPump
  <1> QED BY <1>1, HolderInvariant, PTL

(* An attached client is never left without its pump (event_pump's exits). *)
THEOREM EndedPumpsTold ==
  ASSUME AnyClient = FALSE
  PROVE  Spec => []EndedMeansTold
  <1>1. HolderInv => EndedMeansTold
    BY DEF HolderInv, ListedInv, EndedMeansTold
  <1> QED BY <1>1, HolderInvariant, PTL

(* The cleanup of one connection never detaches another's session          *)
(* (handle_connection, stage 3).                                           *)
THEOREM CleanupTouchesOwn ==
  ASSUME AnyClient = FALSE
  PROVE  Spec => CleanupIsLocal
  <1>1. HolderInv /\ [Next]_vars =>
          [\A c \in Conn : ConnExit(c) /\ state = "attached"
                            /\ state' = "detached" => owner = c]_vars
    BY DEF HolderInv, HeldInv, Holds, ConnExit
  <1> QED BY <1>1, HolderInvariant, PTL DEF Spec, CleanupIsLocal

(* All that the clients of a session are told, taken together.             *)
THEOREM ClientsAreTold ==
  ASSUME AnyClient = FALSE
  PROVE  Spec => []ClientsTold
  <1>1. TypeOK /\ StreamContiguous /\ OneCurrentPump
          /\ TerminalRecorded /\ EndedMeansTold => ClientsTold
    BY DEF ClientsTold
  <1> QED BY <1>1, DaemonTyped, StreamsJoin, PumpIsUnique, LostIsRecorded,
             EndedPumpsTold, PTL
=============================================================================
