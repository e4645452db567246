------------------------- MODULE DaemonClientProofs -------------------------
(***************************************************************************)
(* Proofs about DaemonClient for any number of callers, any queue size and *)
(* any number of calls and messages.                                       *)
(***************************************************************************)
EXTENDS DaemonClient, TLAPS

WireRec == [id : Id \cup {0}, got : {"none", "ok", "error"}, n : Nat]
Request == [id : Id, op : CallOp]

LEMMA Records ==
  /\ NoCall \in CallRec
  /\ \A op \in CallOp \cup {"none"} : Refused(op) \in CallRec
  /\ \A op \in CallOp, id \in Id :
       [NoCall EXCEPT !.op = op, !.pc = "insert", !.id = id] \in CallRec
  /\ \A c \in CallRec :
       /\ \A pc \in CallPc : [c EXCEPT !.pc = pc] \in CallRec
       /\ \A got \in {"none", "ok", "error"} : [c EXCEPT !.got = got] \in CallRec
       /\ c.op \in CallOp \cup {"none"} /\ c.id \in Id \cup {0}
       /\ c.got \in {"none", "ok", "error"} /\ c.pc \in CallPc
  /\ \A id \in Id \cup {0}, got \in {"none", "ok", "error"}, n \in Nat :
       Answer(id, got, n) \in WireRec
  /\ \A m \in WireRec : m.id \in Id \cup {0} /\ m.n \in Nat
                          /\ m.got \in {"none", "ok", "error"}
  /\ \A r \in Request : r.id \in Id /\ r.op \in CallOp
  BY DEF NoCall, Refused, CallRec, CallPc, CallOp, Answer, WireRec, Request

LEMMA CallPcs == {"idle", "insert", "write", "wait"} \subseteq CallPc
  BY DEF CallPc

LEMMA CallFields ==
  ASSUME call \in [Actor -> CallRec], NEW a \in Actor
  PROVE  /\ call[a] \in CallRec /\ call[a].id \in Id \cup {0}
         /\ call[a].op \in CallOp \cup {"none"} /\ call[a].pc \in CallPc
         /\ call[a].got \in {"none", "ok", "error"}
  BY Records

(* Steps that move one call.                                               *)
LEMMA OneCall ==
  ASSUME call \in [Actor -> CallRec], NEW a \in Actor, NEW c \in CallRec,
         CallIs(a, c)
  PROVE  /\ call' \in [Actor -> CallRec] /\ call'[a] = c
         /\ \A b \in Actor : b # a => call'[b] = call[b]
  BY DEF CallIs

LEMMA OnePc ==
  ASSUME call \in [Actor -> CallRec], NEW a \in Actor, NEW pc \in CallPc,
         CallTo(a, pc)
  PROVE  /\ call' \in [Actor -> CallRec]
         /\ call'[a].op = call[a].op /\ call'[a].id = call[a].id
         /\ call'[a].got = call[a].got /\ call'[a].pc = pc
         /\ \A b \in Actor : b # a => call'[b] = call[b]
  <1>1. PICK c \in CallRec : c = call[a] OBVIOUS
  <1>2. [c EXCEPT !.pc = pc] \in CallRec BY Records
  <1>3. call' = [call EXCEPT ![a] = [c EXCEPT !.pc = pc]]
    BY <1>1 DEF CallTo
  <1>4. call'[a] = [c EXCEPT !.pc = pc] BY <1>3
  <1>5. /\ call'[a].op = c.op /\ call'[a].id = c.id
        /\ call'[a].got = c.got /\ call'[a].pc = pc
    BY <1>4 DEF CallRec
  <1> QED BY <1>1, <1>2, <1>3, <1>5

LEMMA RefusedFields ==
  ASSUME NEW op \in CallOp \cup {"none"}
  PROVE  /\ Refused(op) \in CallRec /\ Refused(op).op = op
         /\ Refused(op).pc = "wait" /\ Refused(op).id = 0
         /\ Refused(op).got = "error"
  BY Records DEF Refused

(* A call that starts is refused, or gets the next id.                     *)
Starts(a, op) ==
  /\ call'[a].op = op
  /\ \/ /\ call'[a].id = 0 /\ call'[a].pc = "wait" /\ call'[a].got = "error"
        /\ nextId' = nextId /\ closed
     \/ /\ call'[a].id = nextId /\ call'[a].pc = "insert"
        /\ call'[a].got = "none"
        /\ nextId \in Id /\ nextId' = nextId + 1

LEMMA OneStart ==
  ASSUME call \in [Actor -> CallRec], nextId \in Nat \ {0},
         NEW a \in Actor, NEW op \in CallOp, StartCall(a, op)
  PROVE  /\ call' \in [Actor -> CallRec] /\ Starts(a, op)
         /\ \A b \in Actor : b # a => call'[b] = call[b]
  <1>1. CASE closed
    <2>1. CallIs(a, Refused(op)) /\ nextId' = nextId BY <1>1 DEF StartCall
    <2> QED BY <1>1, <2>1, OneCall, RefusedFields DEF Starts
  <1>2. CASE ~closed
    <2>1. PICK id \in Id : id = nextId
      BY <1>2, ClientAssumption DEF StartCall, Id
    <2>2. PICK c : c = [NoCall EXCEPT !.op = op, !.pc = "insert", !.id = id]
      OBVIOUS
    <2>3. /\ c \in CallRec /\ c.op = op /\ c.pc = "insert" /\ c.id = id
          /\ c.got = "none"
      BY <2>2, Records DEF NoCall
    <2>4. CallIs(a, c) /\ nextId' = nextId + 1
      BY <1>2, <2>1, <2>2 DEF StartCall
    <2> QED BY <2>1, <2>3, <2>4, OneCall DEF Starts
  <1> QED BY <1>1, <1>2

(* A call that is about to write has an id and an operation.               *)
HasId ==
  \A a \in Actor : call[a].pc \in {"insert", "write"} =>
    call[a].id \in Id /\ call[a].op \in CallOp

CallsTyped ==
  /\ closed \in BOOLEAN /\ pending \subseteq Id /\ nextId \in Nat \ {0}
  /\ call \in [Actor -> CallRec]
  /\ HasId

LEMMA StartTyped ==
  ASSUME CallsTyped, NEW a \in Actor, NEW op \in CallOp, StartCall(a, op),
         UNCHANGED <<closed, pending>>
  PROVE  CallsTyped'
  <1>1. /\ call' \in [Actor -> CallRec] /\ Starts(a, op)
        /\ \A b \in Actor : b # a => call'[b] = call[b]
    BY OneStart DEF CallsTyped
  <1> QED BY <1>1 DEF CallsTyped, HasId, Starts

LEMMA StepTyped ==
  ASSUME CallsTyped, NEW a \in Actor, CallStep(a)
  PROVE  CallsTyped'
  <1>0. call \in [Actor -> CallRec] BY DEF CallsTyped
  <1>1. CASE Insert(a)
    <2>1. CallTo(a, "write") BY <1>1 DEF Insert
    <2> QED BY <1>0, <1>1, <2>1, OnePc, CallPcs
            DEF CallsTyped, HasId, Insert
  <1>2. CASE Write(a)
    <2>1. CASE CallTo(a, "wait") /\ UNCHANGED <<pending, closed>>
      BY <1>0, <1>2, <2>1, OnePc, CallPcs DEF CallsTyped, HasId, Write
    <2>2. CASE /\ pending' = pending \ {call[a].id} /\ closed' = TRUE
               /\ CallIs(a, Refused(call[a].op))
      BY <1>0, <1>2, <2>2, OneCall, RefusedFields, CallFields
         DEF CallsTyped, HasId, Write
    <2> QED BY <1>2, <2>1, <2>2 DEF Write
  <1>3. CASE Timeout(a)
    <2>1. CallIs(a, Refused(call[a].op)) BY <1>3 DEF Timeout
    <2> QED BY <1>0, <1>3, <2>1, OneCall, RefusedFields, CallFields
            DEF CallsTyped, HasId, Timeout
  <1> QED BY <1>1, <1>2, <1>3 DEF CallStep

LEMMA DeliverTyped ==
  ASSUME CallsTyped, NEW S, NEW got \in {"none", "ok", "error"},
         Deliver(S, got)
  PROVE  /\ pending' \subseteq Id /\ call' \in [Actor -> CallRec] /\ HasId'
         /\ \A a \in Actor :
              /\ call'[a].op = call[a].op /\ call'[a].pc = call[a].pc
              /\ call'[a].id = call[a].id
              /\ call'[a].got = IF call[a].id \in S THEN got ELSE call[a].got
  <1>1. ASSUME NEW a \in Actor
        PROVE  /\ call'[a] \in CallRec
               /\ call'[a].op = call[a].op /\ call'[a].pc = call[a].pc
               /\ call'[a].id = call[a].id
               /\ call'[a].got = IF call[a].id \in S THEN got ELSE call[a].got
    <2>1. PICK c \in CallRec : c = call[a] BY DEF CallsTyped
    <2>2. call'[a] = IF c.id \in S THEN [c EXCEPT !.got = got] ELSE c
      BY <2>1 DEF Deliver
    <2>3. /\ [c EXCEPT !.got = got] \in CallRec
          /\ [c EXCEPT !.got = got].got = got
          /\ [c EXCEPT !.got = got].op = c.op
          /\ [c EXCEPT !.got = got].pc = c.pc
          /\ [c EXCEPT !.got = got].id = c.id
      BY Records DEF CallRec
    <2> QED BY <2>1, <2>2, <2>3
  <1>2. call' \in [Actor -> CallRec] BY <1>1 DEF Deliver
  <1> QED BY <1>1, <1>2 DEF CallsTyped, Deliver, HasId
-----------------------------------------------------------------------------
DaemonTyped ==
  /\ sent \in Seq(Messages)
  /\ remote \in {"none", "created", "attached", "detached", "lost", "closed"}
  /\ requests \in Seq(Request) /\ wire \in Seq(WireRec)
  /\ served \subseteq Request
OutputTyped ==
  /\ subscriber \in {"none", "listed", "gone"}
  /\ queue \in Seq(Nat) /\ dropped \subseteq Nat /\ given \in Seq(Nat)
  /\ events \in {"none", "empty", "terminal"}
  /\ task \in {"none", "initial", "select", "ended"}
PhaseTyped ==
  /\ phase \in {"create", "subscribe", "attach", "handle", "open", "failed",
                "gone"}
  /\ ended \in BOOLEAN /\ held \in BOOLEAN /\ freed \in BOOLEAN
LinkTyped ==
  /\ link \in {"up", "cut", "closed"}
  /\ reader \in {"run", "drain", "clear", "ended"}

Typed ==
  DaemonTyped /\ CallsTyped /\ OutputTyped /\ PhaseTyped /\ LinkTyped

LEMMA TypedIsTypeOK == Typed => TypeOK
  BY DEF Typed, TypeOK, DaemonTyped, CallsTyped, OutputTyped, PhaseTyped,
         LinkTyped, Request, WireRec

LEMMA PutTyped ==
  ASSUME wire \in Seq(WireRec), NEW m \in WireRec, Put(m)
  PROVE  wire' \in Seq(WireRec)
  BY DEF Put

LEMMA SendTyped ==
  ASSUME sent \in Seq(Messages), NEW m \in Messages, Send(m)
  PROVE  sent' \in Seq(Messages)
  BY DEF Send

LEMMA HeadTail ==
  ASSUME NEW S, NEW s \in Seq(S), s # <<>>
  PROVE  Head(s) \in S /\ Tail(s) \in Seq(S)
  OBVIOUS

LEMMA AppendIn ==
  ASSUME NEW S, NEW s \in Seq(S), NEW e \in S
  PROVE  Append(s, e) \in Seq(S)
  OBVIOUS

LEMMA ServeTyped ==
  ASSUME Typed, Serve
  PROVE  DaemonTyped'
  <1>0. DaemonTyped BY DEF Typed
  <1>1. PICK r : r = Head(requests) OBVIOUS
  <1>2. r \in Request /\ requests' \in Seq(Request)
    BY <1>0, <1>1, HeadTail DEF DaemonTyped, Serve
  <1>3. r.id \in Id \cup {0} /\ r.op \in CallOp BY <1>2, Records
  <1>4. /\ Answer(r.id, "ok", 1) \in WireRec
        /\ Answer(r.id, "ok", 0) \in WireRec
        /\ Answer(r.id, "error", 0) \in WireRec
    BY <1>3, Records
  <1>5. CASE /\ Accepts(r.op) /\ remote' = After(r.op)
             /\ served' = served \cup {r}
             /\ IF r.op = "attach" /\ link = "up"
                THEN /\ \E m \in Messages : Send(m)
                     /\ Put(Answer(r.id, "ok", 1))
                ELSE UNCHANGED sent /\ Put(Answer(r.id, "ok", 0))
    <2>1. sent' \in Seq(Messages) BY <1>0, <1>5, SendTyped DEF DaemonTyped
    <2>2. wire' \in Seq(WireRec) BY <1>0, <1>4, <1>5, PutTyped DEF DaemonTyped
    <2>3. remote' \in {"none", "created", "attached", "detached", "lost",
                       "closed"}
      BY <1>0, <1>3, <1>5 DEF DaemonTyped, After, CallOp
    <2> QED BY <1>0, <1>2, <1>5, <2>1, <2>2, <2>3 DEF DaemonTyped
  <1>6. CASE /\ Put(Answer(r.id, "error", 0))
             /\ UNCHANGED <<remote, served, sent>>
    BY <1>0, <1>2, <1>4, <1>6, PutTyped DEF DaemonTyped
  <1> QED BY <1>1, <1>5, <1>6 DEF Serve

LEMMA PushTyped ==
  ASSUME Typed, Push
  PROVE  DaemonTyped'
  <1>0. DaemonTyped BY DEF Typed
  <1>1. sent' \in Seq(Messages) BY <1>0, SendTyped DEF Push, DaemonTyped
  <1>2. PICK n \in Nat : n = Len(sent') BY <1>1
  <1>3. Event(n) \in WireRec BY Records DEF Event
  <1>4. wire' = Append(wire, Event(n)) BY <1>2 DEF Push
  <1> QED BY <1>0, <1>1, <1>3, <1>4 DEF Push, DaemonTyped

LEMMA ReaderTyped ==
  ASSUME Typed, ReaderStep
  PROVE  Typed'
  <1>0. /\ DaemonTyped /\ CallsTyped /\ OutputTyped /\ PhaseTyped
        /\ LinkTyped
    BY DEF Typed
  <1> SUFFICES /\ DaemonTyped' /\ CallsTyped' /\ OutputTyped'
               /\ PhaseTyped' /\ LinkTyped'
    BY DEF Typed
  <1>1. wire # <<>> => /\ Head(wire) \in WireRec /\ Tail(wire) \in Seq(WireRec)
                       /\ Head(wire).got \in {"none", "ok", "error"}
                       /\ Head(wire).n \in Nat
    BY <1>0, HeadTail, Records DEF DaemonTyped
  <1>2. CASE DispatchAnswer
    <2>1. CallsTyped'
      BY <1>0, <1>1, <1>2, DeliverTyped DEF DispatchAnswer, CallsTyped
    <2> QED BY <1>0, <1>1, <1>2, <2>1
            DEF DispatchAnswer, DaemonTyped, OutputTyped, PhaseTyped,
                LinkTyped, output
  <1>3. CASE DispatchEvent
    <2>1. PICK n \in Nat : n = Head(wire).n BY <1>1, <1>3 DEF DispatchEvent
    <2>2. /\ queue' = queue \/ queue' = Append(queue, n)
          /\ dropped' = dropped \/ dropped' = dropped \cup {n}
          /\ events' = events \/ events' = "terminal"
          /\ UNCHANGED <<subscriber, given, task>>
      BY <1>3, <2>1 DEF DispatchEvent
    <2>3. OutputTyped'
      <3>1. queue' \in Seq(Nat) BY <1>0, <2>2, AppendIn DEF OutputTyped
      <3>2. dropped' \subseteq Nat BY <1>0, <2>2 DEF OutputTyped
      <3>3. events' \in {"none", "empty", "terminal"}
        BY <1>0, <2>2 DEF OutputTyped
      <3> QED BY <1>0, <2>2, <3>1, <3>2, <3>3 DEF OutputTyped
    <2> QED BY <1>0, <1>1, <1>3, <2>3
            DEF DispatchEvent, DaemonTyped, CallsTyped, HasId, PhaseTyped,
                LinkTyped, calls
  <1>4. CASE ReaderEof
    BY <1>0, <1>4
       DEF ReaderEof, DaemonTyped, CallsTyped, HasId, PhaseTyped, LinkTyped,
           OutputTyped, daemon, output
  <1>5. CASE ReaderDrain
    <2>1. CallsTyped' BY <1>0, <1>5, DeliverTyped DEF ReaderDrain, CallsTyped
    <2> QED BY <1>0, <1>5, <2>1
            DEF ReaderDrain, DaemonTyped, OutputTyped, PhaseTyped, LinkTyped,
                daemon, output
  <1>6. CASE ReaderClear
    BY <1>0, <1>6
       DEF ReaderClear, DaemonTyped, CallsTyped, HasId, PhaseTyped, LinkTyped,
           OutputTyped, daemon, calls
  <1> QED BY <1>2, <1>3, <1>4, <1>5, <1>6 DEF ReaderStep

LEMMA OpenTyped ==
  ASSUME Typed, OpenerStep
  PROVE  Typed'
  <1>0. /\ DaemonTyped /\ CallsTyped /\ OutputTyped /\ PhaseTyped
        /\ LinkTyped
    BY DEF Typed
  <1> SUFFICES /\ DaemonTyped' /\ CallsTyped' /\ OutputTyped'
               /\ PhaseTyped' /\ LinkTyped'
    BY DEF Typed
  <1>1. Opener \in Actor BY DEF Actor
  <1>2. DaemonTyped' /\ LinkTyped'
    BY <1>0 DEF OpenerStep, CreateSession, SubscribeData, AttachSession,
            NewHandle, QuietOpen, DaemonTyped, LinkTyped, daemon
  <1>3. ASSUME NEW op \in CallOp, OpenerCalls(op), QuietOpen
        PROVE  CallsTyped'
    BY <1>0, <1>1, <1>3, StartTyped DEF OpenerCalls, QuietOpen
  <1>4. ASSUME NEW got, OpenerAnswered(got), QuietOpen
        PROVE  CallsTyped'
    <2>1. CallIs(Opener, NoCall) BY <1>4 DEF OpenerAnswered
    <2>2. /\ call' \in [Actor -> CallRec] /\ call'[Opener] = NoCall
          /\ \A b \in Actor : b # Opener => call'[b] = call[b]
      BY <1>0, <1>1, <2>1, OneCall, Records DEF CallsTyped
    <2> QED BY <1>0, <1>4, <2>2
            DEF OpenerAnswered, QuietOpen, CallsTyped, HasId, NoCall
  <1>5. CASE CreateSession
    <2>1. CallsTyped' BY <1>3, <1>4, <1>5 DEF CreateSession, CallOp
    <2> QED BY <1>0, <1>2, <1>5, <2>1
            DEF CreateSession, QuietOpen, Open, OutputTyped, PhaseTyped
  <1>6. CASE SubscribeData
    BY <1>0, <1>2, <1>6
       DEF SubscribeData, QuietOpen, Open, OutputTyped, PhaseTyped, CallsTyped,
           HasId
  <1>7. CASE AttachSession
    <2>1. CallsTyped' BY <1>3, <1>4, <1>7 DEF AttachSession, CallOp
    <2> QED BY <1>0, <1>2, <1>7, <2>1
            DEF AttachSession, QuietOpen, OutputTyped, PhaseTyped
  <1>8. CASE NewHandle
    BY <1>0, <1>2, <1>8
       DEF NewHandle, QuietOpen, Open, OutputTyped, PhaseTyped, CallsTyped,
           HasId
  <1> QED BY <1>5, <1>6, <1>7, <1>8 DEF OpenerStep

LEMMA UseTyped ==
  ASSUME Typed, NEW a \in Caller, CallerStep(a)
  PROVE  Typed'
  <1>0. /\ DaemonTyped /\ CallsTyped /\ OutputTyped /\ PhaseTyped
        /\ LinkTyped
    BY DEF Typed
  <1> SUFFICES /\ DaemonTyped' /\ CallsTyped' /\ OutputTyped'
               /\ PhaseTyped' /\ LinkTyped'
    BY DEF Typed
  <1>1. a \in Actor BY DEF Actor
  <1>2. DaemonTyped' /\ LinkTyped'
    BY <1>0 DEF CallerStep, Input, Detach, Close, Return, QuietUse,
            DaemonTyped, LinkTyped, daemon
  <1>3. OutputTyped' /\ PhaseTyped'
    BY <1>0 DEF CallerStep, Input, Detach, Close, Return, QuietUse,
            OutputTyped, PhaseTyped
  <1>4. ASSUME NEW op \in CallOp, StartCall(a, op), QuietUse
        PROVE  CallsTyped'
    BY <1>0, <1>1, <1>4, StartTyped DEF QuietUse
  <1>5. ASSUME QuietUse, UNCHANGED <<nextId, call>> PROVE CallsTyped'
    BY <1>0, <1>5 DEF QuietUse, CallsTyped, HasId
  <1>6. CASE Return(a)
    <2>1. CallIs(a, NoCall) BY <1>6 DEF Return
    <2>2. /\ call' \in [Actor -> CallRec] /\ call'[a] = NoCall
          /\ \A b \in Actor : b # a => call'[b] = call[b]
      BY <1>0, <1>1, <2>1, OneCall, Records DEF CallsTyped
    <2>3. CallsTyped'
      BY <1>0, <1>6, <2>2 DEF Return, QuietUse, CallsTyped, HasId, NoCall
    <2> QED BY <1>2, <1>3, <2>3
  <1>7. CASE Input(a) \/ Detach(a) \/ Close(a)
    BY <1>2, <1>3, <1>4, <1>5, <1>7 DEF Input, Detach, Close, CallOp
  <1> QED BY <1>6, <1>7 DEF CallerStep

(* The state keeps its type whatever the daemon, the network and callers   *)
(* do.                                                                     *)
THEOREM ClientTyped == Spec => []Typed
  <1>1. Init => Typed
    <2> SUFFICES ASSUME Init PROVE Typed OBVIOUS
    <2>1. CallsTyped
      <3>1. call \in [Actor -> CallRec] BY Records DEF Init
      <3>2. HasId BY DEF Init, HasId, NoCall
      <3>3. closed \in BOOLEAN /\ pending = {} BY DEF Init
      <3>4. nextId = 1 BY DEF Init, FirstId
      <3>5. nextId \in Nat \ {0} BY <3>4
      <3> QED BY <3>1, <3>2, <3>3, <3>5 DEF CallsTyped
    <2>2. DaemonTyped BY DEF Init, StreamInit, DaemonTyped
    <2>3. OutputTyped BY DEF Init, OutputTyped
    <2>4. PhaseTyped /\ LinkTyped BY DEF Init, PhaseTyped, LinkTyped
    <2> QED BY <2>1, <2>2, <2>3, <2>4 DEF Typed
  <1>2. Typed /\ [Next]_vars => Typed'
    <2> SUFFICES ASSUME Typed, [Next]_vars PROVE Typed' OBVIOUS
    <2>0. /\ DaemonTyped /\ CallsTyped /\ OutputTyped /\ PhaseTyped
          /\ LinkTyped
      BY DEF Typed
    <2>1. CASE UNCHANGED vars
      BY <2>0, <2>1
         DEF Typed, vars, daemon, calls, output, DaemonTyped, CallsTyped, HasId,
             OutputTyped, PhaseTyped, LinkTyped
    <2>2. ASSUME UNCHANGED <<reader, calls, phase, output, ended, held, freed>>,
                 DaemonTyped', link' \in {"up", "cut", "closed"}
          PROVE  Typed'
      BY <2>0, <2>2
         DEF Typed, calls, output, CallsTyped, HasId, OutputTyped, PhaseTyped,
             LinkTyped
    <2>3. CASE Serve
      BY <2>0, <2>2, <2>3, ServeTyped DEF Serve, LinkTyped
    <2>4. CASE Push
      BY <2>0, <2>2, <2>4, PushTyped DEF Push, LinkTyped
    <2>5. CASE ShellEnds \/ LinkFails \/ DaemonNotices
      <3>1. DaemonTyped'
        <4>1. CASE ShellEnds BY <2>0, <4>1 DEF ShellEnds, DaemonTyped
        <4>2. CASE LinkFails BY <2>0, <4>2 DEF LinkFails, DaemonTyped, daemon
        <4>3. CASE DaemonNotices
          BY <2>0, <4>3 DEF DaemonNotices, DaemonTyped
        <4> QED BY <2>5, <4>1, <4>2, <4>3
      <3>2. link' \in {"up", "cut", "closed"}
        BY <2>0, <2>5 DEF ShellEnds, LinkFails, DaemonNotices, LinkTyped
      <3>3. UNCHANGED <<reader, calls, phase, output, ended, held, freed>>
        BY <2>5 DEF ShellEnds, LinkFails, DaemonNotices
      <3> QED BY <2>2, <3>1, <3>2, <3>3
    <2>6. CASE ReaderStep BY <2>6, ReaderTyped
    <2>7. CASE OpenerStep BY <2>7, OpenTyped
    <2>8. CASE ReadStep
      <3>1. OutputTyped'
        <4>1. CASE ReadInitial
          BY <2>0, <4>1 DEF ReadInitial, QuietRead, OutputTyped
        <4>2. CASE ReadQueue
          <5>1. PICK n \in Nat : n = Head(queue)
            BY <2>0, <4>2, HeadTail DEF ReadQueue, OutputTyped
          <5>2. queue' \in Seq(Nat) /\ given' = Append(given, n)
            BY <2>0, <4>2, <5>1, HeadTail DEF ReadQueue, OutputTyped
          <5> QED BY <2>0, <4>2, <5>2 DEF ReadQueue, QuietRead, OutputTyped
        <4>3. CASE ReadEnd
          BY <2>0, <4>3 DEF ReadEnd, QuietRead, OutputTyped
        <4> QED BY <2>8, <4>1, <4>2, <4>3 DEF ReadStep
      <3>2. CallsTyped' /\ DaemonTyped' /\ PhaseTyped' /\ LinkTyped'
        BY <2>0, <2>8 DEF ReadStep, ReadInitial, ReadQueue, ReadEnd, QuietRead,
           daemon, calls, DaemonTyped, CallsTyped, HasId, PhaseTyped, LinkTyped
      <3> QED BY <3>1, <3>2 DEF Typed
    <2>9. CASE DropHandle \/ Release
      <3>1. OutputTyped'
        <4>1. CASE DropHandle
          BY <2>0, <4>1 DEF DropHandle, OutputTyped
        <4>2. CASE Release
          BY <2>0, <4>2 DEF Release, output, OutputTyped
        <4> QED BY <2>9, <4>1, <4>2
      <3>2. PhaseTyped' /\ LinkTyped'
        BY <2>0, <2>9 DEF DropHandle, Release, PhaseTyped, LinkTyped
      <3>3. DaemonTyped' /\ CallsTyped'
        BY <2>0, <2>9 DEF DropHandle, Release, daemon, calls, DaemonTyped,
           CallsTyped, HasId
      <3> QED BY <3>1, <3>2, <3>3 DEF Typed
    <2>10. ASSUME NEW a \in Actor, CallStep(a) PROVE Typed'
      <3>1. CallsTyped' BY <2>0, <2>10, StepTyped
      <3>2. OutputTyped' /\ PhaseTyped' /\ LinkTyped'
        BY <2>0, <2>10 DEF CallStep, Insert, Write, Timeout, output,
           OutputTyped, PhaseTyped, LinkTyped
      <3>3. DaemonTyped'
        <4>1. CASE UNCHANGED daemon
          BY <2>0, <4>1 DEF DaemonTyped, daemon
        <4>2. CASE Write(a)
          <5>1. PICK r \in Request : r = [id |-> call[a].id, op |-> call[a].op]
            BY <2>0, <4>2 DEF Write, CallsTyped, HasId, Request
          <5>2. requests' = requests \/ requests' = Append(requests, r)
            BY <4>2, <5>1 DEF Write
          <5>3. requests' \in Seq(Request) BY <2>0, <5>2 DEF DaemonTyped
          <5> QED BY <2>0, <4>2, <5>3 DEF Write, DaemonTyped
        <4> QED BY <2>10, <4>1, <4>2 DEF CallStep, Insert, Timeout
      <3> QED BY <3>1, <3>2, <3>3 DEF Typed
    <2>11. ASSUME NEW a \in Caller, CallerStep(a) PROVE Typed'
      BY <2>11, UseTyped
    <2> QED BY <2>1, <2>3, <2>4, <2>5, <2>6, <2>7, <2>8, <2>9, <2>10, <2>11
            DEF Next
  <1> QED BY <1>1, <1>2, PTL DEF Spec

(* TypeOK holds in every reachable state.                                  *)
THEOREM ClientTypeCorrect == Spec => []TypeOK
  BY ClientTyped, TypedIsTypeOK, PTL
-----------------------------------------------------------------------------
(* Calls, requests and answers.                                            *)

Occurs(s, x) == \E i \in 1 .. Len(s) : s[i] = x

LEMMA OccursTail ==
  ASSUME NEW S, NEW s \in Seq(S), s # <<>>, NEW x, Occurs(Tail(s), x)
  PROVE  Occurs(s, x)
  <1>1. PICK i \in 1 .. Len(Tail(s)) : Tail(s)[i] = x BY DEF Occurs
  <1>2. i + 1 \in 1 .. Len(s) /\ s[i + 1] = x BY <1>1
  <1> QED BY <1>2 DEF Occurs

LEMMA OccursAppend ==
  ASSUME NEW S, NEW s \in Seq(S), NEW e \in S, NEW x, Occurs(Append(s, e), x)
  PROVE  x = e \/ Occurs(s, x)
  <1>1. PICK i \in 1 .. Len(Append(s, e)) : Append(s, e)[i] = x BY DEF Occurs
  <1>2. CASE i = Len(s) + 1 BY <1>1, <1>2
  <1>3. CASE i \in 1 .. Len(s) BY <1>1, <1>3 DEF Occurs
  <1> QED BY <1>1, <1>2, <1>3

LEMMA OccursHead ==
  ASSUME NEW S, NEW s \in Seq(S), s # <<>>
  PROVE  Occurs(s, Head(s))
  <1>1. 1 \in 1 .. Len(s) /\ s[1] = Head(s) OBVIOUS
  <1> QED BY <1>1 DEF Occurs

CallServed(a) == [id |-> call[a].id, op |-> call[a].op] \in served

(* A request is the call that has its id.                                  *)
RequestsMatch ==
  \A r \in Request : Occurs(requests, r) =>
    /\ r.id < nextId
    /\ \A a \in Actor : call[a].id = r.id => call[a].op = r.op

(* So is an answer, which says ok after the call was carried out.          *)
AnswersMatch ==
  \A m \in WireRec : Occurs(wire, m) =>
    /\ m.id < nextId
    /\ m.id # 0 /\ m.got = "ok" =>
         \A a \in Actor : call[a].id = m.id => CallServed(a)

IdsDistinct ==
  \A a \in Actor :
    /\ call[a].id < nextId
    /\ \A b \in Actor : call[a].id = call[b].id /\ call[a].id # 0 => a = b

(* An id is in the table from Insert to the call's result.                 *)
TableInv ==
  \A a \in Actor :
    /\ call[a].pc = "insert" => call[a].got = "none"
    /\ call[a].pc = "insert" \/ call[a].got # "none" => call[a].id \notin pending

CallsInv ==
  /\ RequestsMatch /\ AnswersMatch /\ IdsDistinct /\ TableInv
  /\ OkMeansServed /\ PendingIsWaiting

LEMMA QuietKeepsCalls ==
  ASSUME CallsInv, UNCHANGED <<pending, nextId, call, requests, wire, served>>
  PROVE  CallsInv'
  BY DEF CallsInv, RequestsMatch, AnswersMatch, IdsDistinct, TableInv,
         OkMeansServed, PendingIsWaiting, CallServed

LEMMA ServeKeepsCalls ==
  ASSUME Typed, CallsInv, Serve
  PROVE  CallsInv'
  <1>0. DaemonTyped /\ CallsTyped BY DEF Typed
  <1>1. PICK r : r = Head(requests) OBVIOUS
  <1>2. /\ r \in Request /\ r.id \in Id /\ Occurs(requests, r)
        /\ requests' = Tail(requests) /\ requests # <<>>
    BY <1>0, <1>1, HeadTail, OccursHead, Records DEF DaemonTyped, Serve
  <1>3. UNCHANGED <<pending, nextId, call>> BY DEF Serve, calls
  <1>4. /\ r.id < nextId
        /\ \A a \in Actor : call[a].id = r.id => call[a].op = r.op
    BY <1>2 DEF CallsInv, RequestsMatch
  <1>5. PICK got \in {"ok", "error"}, n \in {0, 1} :
          /\ Put(Answer(r.id, got, n))
          /\ IF got = "ok" THEN served' = served \cup {r} ELSE served' = served
    BY <1>1 DEF Serve
  <1>6. PICK m \in WireRec : m = Answer(r.id, got, n)
    BY <1>2, Records
  <1>7. m.id = r.id /\ m.got = got BY <1>6 DEF Answer
  <1>8. RequestsMatch'
    BY <1>0, <1>2, <1>3, OccursTail DEF CallsInv, RequestsMatch, DaemonTyped
  <1>9. \A a \in Actor : CallServed(a) => CallServed(a)'
    BY <1>3, <1>5 DEF CallServed
  <1>10. AnswersMatch'
    <2> SUFFICES ASSUME NEW x \in WireRec, Occurs(wire', x)
                 PROVE  /\ x.id < nextId'
                        /\ x.id # 0 /\ x.got = "ok" => \A a \in Actor :
                             call'[a].id = x.id => CallServed(a)'
      BY DEF AnswersMatch
    <2>1. x = m \/ Occurs(wire, x)
      BY <1>0, <1>5, <1>6, OccursAppend DEF Put, DaemonTyped
    <2>2. CASE Occurs(wire, x)
      BY <1>3, <1>9, <2>2 DEF CallsInv, AnswersMatch
    <2>3. CASE x = m
      <3>1. ASSUME got = "ok", NEW a \in Actor, call[a].id = r.id
            PROVE  CallServed(a)'
        <4>1. call[a].op = r.op BY <1>4, <3>1
        <4>2. [id |-> r.id, op |-> r.op] = r BY <1>2 DEF Request
        <4> QED BY <1>3, <1>5, <3>1, <4>1, <4>2 DEF CallServed
      <3> QED BY <1>3, <1>4, <1>7, <2>3, <3>1
    <2> QED BY <2>1, <2>2, <2>3
  <1>11. OkMeansServed'
    BY <1>3, <1>9 DEF CallsInv, OkMeansServed, CallServed
  <1> QED BY <1>3, <1>8, <1>10, <1>11
          DEF CallsInv, IdsDistinct, TableInv, PendingIsWaiting

(* The pump, and the daemon's end, say nothing new of a call.              *)
LEMMA DaemonKeepsCalls ==
  ASSUME Typed, CallsInv, Push \/ DaemonNotices
  PROVE  CallsInv'
  <1>0. DaemonTyped /\ CallsTyped BY DEF Typed
  <1>1. UNCHANGED <<pending, nextId, call, served>>
    BY DEF Push, DaemonNotices, calls
  <1>2. \A r \in Request : Occurs(requests', r) => Occurs(requests, r)
    BY DEF Push, DaemonNotices, Occurs
  <1>3. \A m \in WireRec :
          Occurs(wire', m) => Occurs(wire, m) \/ m.id = 0
    <2>1. CASE Push
      <3>1. PICK n \in Nat : n = Len(sent')
        BY <2>1, PushTyped DEF DaemonTyped
      <3>2. PICK e \in WireRec : e = Event(n) BY Records DEF Event
      <3>3. wire' = Append(wire, e) /\ e.id = 0
        BY <2>1, <3>1, <3>2 DEF Push, Event, Answer
      <3> QED BY <1>0, <3>3, OccursAppend DEF DaemonTyped
    <2>2. CASE DaemonNotices BY <2>2 DEF DaemonNotices
    <2> QED BY <2>1, <2>2
  <1>4. \A a \in Actor : CallServed(a)' <=> CallServed(a)
    BY <1>1 DEF CallServed
  <1>5. RequestsMatch' BY <1>1, <1>2 DEF CallsInv, RequestsMatch
  <1>6. AnswersMatch'
    BY <1>0, <1>1, <1>3, <1>4 DEF CallsInv, AnswersMatch, CallsTyped
  <1> QED BY <1>1, <1>5, <1>6
          DEF CallsInv, IdsDistinct, TableInv, OkMeansServed, PendingIsWaiting

(* A step that changes one call and nothing of the messages.               *)
LEMMA CallKeepsMessages ==
  ASSUME Typed, CallsInv, NEW a \in Actor,
         UNCHANGED <<requests, wire, served>>, nextId' >= nextId, nextId' \in Nat,
         \A b \in Actor : b # a => call'[b] = call[b],
         \/ call'[a].id = 0
         \/ call'[a].id = nextId
         \/ call'[a].id = call[a].id /\ call'[a].op = call[a].op
  PROVE  RequestsMatch' /\ AnswersMatch'
  <1>0. DaemonTyped /\ CallsTyped BY DEF Typed
  <1>1. RequestsMatch'
    <2> SUFFICES ASSUME NEW r \in Request, Occurs(requests, r)
                 PROVE  /\ r.id < nextId'
                        /\ \A b \in Actor :
                             call'[b].id = r.id => call'[b].op = r.op
      BY DEF RequestsMatch
    <2>0. r.id \in Id BY Records
    <2>1. r.id < nextId /\ r.id \in Nat \ {0} /\ nextId \in Nat
      <3>1. r.id \in Nat \ {0} BY <2>0, ClientAssumption DEF Id
      <3>2. r.id < nextId BY DEF CallsInv, RequestsMatch
      <3> QED BY <1>0, <3>1, <3>2 DEF CallsTyped
    <2>2. r.id < nextId' BY <2>1
    <2>3. ASSUME NEW b \in Actor, call'[b].id = r.id
          PROVE  call'[b].op = r.op
      <3>1. call[b].id = r.id /\ call'[b].op = call[b].op BY <2>1, <2>3
      <3> QED BY <3>1 DEF CallsInv, RequestsMatch
    <2> QED BY <2>2, <2>3
  <1>2. AnswersMatch'
    <2> SUFFICES ASSUME NEW m \in WireRec, Occurs(wire, m)
                 PROVE  /\ m.id < nextId'
                        /\ m.id # 0 /\ m.got = "ok" => \A b \in Actor :
                             call'[b].id = m.id => CallServed(b)'
      BY DEF AnswersMatch
    <2>0. m.id \in Id \cup {0} BY Records
    <2>1. m.id < nextId /\ m.id \in Nat /\ nextId \in Nat
      <3>1. m.id \in Nat BY <2>0, ClientAssumption DEF Id
      <3>2. m.id < nextId BY DEF CallsInv, AnswersMatch
      <3> QED BY <1>0, <3>1, <3>2 DEF CallsTyped
    <2>2. m.id < nextId' BY <2>1
    <2>3. ASSUME m.id # 0, m.got = "ok", NEW b \in Actor, call'[b].id = m.id
          PROVE  CallServed(b)'
      <3>1. call[b].id = m.id /\ call'[b].op = call[b].op BY <2>1, <2>3
      <3>2. CallServed(b) BY <2>3, <3>1 DEF CallsInv, AnswersMatch
      <3> QED BY <2>3, <3>1, <3>2 DEF CallServed
    <2> QED BY <2>2, <2>3
  <1> QED BY <1>1, <1>2

(* A call starts.                                                          *)
LEMMA StartKeepsCalls ==
  ASSUME Typed, CallsInv, NEW a \in Actor, call[a].pc = "idle",
         NEW op \in CallOp, StartCall(a, op),
         UNCHANGED <<pending, requests, wire, served>>
  PROVE  CallsInv'
  <1>0. CallsTyped BY DEF Typed
  <1>1. /\ call' \in [Actor -> CallRec] /\ Starts(a, op)
        /\ \A b \in Actor : b # a => call'[b] = call[b]
    BY <1>0, OneStart DEF CallsTyped
  <1>2. /\ nextId' \in Nat /\ nextId \in Nat \ {0} /\ nextId' >= nextId
        /\ call'[a].id = 0 \/ (call'[a].id = nextId /\ nextId' = nextId + 1)
    BY <1>0, <1>1 DEF Starts, CallsTyped
  <1>3. RequestsMatch' /\ AnswersMatch'
    BY <1>1, <1>2, CallKeepsMessages
  <1>4. \A b \in Actor : call[b].id < nextId /\ call[b].id \in Nat
    BY <1>0, CallFields, ClientAssumption
       DEF CallsInv, IdsDistinct, CallsTyped, Id
  <1>5. IdsDistinct'
    BY <1>1, <1>2, <1>4 DEF CallsInv, IdsDistinct
  <1>6. \A id \in pending : id < nextId /\ id # 0
    BY <1>0, <1>4, ClientAssumption
       DEF CallsInv, PendingIsWaiting, CallsTyped, Id
  <1>7. call'[a].id \notin pending
    BY <1>2, <1>6
  <1>8. TableInv'
    BY <1>1, <1>7 DEF CallsInv, TableInv, Starts
  <1>9. OkMeansServed'
    BY <1>1 DEF CallsInv, OkMeansServed, Starts
  <1>10. PendingIsWaiting'
    BY <1>1 DEF CallsInv, PendingIsWaiting
  <1> QED BY <1>3, <1>5, <1>8, <1>9, <1>10 DEF CallsInv

(* A call that has its result is over, or one that waits gives up.         *)
LEMMA EndKeepsCalls ==
  ASSUME Typed, CallsInv, NEW a \in Actor, NEW c \in {NoCall, Refused(call[a].op)},
         CallIs(a, c),
         \/ pending' = pending \ {call[a].id}
         \/ pending' = pending /\ call[a].got # "none",
         UNCHANGED <<nextId, requests, wire, served>>
  PROVE  CallsInv'
  <1>0. CallsTyped BY DEF Typed
  <1>1. /\ c \in CallRec /\ c.id = 0 /\ c.pc # "insert" /\ c.got # "ok"
    <2>1. CASE c = NoCall BY <2>1, Records DEF NoCall
    <2>2. CASE c = Refused(call[a].op)
      BY <1>0, <2>2, RefusedFields, CallFields DEF CallsTyped
    <2> QED BY <2>1, <2>2
  <1>2. /\ call' \in [Actor -> CallRec] /\ call'[a] = c
        /\ \A b \in Actor : b # a => call'[b] = call[b]
    BY <1>0, <1>1, OneCall DEF CallsTyped
  <1>3. RequestsMatch' /\ AnswersMatch'
    BY <1>0, <1>1, <1>2, CallKeepsMessages DEF CallsTyped
  <1>4. IdsDistinct'
    BY <1>0, <1>1, <1>2 DEF CallsInv, IdsDistinct, CallsTyped
  <1>5. pending' \subseteq pending /\ 0 \notin pending
    BY <1>0 DEF CallsTyped, Id
  <1>6. TableInv'
    BY <1>1, <1>2, <1>5 DEF CallsInv, TableInv
  <1>7. OkMeansServed'
    BY <1>1, <1>2 DEF CallsInv, OkMeansServed
  <1>8. call[a].id \notin pending' BY DEF CallsInv, TableInv
  <1>9. PendingIsWaiting'
    BY <1>2, <1>5, <1>8 DEF CallsInv, PendingIsWaiting
  <1> QED BY <1>3, <1>4, <1>6, <1>7, <1>9 DEF CallsInv

LEMMA CallStepKeepsCalls ==
  ASSUME Typed, CallsInv, NEW a \in Actor, CallStep(a)
  PROVE  CallsInv'
  <1>0. CallsTyped /\ DaemonTyped BY DEF Typed
  <1>1. ASSUME NEW pc \in {"write", "wait"}, CallTo(a, pc)
        PROVE  /\ call'[a].op = call[a].op /\ call'[a].id = call[a].id
               /\ call'[a].got = call[a].got /\ call'[a].pc = pc
               /\ \A b \in Actor : b # a => call'[b] = call[b]
    BY <1>0, <1>1, OnePc, CallPcs DEF CallsTyped
  <1>2. ASSUME NEW pc \in {"write", "wait"}, CallTo(a, pc), nextId' = nextId,
               UNCHANGED served
        PROVE  IdsDistinct' /\ OkMeansServed'
    BY <1>1, <1>2 DEF CallsInv, IdsDistinct, OkMeansServed
  <1>3. CASE Insert(a)
    <2>1. /\ CallTo(a, "write") /\ call[a].pc = "insert"
          /\ UNCHANGED <<nextId, requests, wire, served>>
          /\ pending' = pending \cup {call[a].id}
      BY <1>3 DEF Insert, daemon
    <2>2. RequestsMatch' /\ AnswersMatch'
      BY <1>0, <1>1, <2>1, CallKeepsMessages DEF CallsTyped
    <2>3. TableInv'
      BY <1>0, <1>1, <2>1
         DEF CallsInv, TableInv, IdsDistinct, CallsTyped, HasId, Id
    <2>4. PendingIsWaiting'
      BY <1>1, <2>1 DEF CallsInv, PendingIsWaiting
    <2> QED BY <1>2, <2>1, <2>2, <2>3, <2>4 DEF CallsInv
  <1>4. CASE Write(a)
    <2>1. UNCHANGED <<nextId, wire, served>> /\ call[a].pc = "write"
      BY <1>4 DEF Write
    <2>2. CASE /\ requests' = IF link = "cut" THEN requests ELSE
                    Append(requests, [id |-> call[a].id, op |-> call[a].op])
               /\ CallTo(a, "wait") /\ UNCHANGED <<pending, closed>>
      <3>1. PICK r \in Request : r = [id |-> call[a].id, op |-> call[a].op]
        BY <1>0, <2>1 DEF CallsTyped, HasId, Request
      <3>2. r.id = call[a].id /\ r.op = call[a].op /\ r.id \in Id
        BY <3>1, Records
      <3>3. RequestsMatch'
        <4> SUFFICES ASSUME NEW x \in Request, Occurs(requests', x)
                     PROVE  /\ x.id < nextId
                            /\ \A b \in Actor :
                                 call[b].id = x.id => call[b].op = x.op
          BY <1>1, <2>1, <2>2 DEF RequestsMatch
        <4>1. x = r \/ Occurs(requests, x)
          BY <1>0, <2>2, <3>1, OccursAppend DEF DaemonTyped
        <4>2. CASE x = r
          BY <3>2, <4>2, ClientAssumption DEF CallsInv, IdsDistinct, Id
        <4> QED BY <4>1, <4>2 DEF CallsInv, RequestsMatch
      <3>4. AnswersMatch'
        BY <1>1, <2>1, <2>2 DEF CallsInv, AnswersMatch, CallServed
      <3>5. TableInv' BY <1>1, <2>2 DEF CallsInv, TableInv
      <3>6. PendingIsWaiting'
        BY <1>1, <2>2 DEF CallsInv, PendingIsWaiting
      <3> QED BY <1>2, <2>1, <2>2, <3>3, <3>4, <3>5, <3>6 DEF CallsInv
    <2>3. CASE /\ pending' = pending \ {call[a].id} /\ closed' = TRUE
               /\ CallIs(a, Refused(call[a].op))
               /\ UNCHANGED requests
      BY <2>1, <2>3, EndKeepsCalls
    <2> QED BY <1>4, <2>2, <2>3 DEF Write
  <1>5. CASE Timeout(a)
    BY <1>5, EndKeepsCalls DEF Timeout, daemon
  <1> QED BY <1>3, <1>4, <1>5 DEF CallStep

(* Answers are handed to the calls in S, ok ones to calls that were        *)
(* carried out.                                                            *)
LEMMA DeliverKeepsCalls ==
  ASSUME Typed, CallsInv, NEW S \in SUBSET pending,
         NEW got \in {"none", "ok", "error"}, Deliver(S, got),
         UNCHANGED <<nextId, requests, served>>,
         \A m \in WireRec : Occurs(wire', m) => Occurs(wire, m),
         got = "ok" => \A a \in Actor : call[a].id \in S => CallServed(a)
  PROVE  CallsInv'
  <1>0. CallsTyped BY DEF Typed
  <1>1. \A a \in Actor :
          /\ call'[a].op = call[a].op /\ call'[a].pc = call[a].pc
          /\ call'[a].id = call[a].id
          /\ call'[a].got = IF call[a].id \in S THEN got ELSE call[a].got
    BY <1>0, DeliverTyped
  <1>2. pending' = pending \ S BY DEF Deliver
  <1>3. \A a \in Actor : CallServed(a)' <=> CallServed(a)
    BY <1>1 DEF CallServed
  <1>4. RequestsMatch' BY <1>1 DEF CallsInv, RequestsMatch
  <1>5. AnswersMatch' BY <1>1, <1>3 DEF CallsInv, AnswersMatch
  <1>6. IdsDistinct' BY <1>1 DEF CallsInv, IdsDistinct
  <1>7. TableInv' BY <1>1, <1>2 DEF CallsInv, TableInv
  <1>8. OkMeansServed'
    BY <1>1, <1>3 DEF CallsInv, OkMeansServed, CallServed
  <1>9. PendingIsWaiting' BY <1>1, <1>2 DEF CallsInv, PendingIsWaiting
  <1> QED BY <1>4, <1>5, <1>6, <1>7, <1>8, <1>9 DEF CallsInv

LEMMA ReaderKeepsCalls ==
  ASSUME Typed, CallsInv, ReaderStep
  PROVE  CallsInv'
  <1>0. CallsTyped /\ DaemonTyped BY DEF Typed
  <1>1. CASE DispatchAnswer
    <2>1. PICK m \in WireRec : m = Head(wire) /\ Occurs(wire, m)
      BY <1>0, <1>1, HeadTail, OccursHead DEF DispatchAnswer, DaemonTyped
    <2>2. /\ m.got \in {"none", "ok", "error"} /\ m.id # 0
          /\ Deliver(pending \cap {m.id}, m.got)
          /\ UNCHANGED <<nextId, requests, served>>
      BY <1>1, <2>1, Records DEF DispatchAnswer
    <2>3. \A x \in WireRec : Occurs(wire', x) => Occurs(wire, x)
      BY <1>0, <1>1, OccursTail DEF DispatchAnswer, DaemonTyped
    <2>4. m.got = "ok" =>
            \A a \in Actor : call[a].id \in pending \cap {m.id} => CallServed(a)
      BY <2>1, <2>2 DEF CallsInv, AnswersMatch
    <2> QED BY <2>2, <2>3, <2>4, DeliverKeepsCalls
  <1>2. CASE DispatchEvent
    <2>1. \A x \in WireRec : Occurs(wire', x) => Occurs(wire, x)
      BY <1>0, <1>2, OccursTail DEF DispatchEvent, DaemonTyped
    <2>2. UNCHANGED <<pending, nextId, call, requests, served>>
      BY <1>2 DEF DispatchEvent, calls
    <2>3. AnswersMatch'
      BY <2>1, <2>2 DEF CallsInv, AnswersMatch, CallServed
    <2> QED BY <2>2, <2>3 DEF CallsInv, RequestsMatch, IdsDistinct, TableInv,
            OkMeansServed, PendingIsWaiting
  <1>3. CASE ReaderDrain
    BY <1>3, DeliverKeepsCalls DEF ReaderDrain, daemon
  <1>4. CASE ReaderEof \/ ReaderClear
    BY <1>4, QuietKeepsCalls DEF ReaderEof, ReaderClear, daemon, calls
  <1> QED BY <1>1, <1>2, <1>3, <1>4 DEF ReaderStep

LEMMA OpenKeepsCalls ==
  ASSUME Typed, CallsInv, OpenerStep
  PROVE  CallsInv'
  <1>1. UNCHANGED <<pending, requests, wire, served>>
    BY DEF OpenerStep, CreateSession, SubscribeData, AttachSession, NewHandle,
           QuietOpen, daemon
  <1>2. Opener \in Actor BY DEF Actor
  <1>3. ASSUME NEW op \in CallOp, OpenerCalls(op) PROVE CallsInv'
    BY <1>1, <1>2, <1>3, StartKeepsCalls DEF OpenerCalls
  <1>4. ASSUME NEW got, OpenerAnswered(got) PROVE CallsInv'
    BY <1>1, <1>2, <1>4, EndKeepsCalls DEF OpenerAnswered, Done
  <1>5. CASE UNCHANGED <<nextId, call>>
    BY <1>1, <1>5, QuietKeepsCalls
  <1> QED BY <1>3, <1>4, <1>5
          DEF OpenerStep, CreateSession, SubscribeData, AttachSession,
              NewHandle, CallOp

LEMMA UseKeepsCalls ==
  ASSUME Typed, CallsInv, NEW a \in Caller, CallerStep(a)
  PROVE  CallsInv'
  <1>1. UNCHANGED <<pending, requests, wire, served>>
    BY DEF CallerStep, Input, Detach, Close, Return, QuietUse, daemon
  <1>2. a \in Actor BY DEF Actor
  <1>3. ASSUME NEW op \in CallOp, Idle(a), StartCall(a, op) PROVE CallsInv'
    BY <1>1, <1>2, <1>3, StartKeepsCalls DEF Idle
  <1>4. CASE Return(a)
    BY <1>1, <1>2, <1>4, EndKeepsCalls DEF Return, Done
  <1>5. CASE UNCHANGED <<nextId, call>>
    BY <1>1, <1>5, QuietKeepsCalls
  <1> QED BY <1>3, <1>4, <1>5 DEF CallerStep, Input, Detach, Close, CallOp

LEMMA CallsKept ==
  ASSUME Typed, CallsInv, [Next]_vars
  PROVE  CallsInv'
  <1>1. CASE UNCHANGED vars
    BY <1>1, QuietKeepsCalls DEF vars, daemon, calls
  <1>2. CASE ShellEnds \/ LinkFails \/ DropHandle \/ Release \/ ReadStep
    BY <1>2, QuietKeepsCalls
       DEF ShellEnds, LinkFails, DropHandle, Release, ReadStep, ReadInitial,
           ReadQueue, ReadEnd, QuietRead, daemon, calls
  <1> QED BY <1>1, <1>2, ServeKeepsCalls, DaemonKeepsCalls, ReaderKeepsCalls,
             OpenKeepsCalls, UseKeepsCalls, CallStepKeepsCalls DEF Next

THEOREM ClientCalls == Spec => []CallsInv
  <1>1. Init => CallsInv
    BY DEF Init, FirstId, NoCall, CallsInv, RequestsMatch, AnswersMatch, IdsDistinct,
           TableInv, OkMeansServed, PendingIsWaiting, Occurs
  <1>2. Typed /\ CallsInv /\ [Next]_vars => CallsInv'
    BY CallsKept
  <1> QED BY <1>1, <1>2, ClientTyped, PTL DEF Spec

(* An ok answer is about the call that gets it, for any number of calls    *)
(* that time out, fail or are answered late.                               *)
THEOREM OkAnswersAreServed == Spec => []OkMeansServed
  <1>1. CallsInv => OkMeansServed BY DEF CallsInv
  <1> QED BY <1>1, ClientCalls, PTL

(* The table of pending calls never outgrows the calls in progress.        *)
THEOREM NoStaleIds == Spec => []PendingIsWaiting
  <1>1. CallsInv => PendingIsWaiting BY DEF CallsInv
  <1> QED BY <1>1, ClientCalls, PTL

(* Ids bind calls and answers, both ways.                                  *)
THEOREM CallsAreAnswered == Spec => []CallsAnswered
  <1>1. TypeOK /\ OkMeansServed /\ PendingIsWaiting => CallsAnswered
    BY DEF CallsAnswered
  <1> QED BY <1>1, ClientTypeCorrect, OkAnswersAreServed, NoStaleIds, PTL
-----------------------------------------------------------------------------
(* The end of the session: who may ask for it.                             *)

AttachServed == \E r \in served : r.op = "attach"

(* The opener's call is the one of its phase.                              *)
Opening ==
  /\ phase = "subscribe" => call[Opener].op = "none"
  /\ phase = "attach" => call[Opener].op \in {"none", "attach"}
  /\ phase \in {"handle", "open"} => AttachServed

(* A call does not change its operation on the way.                        *)
LEMMA StepKeepsOps ==
  ASSUME Typed, NEW a \in Actor, CallStep(a)
  PROVE  /\ \A b \in Actor : call'[b].op = call[b].op
         /\ call[a].pc # "idle"
         /\ call'[a].pc \in {"write", "wait"}
         /\ call'[a].pc = "write" => call[a].pc = "insert"
         /\ \A b \in Actor : b # a => call'[b] = call[b]
  <1>0. CallsTyped BY DEF Typed
  <1>1. ASSUME NEW pc \in {"write", "wait"}, CallTo(a, pc)
        PROVE  /\ call'[a].op = call[a].op /\ call'[a].pc = pc
               /\ \A b \in Actor : b # a => call'[b] = call[b]
    BY <1>0, <1>1, OnePc, CallPcs DEF CallsTyped
  <1>2. ASSUME CallIs(a, Refused(call[a].op))
        PROVE  /\ call'[a].op = call[a].op /\ call'[a].pc = "wait"
               /\ \A b \in Actor : b # a => call'[b] = call[b]
    BY <1>0, <1>2, OneCall, RefusedFields, CallFields DEF CallsTyped
  <1>3. CASE Insert(a) BY <1>1, <1>3 DEF Insert
  <1>4. CASE Write(a) BY <1>1, <1>2, <1>4 DEF Write
  <1>5. CASE Timeout(a) BY <1>2, <1>5 DEF Timeout
  <1> QED BY <1>3, <1>4, <1>5 DEF CallStep

LEMMA ReaderKeepsOps ==
  ASSUME Typed, ReaderStep
  PROVE  \A b \in Actor : call'[b].op = call[b].op /\ call'[b].pc = call[b].pc
  <1>0. CallsTyped /\ DaemonTyped BY DEF Typed
  <1>1. CASE DispatchAnswer
    <2>1. Head(wire) \in WireRec
      BY <1>0, <1>1, HeadTail DEF DispatchAnswer, DaemonTyped
    <2>2. PICK got \in {"none", "ok", "error"} : got = Head(wire).got
      BY <2>1, Records
    <2> QED BY <1>0, <1>1, <2>2, DeliverTyped DEF DispatchAnswer
  <1>2. CASE ReaderDrain BY <1>0, <1>2, DeliverTyped DEF ReaderDrain
  <1>3. CASE DispatchEvent \/ ReaderEof \/ ReaderClear
    BY <1>3 DEF DispatchEvent, ReaderEof, ReaderClear, calls
  <1> QED BY <1>1, <1>2, <1>3 DEF ReaderStep

(* The steps of a caller touch no other call.                              *)
LEMMA UseKeepsOthers ==
  ASSUME Typed, NEW a \in Caller, CallerStep(a)
  PROVE  /\ call' = call \/ \A b \in Actor : b # a => call'[b] = call[b]
         /\ UNCHANGED <<daemon, link, phase>>
  <1>0. CallsTyped /\ a \in Actor BY DEF Typed, Actor
  <1>1. ASSUME NEW op \in CallOp, StartCall(a, op)
        PROVE  \A b \in Actor : b # a => call'[b] = call[b]
    BY <1>0, <1>1, OneStart DEF CallsTyped
  <1>2. ASSUME CallIs(a, NoCall)
        PROVE  \A b \in Actor : b # a => call'[b] = call[b]
    BY <1>0, <1>2, OneCall, Records DEF CallsTyped
  <1>3. UNCHANGED <<daemon, link, phase>>
    BY DEF CallerStep, Input, Detach, Close, Return, QuietUse
  <1> QED BY <1>1, <1>2, <1>3
          DEF CallerStep, Input, Detach, Close, Return, CallOp

LEMMA OpeningKept ==
  ASSUME Typed, CallsInv, Opening, [Next]_vars
  PROVE  Opening'
  <1>0. CallsTyped /\ DaemonTyped BY DEF Typed
  <1>1. Opener \in Actor /\ Opener \notin Caller
    BY ClientAssumption DEF Actor
  <1>2. ASSUME phase' \in {phase, "failed", "gone"}, served \subseteq served',
               call'[Opener].op = call[Opener].op
        PROVE  Opening'
    BY <1>2 DEF Opening, AttachServed
  <1>3. CASE UNCHANGED vars BY <1>2, <1>3 DEF vars, daemon, calls
  <1>4. CASE Serve
    BY <1>2, <1>4 DEF Serve, calls
  <1>5. CASE \/ Push \/ ShellEnds \/ LinkFails \/ DaemonNotices \/ ReadStep
             \/ DropHandle \/ Release
    BY <1>2, <1>5
       DEF Push, ShellEnds, LinkFails, DaemonNotices, ReadStep, ReadInitial,
           ReadQueue, ReadEnd, QuietRead, DropHandle, Release, daemon, calls
  <1>6. CASE ReaderStep
    <2>1. UNCHANGED <<phase, served>>
      BY <1>6 DEF ReaderStep, DispatchAnswer, DispatchEvent, ReaderEof,
                  ReaderDrain, ReaderClear, daemon
    <2> QED BY <1>1, <1>2, <1>6, <2>1, ReaderKeepsOps
  <1>7. ASSUME NEW a \in Actor, CallStep(a) PROVE Opening'
    <2>1. UNCHANGED <<phase, served>>
      BY <1>7 DEF CallStep, Insert, Write, Timeout, daemon
    <2> QED BY <1>1, <1>2, <1>7, <2>1, StepKeepsOps
  <1>8. ASSUME NEW a \in Caller, CallerStep(a) PROVE Opening'
    BY <1>1, <1>2, <1>8, UseKeepsOthers DEF daemon
  <1>9. CASE OpenerStep
    <2>1. UNCHANGED served
      BY <1>9 DEF OpenerStep, CreateSession, SubscribeData, AttachSession,
                  NewHandle, QuietOpen, daemon
    <2>2. ASSUME NEW got, OpenerAnswered(got)
          PROVE  call'[Opener].op = "none"
      <3>1. CallIs(Opener, NoCall) BY <2>2 DEF OpenerAnswered
      <3>2. call'[Opener] = NoCall
        BY <1>0, <1>1, <3>1, OneCall, Records DEF CallsTyped
      <3> QED BY <3>2 DEF NoCall
    <2>3. CASE CreateSession
      BY <2>2, <2>3 DEF CreateSession, Open, Opening
    <2>4. CASE SubscribeData
      BY <2>4 DEF SubscribeData, Open, Opening
    <2>5. CASE AttachSession
      <3>1. CASE OpenerCalls("attach") /\ UNCHANGED phase
        <4>1. call'[Opener].op = "attach"
          BY <1>0, <1>1, <3>1, OneStart
             DEF OpenerCalls, CallsTyped, Starts, CallOp
        <4> QED BY <2>5, <3>1, <4>1 DEF AttachSession, Opening
      <3>2. CASE OpenerAnswered("ok") /\ phase' = "handle"
        <4>1. /\ call[Opener].got = "ok"
              /\ call[Opener].op \in {"none", "attach"}
          BY <2>5, <3>2 DEF AttachSession, OpenerAnswered, Opening
        <4>2. PICK r \in served :
                r = [id |-> call[Opener].id, op |-> call[Opener].op]
          BY <1>1, <4>1 DEF CallsInv, OkMeansServed
        <4>3. r.op \in CallOp /\ r.op = call[Opener].op
          BY <1>0, <4>2, Records DEF DaemonTyped
        <4>4. r.op = "attach" BY <4>1, <4>3 DEF CallOp
        <4> QED BY <2>1, <3>2, <4>2, <4>4 DEF Opening, AttachServed
      <3>3. CASE phase' = "failed" BY <3>3 DEF Opening
      <3> QED BY <2>5, <3>1, <3>2, <3>3 DEF AttachSession
    <2>6. CASE NewHandle
      BY <2>1, <2>6 DEF NewHandle, Open, Opening, AttachServed
    <2> QED BY <1>9, <2>3, <2>4, <2>5, <2>6 DEF OpenerStep
  <1> QED BY <1>3, <1>4, <1>5, <1>6, <1>7, <1>8, <1>9 DEF Next

Enders == {"detach", "close"}
Unwritten(a) == call[a].pc \in {"insert", "write"} /\ call[a].op \in Enders
EndsIn(s) == {i \in 1 .. Len(s) : s[i].op \in Enders}

(* The flag of the handle lets one detach or close through.                *)
EndsOnce ==
  /\ ~ended => EndsIn(requests) = {} /\ \A a \in Actor : ~Unwritten(a)
  /\ \A a \in Actor : Unwritten(a) =>
       EndsIn(requests) = {} /\ \A b \in Actor : Unwritten(b) => a = b
  /\ \A i, j \in EndsIn(requests) : i = j

(* A session that is detached has been so from the start, or by the one    *)
(* detach there is, or its connection has ended.                           *)
DetachedInv ==
  remote = "detached" =>
    /\ EndsIn(requests) = {}
    /\ link = "up" => /\ \A a \in Actor : ~Unwritten(a)
                      /\ ended \/ ~AttachServed

LEMMA EndsInTail ==
  ASSUME NEW s \in Seq(Request), s # <<>>
  PROVE  /\ \A i \in EndsIn(Tail(s)) : i \in Int /\ i + 1 \in EndsIn(s)
         /\ \A i \in EndsIn(Tail(s)) : i + 1 # 1
         /\ Head(s).op \in Enders => 1 \in EndsIn(s)
  <1>1. ASSUME NEW i \in 1 .. Len(Tail(s))
        PROVE  i + 1 \in 1 .. Len(s) /\ Tail(s)[i] = s[i + 1]
    OBVIOUS
  <1>2. 1 \in 1 .. Len(s) /\ Head(s) = s[1] OBVIOUS
  <1> QED BY <1>1, <1>2 DEF EndsIn

LEMMA EndsInAppend ==
  ASSUME NEW s \in Seq(Request), NEW r \in Request
  PROVE  /\ r.op \notin Enders => EndsIn(Append(s, r)) = EndsIn(s)
         /\ EndsIn(s) = {} =>
              \A i, j \in EndsIn(Append(s, r)) : i = j
  <1>1. PICK n \in Nat : n = Len(s) OBVIOUS
  <1>2. Len(Append(s, r)) = n + 1 BY <1>1
  <1>3. \A i \in 1 .. n : Append(s, r)[i] = s[i] BY <1>1
  <1>4. Append(s, r)[n + 1] = r BY <1>1
  <1>5. ASSUME NEW i, i \in EndsIn(Append(s, r))
        PROVE  i \in EndsIn(s) \/ (i = n + 1 /\ r.op \in Enders)
    BY <1>1, <1>2, <1>3, <1>4, <1>5 DEF EndsIn
  <1>6. ASSUME NEW i, i \in EndsIn(s)
        PROVE  i \in EndsIn(Append(s, r))
    BY <1>1, <1>2, <1>3, <1>6 DEF EndsIn
  <1>7. ASSUME r.op \notin Enders PROVE EndsIn(Append(s, r)) = EndsIn(s)
    BY <1>5, <1>6, <1>7
  <1>8. ASSUME EndsIn(s) = {}, NEW i \in EndsIn(Append(s, r)),
               NEW j \in EndsIn(Append(s, r))
        PROVE  i = j
    BY <1>5, <1>8
  <1> QED BY <1>7, <1>8

(* Steps that ask for no end and serve none.                               *)
LEMMA QuietKeepsEnds ==
  ASSUME EndsOnce, DetachedInv, UNCHANGED <<requests, served>>,
         ended' = ended \/ ended' = TRUE,
         remote' = remote \/ remote' # "detached",
         link' = link \/ link' # "up",
         \A a \in Actor : Unwritten(a)' => Unwritten(a)
  PROVE  EndsOnce' /\ DetachedInv'
  <1>1. EndsOnce' BY DEF EndsOnce
  <1>2. AttachServed' <=> AttachServed BY DEF AttachServed
  <1>3. DetachedInv' BY <1>2 DEF DetachedInv
  <1> QED BY <1>1, <1>3

LEMMA ServeKeepsEnds ==
  ASSUME Typed, EndsOnce, DetachedInv, Serve
  PROVE  EndsOnce' /\ DetachedInv' /\ (remote = "detached" => remote' # "closed")
  <1>0. DaemonTyped BY DEF Typed
  <1>1. PICK r : r = Head(requests) OBVIOUS
  <1>2. /\ r \in Request /\ r.op \in CallOp /\ requests # <<>>
        /\ requests' = Tail(requests)
    BY <1>0, <1>1, HeadTail, Records DEF DaemonTyped, Serve
  <1>3. /\ UNCHANGED <<link, call, ended>>
    BY DEF Serve, calls
  <1>4. \/ Accepts(r.op) /\ remote' = After(r.op) /\ served' = served \cup {r}
        \/ UNCHANGED <<remote, served>>
    BY <1>1 DEF Serve
  <1>5. /\ \A i \in EndsIn(requests') :
             i \in Int /\ i + 1 \in EndsIn(requests) /\ i + 1 # 1
        /\ r.op \in Enders => 1 \in EndsIn(requests)
    BY <1>0, <1>1, <1>2, EndsInTail DEF DaemonTyped
  <1>6. \A a \in Actor : Unwritten(a)' <=> Unwritten(a)
    BY <1>3 DEF Unwritten
  <1>7. ASSUME EndsIn(requests) = {} PROVE EndsIn(requests') = {}
    BY <1>5, <1>7
  <1>8. EndsOnce'
    <2>1. ASSUME NEW i \in EndsIn(requests'), NEW j \in EndsIn(requests')
          PROVE  i = j
      <3>1. i + 1 = j + 1 BY <1>5 DEF EndsOnce
      <3> QED BY <1>5, <3>1
    <2> QED BY <1>3, <1>6, <1>7, <2>1 DEF EndsOnce
  <1>9. CASE r.op = "detach" /\ remote' = After(r.op)
    <2>1. 1 \in EndsIn(requests) BY <1>5, <1>9 DEF Enders
    <2>2. ended /\ \A a \in Actor : ~Unwritten(a) BY <2>1 DEF EndsOnce
    <2>3. EndsIn(requests') = {} BY <1>5, <2>1 DEF EndsOnce
    <2>4. remote' = "detached" BY <1>9 DEF After
    <2> QED BY <1>3, <1>6, <1>8, <2>2, <2>3, <2>4 DEF DetachedInv
  <1>10. CASE r.op \in {"create", "attach", "close"} /\ remote' = After(r.op)
    <2>1. remote' \in {"created", "attached", "closed"} BY <1>10 DEF After
    <2>2. r.op = "close" => 1 \in EndsIn(requests) BY <1>5 DEF Enders
    <2>3. remote = "detached" /\ r.op = "close" => FALSE
      BY <2>2 DEF DetachedInv
    <2>4. r.op # "close" => remote' # "closed" BY <1>10 DEF After
    <2> QED BY <1>8, <2>1, <2>3, <2>4 DEF DetachedInv
  <1>11. CASE \/ r.op = "input" /\ remote' = After(r.op)
                /\ served' = served \cup {r}
              \/ UNCHANGED <<remote, served>>
    <2>1. remote' = remote BY <1>11 DEF After
    <2>2. AttachServed' => AttachServed BY <1>11 DEF AttachServed
    <2>3. DetachedInv' BY <1>3, <1>6, <1>7, <2>1, <2>2 DEF DetachedInv
    <2> QED BY <1>8, <2>1, <2>3
  <1> QED BY <1>2, <1>4, <1>9, <1>10, <1>11 DEF CallOp

LEMMA WriteKeepsEnds ==
  ASSUME Typed, EndsOnce, DetachedInv, NEW a \in Actor, Write(a)
  PROVE  EndsOnce' /\ DetachedInv' /\ UNCHANGED remote
  <1>0. DaemonTyped /\ CallsTyped BY DEF Typed
  <1>1. /\ UNCHANGED <<remote, served, link, ended>> /\ call[a].pc = "write"
    BY DEF Write
  <1>2. /\ \A b \in Actor : call'[b].op = call[b].op
        /\ \A b \in Actor : b # a => call'[b] = call[b]
        /\ call'[a].pc \in {"write", "wait"}
        /\ call'[a].pc # "write"
    BY <1>1, StepKeepsOps DEF CallStep
  <1>3. \A b \in Actor : Unwritten(b)' => Unwritten(b) /\ b # a
    BY <1>2 DEF Unwritten
  <1>4. CASE UNCHANGED requests
    BY <1>1, <1>3, <1>4, QuietKeepsEnds
  <1>5. CASE /\ link # "closed" /\ link # "cut"
             /\ requests' = Append(requests, [id |-> call[a].id,
                                              op |-> call[a].op])
    <2>1. PICK r \in Request : r = [id |-> call[a].id, op |-> call[a].op]
      BY <1>0, <1>1 DEF CallsTyped, HasId, Request
    <2>2. r.op = call[a].op BY <2>1
    <2>3. requests' = Append(requests, r) BY <1>5, <2>1
    <2>4. link = "up" BY <1>0, <1>5 DEF Typed, LinkTyped
    <2>5. CASE r.op \notin Enders
      <3>1. EndsIn(requests') = EndsIn(requests)
        BY <1>0, <2>3, <2>5, EndsInAppend DEF DaemonTyped
      <3>2. AttachServed' <=> AttachServed BY <1>1 DEF AttachServed
      <3> QED BY <1>1, <1>3, <3>1, <3>2 DEF EndsOnce, DetachedInv
    <2>6. CASE r.op \in Enders
      <3>1. Unwritten(a) BY <1>1, <2>2, <2>6 DEF Unwritten
      <3>2. ended /\ EndsIn(requests) = {} BY <3>1 DEF EndsOnce
      <3>3. \A i, j \in EndsIn(requests') : i = j
        BY <1>0, <2>3, <3>2, EndsInAppend DEF DaemonTyped
      <3>4. \A b \in Actor : ~Unwritten(b)'
        BY <1>3, <3>1 DEF EndsOnce
      <3>5. remote # "detached" BY <2>4, <3>1 DEF DetachedInv
      <3> QED BY <1>1, <3>2, <3>3, <3>4, <3>5 DEF EndsOnce, DetachedInv
    <2> QED BY <2>5, <2>6
  <1> QED BY <1>1, <1>4, <1>5 DEF Write

(* A detach or close that the handle's flag lets through.                  *)
LEMMA AskKeepsEnds ==
  ASSUME Typed, Opening, EndsOnce, DetachedInv, NEW a \in Caller,
         NEW op \in Enders, Idle(a), ~ended, StartCall(a, op), ended' = TRUE,
         UNCHANGED <<requests, served, remote, link>>
  PROVE  EndsOnce' /\ DetachedInv'
  <1>0. CallsTyped /\ a \in Actor /\ op \in CallOp
    BY DEF Typed, Actor, Enders, CallOp
  <1>1. \A b \in Actor : b # a => call'[b] = call[b]
    BY <1>0, OneStart DEF CallsTyped
  <1>2. EndsIn(requests) = {} /\ \A b \in Actor : ~Unwritten(b)
    BY DEF EndsOnce
  <1>3. \A b \in Actor : Unwritten(b)' => b = a
    BY <1>1, <1>2 DEF Unwritten
  <1>4. EndsOnce' BY <1>2, <1>3 DEF EndsOnce
  <1>5. remote = "detached" => link # "up"
    BY DEF DetachedInv, Opening, Idle
  <1>6. DetachedInv' BY <1>2, <1>5 DEF DetachedInv
  <1> QED BY <1>4, <1>6

LEMMA UseKeepsEnds ==
  ASSUME Typed, Opening, EndsOnce, DetachedInv, NEW a \in Caller, CallerStep(a)
  PROVE  EndsOnce' /\ DetachedInv' /\ UNCHANGED remote
  <1>0. CallsTyped /\ a \in Actor BY DEF Typed, Actor
  <1>1. UNCHANGED <<requests, served, remote, link>>
    BY UseKeepsOthers DEF daemon
  <1>2. ended' = ended \/ ended' = TRUE
    BY DEF CallerStep, Input, Detach, Close, Return, QuietUse
  <1>3. CASE \A b \in Actor : Unwritten(b)' => Unwritten(b)
    BY <1>1, <1>2, <1>3, QuietKeepsEnds
  <1>4. CASE Input(a) \/ Return(a)
    <2>1. CASE StartCall(a, "input")
      <3>1. call'[a].op = "input" /\ \A b \in Actor : b # a => call'[b] = call[b]
        BY <1>0, <2>1, OneStart DEF CallsTyped, Starts, CallOp
      <3> QED BY <1>3, <3>1 DEF Unwritten, Enders
    <2>2. CASE CallIs(a, NoCall)
      <3>1. call'[a] = NoCall /\ \A b \in Actor : b # a => call'[b] = call[b]
        BY <1>0, <2>2, OneCall, Records DEF CallsTyped
      <3> QED BY <1>3, <3>1 DEF Unwritten, NoCall
    <2> QED BY <1>4, <2>1, <2>2 DEF Input, Return
  <1>5. ASSUME NEW op \in Enders, Idle(a), ~ended, StartCall(a, op), ended'
        PROVE  EndsOnce' /\ DetachedInv'
    BY <1>1, <1>2, <1>5, AskKeepsEnds
  <1>6. CASE UNCHANGED call BY <1>3, <1>6 DEF Unwritten
  <1>7. CASE Detach(a) \/ Close(a)
    <2>1. Idle(a) /\ ended' BY <1>7 DEF Detach, Close
    <2>2. CASE ended BY <1>1, <1>6, <1>7, <2>2 DEF Detach, Close
    <2>3. CASE ~ended
      <3>1. PICK op \in Enders : StartCall(a, op)
        BY <1>7, <2>3 DEF Detach, Close, Enders
      <3> QED BY <1>1, <1>5, <2>1, <2>3, <3>1
    <2> QED BY <2>2, <2>3
  <1> QED BY <1>1, <1>4, <1>7 DEF CallerStep

EndInv == Opening /\ EndsOnce /\ DetachedInv

LEMMA EndKept ==
  ASSUME Typed, CallsInv, EndInv, [Next]_vars
  PROVE  EndInv' /\ (remote = "detached" => remote' # "closed")
  <1>0. DaemonTyped /\ CallsTyped /\ Opening /\ EndsOnce /\ DetachedInv
    BY DEF Typed, EndInv
  <1>1. Opening' BY <1>0, OpeningKept
  <1>2. ASSUME UNCHANGED <<requests, served, ended>>,
               remote' = remote \/ remote' = "lost",
               link' = link \/ link' # "up",
               \A a \in Actor : Unwritten(a)' => Unwritten(a)
        PROVE  EndInv' /\ (remote = "detached" => remote' # "closed")
    BY <1>0, <1>1, <1>2, QuietKeepsEnds DEF EndInv
  <1>3. ASSUME UNCHANGED call, NEW a \in Actor PROVE Unwritten(a)' => Unwritten(a)
    BY <1>3 DEF Unwritten
  <1>4. CASE UNCHANGED vars BY <1>2, <1>3, <1>4 DEF vars, daemon, calls
  <1>5. CASE Serve BY <1>0, <1>1, <1>5, ServeKeepsEnds DEF EndInv
  <1>6. CASE \/ Push \/ ShellEnds \/ LinkFails \/ ReadStep \/ DropHandle
             \/ Release
    <2>1. /\ UNCHANGED <<requests, served, ended, call>>
          /\ remote' = remote \/ remote' = "lost"
          /\ link' = link \/ link' # "up"
      BY <1>6
         DEF Push, ShellEnds, LinkFails, ReadStep, ReadInitial, ReadQueue,
             ReadEnd, QuietRead, DropHandle, Release, daemon, calls
    <2> QED BY <1>2, <1>3, <2>1
  <1>7. CASE DaemonNotices
    <2>1. /\ requests' = <<>> /\ link' = link /\ link # "up"
          /\ UNCHANGED <<served, ended, call>>
          /\ remote' = remote \/ remote' = "detached"
      BY <1>7 DEF DaemonNotices, calls
    <2>2. EndsIn(requests') = {} BY <2>1 DEF EndsIn
    <2> QED BY <1>0, <1>1, <1>3, <2>1, <2>2 DEF EndInv, EndsOnce, DetachedInv
  <1>8. CASE ReaderStep
    <2>1. UNCHANGED <<requests, served, ended, remote, link>>
      BY <1>8 DEF ReaderStep, DispatchAnswer, DispatchEvent, ReaderEof,
                  ReaderDrain, ReaderClear, daemon
    <2>2. \A a \in Actor : Unwritten(a)' => Unwritten(a)
      BY <1>8, ReaderKeepsOps DEF Unwritten
    <2> QED BY <1>2, <2>1, <2>2
  <1>9. CASE OpenerStep
    <2>1. UNCHANGED <<requests, served, ended, remote, link>>
      BY <1>9 DEF OpenerStep, CreateSession, SubscribeData, AttachSession,
                  NewHandle, QuietOpen, daemon
    <2>2. Opener \in Actor BY DEF Actor
    <2>3. ASSUME NEW op \in {"create", "attach"}, OpenerCalls(op),
                 NEW a \in Actor, Unwritten(a)'
          PROVE  Unwritten(a)
      <3>1. /\ call'[Opener].op = op
            /\ \A b \in Actor : b # Opener => call'[b] = call[b]
        BY <1>0, <2>2, <2>3, OneStart
           DEF OpenerCalls, CallsTyped, Starts, CallOp
      <3> QED BY <2>3, <3>1 DEF Unwritten, Enders
    <2>4. ASSUME NEW got, OpenerAnswered(got), NEW a \in Actor, Unwritten(a)'
          PROVE  Unwritten(a)
      <3>1. CallIs(Opener, NoCall) BY <2>4 DEF OpenerAnswered
      <3>2. /\ call'[Opener] = NoCall
            /\ \A b \in Actor : b # Opener => call'[b] = call[b]
        BY <1>0, <2>2, <3>1, OneCall, Records DEF CallsTyped
      <3> QED BY <2>4, <3>2 DEF Unwritten, NoCall
    <2>5. \A a \in Actor : Unwritten(a)' => Unwritten(a)
      BY <1>3, <1>9, <2>3, <2>4
         DEF OpenerStep, CreateSession, SubscribeData, AttachSession, NewHandle
    <2> QED BY <1>2, <2>1, <2>5
  <1>10. ASSUME NEW a \in Actor, CallStep(a)
         PROVE  EndInv' /\ (remote = "detached" => remote' # "closed")
    <2>1. CASE Write(a)
      BY <1>0, <1>1, <2>1, WriteKeepsEnds DEF EndInv
    <2>2. CASE Insert(a) \/ Timeout(a)
      <3>1. UNCHANGED <<requests, served, ended, remote, link>>
        BY <2>2 DEF Insert, Timeout, daemon
      <3>2. \A b \in Actor : Unwritten(b)' => Unwritten(b)
        BY <1>10, StepKeepsOps DEF Unwritten
      <3> QED BY <1>2, <3>1, <3>2
    <2> QED BY <1>10, <2>1, <2>2 DEF CallStep
  <1>11. ASSUME NEW a \in Caller, CallerStep(a)
         PROVE  EndInv' /\ (remote = "detached" => remote' # "closed")
    BY <1>0, <1>1, <1>11, UseKeepsEnds DEF EndInv
  <1> QED BY <1>4, <1>5, <1>6, <1>7, <1>8, <1>9, <1>10, <1>11 DEF Next

LEMMA EndInit ==
  ASSUME Init
  PROVE  EndInv
  <1>1. EndsIn(requests) = {} BY DEF Init, EndsIn
  <1>2. \A a \in Actor : call[a].op = "none" /\ ~Unwritten(a)
    BY DEF Init, NoCall, Unwritten
  <1>3. Opener \in Actor /\ ~AttachServed BY DEF Init, Actor, AttachServed
  <1>4. phase \notin {"handle", "open"} BY DEF Init
  <1> QED BY <1>1, <1>2, <1>3, <1>4
          DEF EndInv, Opening, EndsOnce, DetachedInv

(* No caller's close reaches a session that has been detached, for any     *)
(* number of callers that detach, close and time out.                      *)
THEOREM DetachedStays == Spec => DetachedIsKept
  <1>1. Init => EndInv BY EndInit
  <1>2. Typed /\ CallsInv /\ EndInv /\ [Next]_vars => EndInv'
    BY EndKept
  <1>3. Typed /\ CallsInv /\ EndInv /\ [Next]_vars
          => [remote = "detached" => remote' # "closed"]_vars
    BY EndKept
  <1> QED BY <1>1, <1>2, <1>3, ClientTyped, ClientCalls, PTL
          DEF Spec, DetachedIsKept
-----------------------------------------------------------------------------
(* The way of the output: sent, on the wire, in the queue, handed on.      *)

(* What follows from AttachStream for any two messages of an attach.       *)
SentInv ==
  /\ \A i \in 1 .. Len(sent) :
       /\ sent[i].from <= sent[i].upto
       /\ sent[i].kind = "attached" <=> i = 1
       /\ i < Len(sent) => sent[i].kind \in Output
  /\ \A i, j \in 1 .. Len(sent) : i < j /\ sent[j].kind = "data" =>
       /\ sent[i].upto <= sent[j].from
       /\ i + 1 = j /\ sent[i].upto < sent[j].from => sent[j].trunc

LEMMA MessageFields ==
  ASSUME NEW m \in Messages
  PROVE  m.from \in Nat /\ m.upto \in Nat /\ m.trunc \in BOOLEAN
         /\ m.kind \in Output \cup Terminals
  BY ClientAssumption DEF Messages

LEMMA EmptyLen ==
  ASSUME NEW S, NEW s \in Seq(S)
  PROVE  Len(s) = 0 <=> s = <<>>
  OBVIOUS

LEMMA SendKeepsSent ==
  ASSUME sent \in Seq(Messages), SentInv, NEW m \in Messages, Send(m),
         m.from <= m.upto
  PROVE  /\ SentInv' /\ Len(sent') = Len(sent) + 1
         /\ sent'[Len(sent')] = m
         /\ \A i \in 1 .. Len(sent) : sent'[i] = sent[i]
         /\ sent # <<>> => m.kind # "attached"
         /\ sent = <<>> => m.kind = "attached"
  <1>1. PICK n \in Nat : n = Len(sent) OBVIOUS
  <1>2. /\ Len(sent') = n + 1 /\ sent'[n + 1] = m
        /\ \A i \in 1 .. n : sent'[i] = sent[i]
    BY <1>1 DEF Send
  <1>3. \A i \in 1 .. n : sent[i] \in Messages BY <1>1
  <1>4. \A i \in 1 .. n : sent[i].from \in Nat /\ sent[i].upto \in Nat
    BY <1>3, MessageFields
  <1>5. m.from \in Nat /\ m.upto \in Nat /\ m.trunc \in BOOLEAN BY MessageFields
  <1>6. CASE n = 0
    <2>1. sent = <<>> BY <1>1, <1>6, EmptyLen
    <2>2. m.kind = "attached" BY <2>1 DEF Send
    <2> QED BY <1>1, <1>2, <1>6, <2>1, <2>2 DEF SentInv
  <1>7. CASE n > 0
    <2>1. sent # <<>> /\ Follows(sent[n], m) BY <1>1, <1>7 DEF Send
    <2>2. /\ m.kind # "attached" /\ sent[n].kind \in Output
      BY <2>1, ClientAssumption DEF Follows, Output
    <2>3. m.kind = "data" =>
            /\ sent[n].upto <= m.from
            /\ sent[n].upto < m.from => m.trunc
      <3>1. n \in 1 .. n BY <1>7
      <3>2. CASE m.trunc BY <1>4, <1>5, <2>1, <3>1, <3>2 DEF Follows
      <3>3. CASE ~m.trunc BY <1>4, <1>5, <2>1, <3>1, <3>3 DEF Follows
      <3> QED BY <3>2, <3>3
    <2>4. ASSUME NEW i \in 1 .. n, i < n, m.kind = "data"
          PROVE  sent[i].upto <= m.from
      <3>1. n \in 1 .. Len(sent) /\ i \in 1 .. Len(sent) BY <1>1, <1>7, <2>4
      <3>2. n # 1 BY <2>4
      <3>3. sent[n].kind = "data"
        BY <2>2, <3>1, <3>2 DEF SentInv, Output
      <3>4. sent[i].upto <= sent[n].from /\ sent[n].from <= sent[n].upto
        BY <2>4, <3>1, <3>3 DEF SentInv
      <3>5. PICK x \in Nat, y \in Nat, z \in Nat :
              x = sent[i].upto /\ y = sent[n].from /\ z = sent[n].upto
        BY <1>1, <1>4, <3>1
      <3>6. x <= y /\ y <= z BY <3>4, <3>5
      <3>7. z <= m.from BY <2>3, <2>4, <3>5
      <3> QED BY <1>5, <3>5, <3>6, <3>7
    <2>5. \A i \in 1 .. n + 1 : i \in 1 .. n \/ i = n + 1 BY <1>1
    <2>6. ASSUME NEW i \in 1 .. n + 1
          PROVE  /\ sent'[i].from <= sent'[i].upto
                 /\ sent'[i].kind = "attached" <=> i = 1
                 /\ i < n + 1 => sent'[i].kind \in Output
      <3>1. CASE i = n + 1 BY <1>2, <1>7, <2>2, <3>1
      <3>2. CASE i \in 1 .. n BY <1>1, <1>2, <2>2, <3>2 DEF SentInv
      <3> QED BY <2>5, <3>1, <3>2
    <2>7. ASSUME NEW i \in 1 .. n + 1, NEW j \in 1 .. n + 1, i < j,
                 sent'[j].kind = "data"
          PROVE  /\ sent'[i].upto <= sent'[j].from
                 /\ i + 1 = j /\ sent'[i].upto < sent'[j].from => sent'[j].trunc
      <3>1. i \in 1 .. n BY <2>7
      <3>2. CASE j = n + 1
        <4>1. m.kind = "data" /\ sent'[j] = m /\ sent'[i] = sent[i]
          BY <1>2, <2>7, <3>1, <3>2
        <4>2. CASE i = n
          <5>1. /\ sent[n].upto <= m.from
                /\ sent[n].upto < m.from => m.trunc
            BY <2>3, <4>1
          <5>2. /\ sent'[i].upto = sent[n].upto /\ sent'[j].from = m.from
                /\ sent'[j].trunc = m.trunc
            BY <4>1, <4>2
          <5> QED BY <5>1, <5>2
        <4>3. CASE i < n
          <5>1. i + 1 # j BY <3>1, <3>2, <4>3
          <5> QED BY <2>4, <3>1, <4>1, <4>3, <5>1
        <4> QED BY <3>1, <4>2, <4>3
      <3>3. CASE j \in 1 .. n BY <1>1, <1>2, <2>7, <3>1, <3>3 DEF SentInv
      <3> QED BY <2>5, <3>2, <3>3
    <2>8. SentInv' BY <1>2, <2>6, <2>7 DEF SentInv
    <2> QED BY <1>1, <1>2, <2>1, <2>2, <2>8
  <1> QED BY <1>6, <1>7

(* How Serve and Push change what was sent.                                *)
Sends ==
  /\ Len(sent') = Len(sent) + 1
  /\ \A i \in 1 .. Len(sent) : sent'[i] = sent[i]
  /\ sent = <<>> <=> sent'[Len(sent')].kind = "attached"

LEMMA ServeSends ==
  ASSUME Typed, SentInv, Serve
  PROVE  /\ SentInv'
         /\ sent' = sent \/ (sent = <<>> /\ Sends)
  <1>0. sent \in Seq(Messages) BY DEF Typed, DaemonTyped
  <1>1. CASE UNCHANGED sent BY <1>1 DEF SentInv
  <1>2. CASE \E m \in Messages : /\ m.kind = "attached" /\ Send(m)
                                 /\ m.upto \in m.from .. m.from + MaxData
    <2>1. PICK m \in Messages : /\ m.kind = "attached" /\ Send(m)
                                /\ m.upto \in m.from .. m.from + MaxData
      BY <1>2
    <2>2. m.from <= m.upto BY <2>1, MessageFields
    <2> QED BY <1>0, <2>1, <2>2, SendKeepsSent DEF Sends
  <1> QED BY <1>1, <1>2 DEF Serve

LEMMA PushSends ==
  ASSUME Typed, SentInv, Push
  PROVE  SentInv' /\ sent # <<>> /\ Sends
  <1>0. sent \in Seq(Messages) BY DEF Typed, DaemonTyped
  <1>1. PICK m \in Messages :
          /\ IF m.kind = "data" THEN m.upto \in m.from + 1 .. m.from + MaxData
                                ELSE m.from = 0 /\ m.upto = 0
          /\ Send(m)
    BY DEF Push
  <1>2. m.from <= m.upto
    <2>1. CASE m.kind = "data" BY <1>1, <2>1, MessageFields
    <2>2. CASE m.kind # "data" BY <1>1, <2>2
    <2> QED BY <2>1, <2>2
  <1> QED BY <1>0, <1>1, <1>2, SendKeepsSent DEF Sends, Push

(* Nothing is sent before the attach is asked for, and the attach is not   *)
(* answered ok before something is.                                        *)
NoAttachYet ==
  /\ sent = <<>> /\ \A a \in Actor : call[a].op # "attach"
  /\ \A r \in Request : Occurs(requests, r) => r.op # "attach"
NotAnswered(a) ==
  /\ call[a].got # "ok"
  /\ \A m \in WireRec : Occurs(wire, m) /\ m.got = "ok" /\ m.id # 0
                          => m.id # call[a].id
AttachInv ==
  /\ phase \in {"create", "subscribe"} => NoAttachYet
  /\ phase \in {"handle", "open"} => sent # <<>>
  /\ sent = <<>> =>
       \A a \in Actor : call[a].op = "attach" => NotAnswered(a)

(* Until the reader task has ended the handle's sender is listed.          *)
SubscribedInv ==
  phase \in {"attach", "handle", "open"} /\ reader # "ended"
    => subscriber = "listed"

LEMMA SubscribedKept ==
  ASSUME SubscribedInv, [Next]_vars
  PROVE  SubscribedInv'
  <1>1. CASE UNCHANGED <<subscriber, reader, phase>>
    BY <1>1 DEF SubscribedInv
  <1>2. CASE \/ UNCHANGED vars \/ Serve \/ Push \/ ShellEnds \/ LinkFails
             \/ DaemonNotices \/ ReadStep \/ Release
             \/ \E a \in Actor : CallStep(a)
             \/ \E a \in Caller : CallerStep(a)
    <2>1. UNCHANGED <<subscriber, reader, phase>>
      BY <1>2 DEF vars, Serve, Push, ShellEnds, LinkFails, DaemonNotices,
         ReadStep, ReadInitial, ReadQueue, ReadEnd, QuietRead, Release,
         CallStep, Insert, Write, Timeout, CallerStep, Input, Detach, Close,
         Return, QuietUse, output
    <2> QED BY <1>1, <2>1
  <1>3. CASE ReaderStep
    BY <1>3 DEF ReaderStep, DispatchAnswer, DispatchEvent, ReaderEof,
                ReaderDrain, ReaderClear, output, SubscribedInv
  <1>4. CASE DropHandle BY <1>4 DEF DropHandle, SubscribedInv
  <1>5. CASE OpenerStep
    BY <1>5 DEF OpenerStep, CreateSession, SubscribeData, AttachSession,
                NewHandle, Open, QuietOpen, SubscribedInv
  <1> QED BY <1>2, <1>3, <1>4, <1>5 DEF Next

LEMMA QuietKeepsAttach ==
  ASSUME AttachInv, phase' \in {phase, "failed", "gone"},
         sent' = sent \/ (sent # <<>> /\ sent' # <<>>),
         \A a \in Actor : call'[a].op = "attach" =>
           /\ call[a].op = "attach" /\ call'[a].id \in {0, call[a].id}
           /\ call'[a].got = "ok" => call[a].got = "ok",
         \A r \in Request : Occurs(requests', r) =>
           Occurs(requests, r) \/ \E a \in Actor : r.op = call[a].op,
         \A m \in WireRec : Occurs(wire', m) => Occurs(wire, m) \/ m.id = 0
  PROVE  AttachInv'
  <1>1. NoAttachYet => NoAttachYet' BY DEF NoAttachYet
  <1>2. ASSUME NEW a \in Actor, NotAnswered(a), call'[a].op = "attach"
        PROVE  NotAnswered(a)'
    BY <1>2 DEF NotAnswered
  <1> QED BY <1>1, <1>2 DEF AttachInv

LEMMA ServeKeepsAttach ==
  ASSUME Typed, CallsInv, SentInv, AttachInv, Serve
  PROVE  AttachInv'
  <1>0. DaemonTyped /\ CallsTyped BY DEF Typed
  <1>1. PICK r : r = Head(requests) OBVIOUS
  <1>2. /\ r \in Request /\ r.id \in Id /\ Occurs(requests, r)
        /\ requests' = Tail(requests) /\ requests # <<>>
    BY <1>0, <1>1, HeadTail, OccursHead, Records DEF DaemonTyped, Serve
  <1>3. UNCHANGED <<call, phase>> BY DEF Serve, calls
  <1>4. \A x \in Request : Occurs(requests', x) => Occurs(requests, x)
    BY <1>0, <1>2, OccursTail DEF DaemonTyped
  <1>5. CASE sent' # <<>> /\ sent = <<>>
    <2>1. r.op = "attach"
      BY <1>1, <1>5 DEF Serve
    <2>2. phase \notin {"create", "subscribe"}
      BY <1>2, <2>1 DEF AttachInv, NoAttachYet
    <2> QED BY <1>3, <1>5, <2>2 DEF AttachInv
  <1>6. CASE sent' = sent
    <2>1. PICK got \in {"ok", "error"}, n \in {0, 1} :
            Put(Answer(r.id, got, n))
      BY <1>1 DEF Serve
    <2>2. PICK m \in WireRec : m = Answer(r.id, got, n)
      BY <1>2, Records
    <2>3. m.id = r.id /\ m.got = got BY <2>2 DEF Answer
    <2>4. \A x \in WireRec : Occurs(wire', x) => x = m \/ Occurs(wire, x)
      BY <1>0, <2>1, <2>2, OccursAppend DEF Put, DaemonTyped
    <2>5. NoAttachYet => NoAttachYet'
      BY <1>3, <1>4, <1>6 DEF NoAttachYet
    <2>6. ASSUME sent = <<>>, NEW a \in Actor, call[a].op = "attach"
          PROVE  NotAnswered(a)'
      <3>1. NotAnswered(a) BY <2>6 DEF AttachInv
      <3>2. CASE call[a].id # r.id
        BY <1>3, <2>3, <2>4, <3>1, <3>2 DEF NotAnswered
      <3>3. CASE call[a].id = r.id
        <4>1. r.op = "attach"
          BY <1>2, <2>6, <3>3 DEF CallsInv, RequestsMatch
        <4>2. sent' # sent => FALSE BY <1>6
        <4>3. wire' = wire \/ wire' = Append(wire, Answer(r.id, "error", 0))
          <5>1. CASE link # "up"
            BY <1>1, <5>1 DEF Serve, Put
          <5>2. CASE link = "up"
            <6>1. ASSUME NEW x \in Messages, Send(x) PROVE FALSE
              <7>1. sent' = Append(sent, x) BY <6>1 DEF Send
              <7> QED BY <1>0, <1>6, <7>1 DEF DaemonTyped
            <6> QED BY <1>1, <4>1, <5>2, <6>1 DEF Serve, Put
          <5> QED BY <5>1, <5>2
        <4>4. PICK m2 \in WireRec : m2 = Answer(r.id, "error", 0)
          BY <1>2, Records
        <4>5. wire' = wire \/ wire' = Append(wire, m2) BY <4>3, <4>4
        <4>6. \A x \in WireRec : Occurs(wire', x) => x = m2 \/ Occurs(wire, x)
          <5>1. CASE wire' = wire BY <5>1
          <5>2. CASE wire' = Append(wire, m2)
            <6>1. wire \in Seq(WireRec) BY <1>0 DEF DaemonTyped
            <6> QED BY <5>2, <6>1, OccursAppend
          <5> QED BY <4>5, <5>1, <5>2
        <4>7. m2.got = "error" BY <4>4 DEF Answer
        <4> QED BY <1>3, <3>1, <4>6, <4>7 DEF NotAnswered
      <3> QED BY <3>2, <3>3
    <2> QED BY <1>3, <1>6, <2>5, <2>6 DEF AttachInv
  <1>7. CASE sent # <<>> /\ sent' # sent
    BY <1>7, ServeSends
  <1> QED BY <1>5, <1>6, <1>7

(* A call gets no ok by its own steps, and no id.                          *)
LEMMA StepKeepsAnswers ==
  ASSUME Typed, NEW a \in Actor, CallStep(a)
  PROVE  /\ call'[a].id \in {0, call[a].id}
         /\ call'[a].got = "ok" => call[a].got = "ok"
  <1>0. CallsTyped BY DEF Typed
  <1>1. ASSUME NEW pc \in {"write", "wait"}, CallTo(a, pc)
        PROVE  call'[a].id = call[a].id /\ call'[a].got = call[a].got
    BY <1>0, <1>1, OnePc, CallPcs DEF CallsTyped
  <1>2. ASSUME CallIs(a, Refused(call[a].op))
        PROVE  call'[a].id = 0 /\ call'[a].got = "error"
    BY <1>0, <1>2, OneCall, RefusedFields, CallFields DEF CallsTyped
  <1> QED BY <1>1, <1>2 DEF CallStep, Insert, Write, Timeout

LEMMA CallsKeepAttach ==
  ASSUME Typed, AttachInv, NEW a \in Actor, CallStep(a)
  PROVE  AttachInv'
  <1>0. CallsTyped /\ DaemonTyped BY DEF Typed
  <1>1. UNCHANGED <<phase, sent, wire>>
    BY DEF CallStep, Insert, Write, Timeout, daemon
  <1>2. \A b \in Actor : call'[b].op = "attach" =>
           /\ call[b].op = "attach" /\ call'[b].id \in {0, call[b].id}
           /\ call'[b].got = "ok" => call[b].got = "ok"
    BY StepKeepsOps, StepKeepsAnswers
  <1>3. \A r \in Request : Occurs(requests', r) =>
          Occurs(requests, r) \/ \E b \in Actor : r.op = call[b].op
    <2>1. CASE requests' = requests BY <2>1
    <2>2. CASE /\ Write(a)
               /\ requests' = Append(requests, [id |-> call[a].id,
                                                op |-> call[a].op])
      <3>1. PICK r \in Request : r = [id |-> call[a].id, op |-> call[a].op]
        BY <1>0, <2>2 DEF Write, CallsTyped, HasId, Request
      <3>2. r.op = call[a].op /\ requests' = Append(requests, r)
        BY <2>2, <3>1
      <3> QED BY <1>0, <3>2, OccursAppend DEF DaemonTyped
    <2> QED BY <2>1, <2>2 DEF CallStep, Insert, Write, Timeout, daemon
  <1> QED BY <1>1, <1>2, <1>3, QuietKeepsAttach

LEMMA ReaderKeepsAttach ==
  ASSUME Typed, AttachInv, ReaderStep
  PROVE  AttachInv'
  <1>0. CallsTyped /\ DaemonTyped BY DEF Typed
  <1>1. UNCHANGED <<phase, sent, requests>>
    BY DEF ReaderStep, DispatchAnswer, DispatchEvent, ReaderEof, ReaderDrain,
           ReaderClear, daemon
  <1>2. \A m \in WireRec : Occurs(wire', m) => Occurs(wire, m)
    <2>1. CASE wire' = wire BY <2>1
    <2>2. CASE wire # <<>> /\ wire' = Tail(wire)
      BY <1>0, <2>2, OccursTail DEF DaemonTyped
    <2> QED BY <2>1, <2>2 DEF ReaderStep, DispatchAnswer, DispatchEvent,
            ReaderEof, ReaderDrain, ReaderClear, daemon
  <1>3. CASE call' = call BY <1>1, <1>2, <1>3, QuietKeepsAttach
  <1>4. CASE ReaderDrain
    <2>1. Deliver(pending, "error") BY <1>4 DEF ReaderDrain
    <2>2. \A a \in Actor :
            /\ call'[a].op = call[a].op /\ call'[a].id = call[a].id
            /\ call'[a].got = "ok" => call[a].got = "ok"
      BY <1>0, <2>1, DeliverTyped
    <2> QED BY <1>1, <1>2, <2>2, QuietKeepsAttach
  <1>5. CASE DispatchAnswer
    <2>1. PICK m \in WireRec : m = Head(wire) /\ Occurs(wire, m)
      BY <1>0, <1>5, HeadTail, OccursHead DEF DispatchAnswer, DaemonTyped
    <2>2. /\ m.got \in {"none", "ok", "error"} /\ m.id # 0
          /\ Deliver(pending \cap {m.id}, m.got)
      BY <1>5, <2>1, Records DEF DispatchAnswer
    <2>3. ASSUME NEW a \in Actor
          PROVE  /\ call'[a].op = call[a].op /\ call'[a].id = call[a].id
                 /\ call'[a].got = "ok" =>
                      call[a].got = "ok" \/ (m.got = "ok" /\ call[a].id = m.id)
      BY <1>0, <2>2, DeliverTyped
    <2>4. ASSUME NEW a \in Actor, NotAnswered(a)
          PROVE  NotAnswered(a)'
      BY <1>2, <2>1, <2>2, <2>3, <2>4 DEF NotAnswered
    <2>5. NoAttachYet => NoAttachYet' BY <1>1, <2>3 DEF NoAttachYet
    <2> QED BY <1>1, <2>3, <2>4, <2>5 DEF AttachInv
  <1> QED BY <1>3, <1>4, <1>5
          DEF ReaderStep, DispatchEvent, ReaderEof, ReaderClear, calls

LEMMA OpenKeepsAttach ==
  ASSUME Typed, CallsInv, Opening, AttachInv, OpenerStep
  PROVE  AttachInv'
  <1>0. CallsTyped /\ DaemonTyped /\ Opener \in Actor BY DEF Typed, Actor
  <1>1. UNCHANGED <<sent, wire, requests>>
    BY DEF OpenerStep, CreateSession, SubscribeData, AttachSession, NewHandle,
           QuietOpen, daemon
  <1>2. ASSUME NEW op \in {"create", "attach"}, OpenerCalls(op)
        PROVE  /\ Starts(Opener, op)
               /\ \A b \in Actor : b # Opener => call'[b] = call[b]
    BY <1>0, <1>2, OneStart DEF OpenerCalls, CallsTyped, CallOp
  <1>3. ASSUME NEW got, OpenerAnswered(got)
        PROVE  /\ call'[Opener].op = "none" /\ call[Opener].got = got
               /\ \A b \in Actor : b # Opener => call'[b] = call[b]
    <2>1. CallIs(Opener, NoCall) BY <1>3 DEF OpenerAnswered
    <2>2. /\ call'[Opener] = NoCall
          /\ \A b \in Actor : b # Opener => call'[b] = call[b]
      BY <1>0, <2>1, OneCall, Records DEF CallsTyped
    <2> QED BY <1>3, <2>2 DEF OpenerAnswered, NoCall
  <1>4. CASE CreateSession
    <2>1. NoAttachYet BY <1>4 DEF CreateSession, Open, AttachInv
    <2>2. \A b \in Actor : call'[b].op # "attach"
      <3>1. CASE OpenerCalls("create")
        BY <1>2, <2>1, <3>1 DEF Starts, NoAttachYet
      <3>2. CASE \E got \in {"ok", "error"} : OpenerAnswered(got)
        BY <1>3, <2>1, <3>2 DEF NoAttachYet
      <3> QED BY <1>4, <3>1, <3>2 DEF CreateSession
    <2>3. NoAttachYet' BY <1>1, <2>1, <2>2 DEF NoAttachYet
    <2>4. phase' \notin {"handle", "open"} BY <1>4 DEF CreateSession, Open
    <2> QED BY <2>2, <2>3, <2>4 DEF AttachInv
  <1>5. CASE SubscribeData
    BY <1>1, <1>5 DEF SubscribeData, Open, AttachInv, NoAttachYet, NotAnswered
  <1>6. CASE AttachSession
    <2>1. CASE OpenerCalls("attach") /\ UNCHANGED phase
      <3>1. NotAnswered(Opener)'
        <4>1. call'[Opener].got # "ok" /\ call'[Opener].id \in {0, nextId}
          BY <1>2, <2>1 DEF Starts
        <4>2. ASSUME NEW m \in WireRec, Occurs(wire, m), m.id # 0
              PROVE  m.id # call'[Opener].id
          <5>1. m.id < nextId BY <4>2 DEF CallsInv, AnswersMatch
          <5>2. m.id \in Id \cup {0} BY Records
          <5>3. m.id \in Nat BY <5>2, ClientAssumption DEF Id
          <5> QED BY <1>0, <4>1, <4>2, <5>1, <5>3 DEF CallsTyped
        <4> QED BY <1>1, <4>1, <4>2 DEF NotAnswered
      <3>2. ASSUME NEW b \in Actor, b # Opener, NotAnswered(b)
            PROVE  NotAnswered(b)'
        BY <1>1, <1>2, <2>1, <3>2 DEF NotAnswered
      <3>3. \A b \in Actor : b # Opener => call'[b] = call[b]
        BY <1>2, <2>1
      <3>4. phase' = "attach" BY <1>6, <2>1 DEF AttachSession
      <3> QED BY <1>1, <3>1, <3>2, <3>3, <3>4 DEF AttachInv
    <2>2. CASE OpenerAnswered("ok") /\ phase' = "handle"
      <3>1. /\ call[Opener].got = "ok"
            /\ call[Opener].op \in {"none", "attach"}
        BY <1>3, <1>6, <2>2 DEF AttachSession, Opening
      <3>2. PICK r \in served :
              r = [id |-> call[Opener].id, op |-> call[Opener].op]
        BY <1>0, <3>1 DEF CallsInv, OkMeansServed
      <3>3. r.op \in CallOp /\ r.op = call[Opener].op
        BY <1>0, <3>2, Records DEF DaemonTyped
      <3>4. call[Opener].op = "attach" BY <3>1, <3>3 DEF CallOp
      <3>5. sent # <<>>
        BY <1>0, <3>1, <3>4 DEF AttachInv, NotAnswered
      <3> QED BY <1>1, <2>2, <3>5 DEF AttachInv
    <2>3. CASE OpenerAnswered("error") /\ phase' = "failed"
      <3>1. \A b \in Actor : call'[b].op = "attach" => call'[b] = call[b]
        BY <1>3, <2>3
      <3> QED BY <1>1, <2>3, <3>1, QuietKeepsAttach
    <2> QED BY <1>6, <2>1, <2>2, <2>3 DEF AttachSession
  <1>7. CASE NewHandle
    BY <1>1, <1>7 DEF NewHandle, Open, AttachInv
  <1> QED BY <1>4, <1>5, <1>6, <1>7 DEF OpenerStep

LEMMA UseKeepsAttach ==
  ASSUME Typed, AttachInv, NEW a \in Caller, CallerStep(a)
  PROVE  AttachInv'
  <1>0. CallsTyped /\ a \in Actor BY DEF Typed, Actor
  <1>1. UNCHANGED <<sent, wire, requests, phase>>
    BY UseKeepsOthers DEF daemon
  <1>2. ASSUME NEW op \in {"input", "detach", "close"}, StartCall(a, op)
        PROVE  call'[a].op # "attach"
    BY <1>0, <1>2, OneStart DEF CallsTyped, Starts, CallOp
  <1>3. ASSUME CallIs(a, NoCall) PROVE call'[a].op # "attach"
    <2>1. call'[a] = NoCall BY <1>0, <1>3, OneCall, Records DEF CallsTyped
    <2> QED BY <2>1 DEF NoCall
  <1>4. call' = call \/ call'[a].op # "attach"
    BY <1>2, <1>3 DEF CallerStep, Input, Detach, Close, Return
  <1>5. \A b \in Actor : call'[b].op = "attach" => call'[b] = call[b]
    BY <1>4, UseKeepsOthers
  <1> QED BY <1>1, <1>5, QuietKeepsAttach

LEMMA AttachKept ==
  ASSUME Typed, CallsInv, Opening, SentInv, AttachInv, [Next]_vars
  PROVE  AttachInv'
  <1>0. DaemonTyped /\ CallsTyped BY DEF Typed
  <1>1. ASSUME UNCHANGED <<sent, call>>, phase' \in {phase, "gone"},
               \A r \in Request : Occurs(requests', r) => Occurs(requests, r),
               wire' = wire
        PROVE  AttachInv'
    BY <1>1, QuietKeepsAttach
  <1>2. CASE \/ UNCHANGED vars \/ ShellEnds \/ LinkFails \/ DaemonNotices
             \/ ReadStep \/ DropHandle \/ Release
    <2>1. /\ UNCHANGED <<sent, call, wire>> /\ phase' \in {phase, "gone"}
          /\ requests' = requests \/ requests' = <<>>
      BY <1>2 DEF vars, ShellEnds, LinkFails, DaemonNotices, ReadStep,
         ReadInitial, ReadQueue, ReadEnd, QuietRead, DropHandle, Release,
         daemon, calls
    <2>2. \A r \in Request : Occurs(requests', r) => Occurs(requests, r)
      BY <2>1 DEF Occurs
    <2> QED BY <1>1, <2>1, <2>2
  <1>3. CASE Push
    <2>1. UNCHANGED <<call, phase, requests>> BY <1>3 DEF Push, calls
    <2>2. sent # <<>> /\ Len(sent') = Len(sent) + 1
      BY <1>3, PushSends DEF Sends
    <2>3. sent' # <<>> /\ sent' \in Seq(Messages)
      <3>1. sent' \in Seq(Messages) BY <1>3, PushTyped DEF DaemonTyped
      <3>2. Len(sent) \in Nat BY <1>0 DEF DaemonTyped
      <3> QED BY <2>2, <3>1, <3>2, EmptyLen
    <2>4. PICK n \in Nat : n = Len(sent') BY <2>3
    <2>5. PICK e \in WireRec : e = Event(n) BY Records DEF Event
    <2>6. e.id = 0 /\ wire' = Append(wire, e)
      BY <1>3, <2>4, <2>5 DEF Push, Event, Answer
    <2>7. wire \in Seq(WireRec) BY <1>0 DEF DaemonTyped
    <2>8. \A m \in WireRec : Occurs(wire', m) => Occurs(wire, m) \/ m.id = 0
      BY <2>6, <2>7, OccursAppend
    <2> QED BY <2>1, <2>2, <2>3, <2>8, QuietKeepsAttach
  <1> QED BY <1>2, <1>3, ServeKeepsAttach, ReaderKeepsAttach, OpenKeepsAttach,
             UseKeepsAttach, CallsKeepAttach DEF Next

Rising(s) == \A i, j \in 1 .. Len(s) : i < j => s[i] < s[j]

LEMMA OccursAppended ==
  ASSUME NEW S, NEW s \in Seq(S), NEW e \in S
  PROVE  \A x : Occurs(Append(s, e), x) <=> x = e \/ Occurs(s, x)
  <1>1. PICK n \in Nat : n = Len(s) OBVIOUS
  <1>2. PICK t : t = Append(s, e) OBVIOUS
  <1>3. Len(t) = n + 1 /\ t[n + 1] = e BY <1>1, <1>2
  <1>4. \A i \in 1 .. n : i \in 1 .. n + 1 /\ t[i] = s[i] BY <1>1, <1>2
  <1>5. Occurs(t, e)
    <2>1. n + 1 \in 1 .. n + 1 BY <1>1
    <2> QED BY <1>3, <2>1 DEF Occurs
  <1>6. ASSUME NEW x, Occurs(s, x) PROVE Occurs(t, x)
    <2>1. PICK i \in 1 .. n : s[i] = x BY <1>1, <1>6 DEF Occurs
    <2>2. i \in 1 .. n + 1 /\ t[i] = x BY <1>4, <2>1
    <2> QED BY <1>3, <2>2 DEF Occurs
  <1>7. ASSUME NEW x, Occurs(t, x) PROVE x = e \/ Occurs(s, x)
    BY <1>2, <1>7, OccursAppend
  <1> QED BY <1>2, <1>5, <1>6, <1>7

LEMMA OccursHeadTail ==
  ASSUME NEW S, NEW s \in Seq(S), s # <<>>
  PROVE  \A x : Occurs(s, x) <=> x = Head(s) \/ Occurs(Tail(s), x)
  <1>1. ASSUME NEW x, Occurs(s, x), x # Head(s) PROVE Occurs(Tail(s), x)
    <2>1. PICK i \in 1 .. Len(s) : s[i] = x BY <1>1 DEF Occurs
    <2>2. i # 1 BY <1>1, <2>1
    <2>3. i - 1 \in 1 .. Len(Tail(s)) /\ Tail(s)[i - 1] = x BY <2>1, <2>2
    <2> QED BY <2>3 DEF Occurs
  <1> QED BY <1>1, OccursHead, OccursTail

LEMMA RisingAppend ==
  ASSUME NEW s \in Seq(Nat), NEW e \in Nat, Rising(s),
         \A x \in Nat : Occurs(s, x) => x < e
  PROVE  Rising(Append(s, e))
  <1>1. PICK n \in Nat : n = Len(s) OBVIOUS
  <1>2. Len(Append(s, e)) = n + 1 /\ Append(s, e)[n + 1] = e BY <1>1
  <1>3. \A i \in 1 .. n : Append(s, e)[i] = s[i] /\ s[i] \in Nat BY <1>1
  <1>4. \A i \in 1 .. n : s[i] < e BY <1>1, <1>3 DEF Occurs
  <1>5. ASSUME NEW i \in 1 .. n + 1, NEW j \in 1 .. n + 1, i < j
        PROVE  Append(s, e)[i] < Append(s, e)[j]
    <2>1. i \in 1 .. n BY <1>5
    <2>2. CASE j = n + 1 BY <1>2, <1>3, <1>4, <2>1, <2>2
    <2>3. CASE j \in 1 .. n BY <1>1, <1>3, <1>5, <2>1, <2>3 DEF Rising
    <2> QED BY <1>1, <1>5, <2>2, <2>3
  <1> QED BY <1>2, <1>5 DEF Rising

LEMMA RisingTail ==
  ASSUME NEW s \in Seq(Nat), s # <<>>, Rising(s)
  PROVE  /\ Rising(Tail(s))
         /\ \A x \in Nat : Occurs(Tail(s), x) => Head(s) < x
  <1>1. PICK n \in Nat : n + 1 = Len(s) /\ n = Len(Tail(s)) OBVIOUS
  <1>2. \A i \in 1 .. n : Tail(s)[i] = s[i + 1] /\ i + 1 \in 1 .. n + 1
    BY <1>1
  <1>3. Head(s) = s[1] /\ 1 \in 1 .. n + 1 BY <1>1
  <1>4. ASSUME NEW i \in 1 .. n, NEW j \in 1 .. n, i < j
        PROVE  Tail(s)[i] < Tail(s)[j]
    BY <1>1, <1>2, <1>4 DEF Rising
  <1>5. ASSUME NEW x \in Nat, Occurs(Tail(s), x) PROVE Head(s) < x
    <2>1. PICK i \in 1 .. n : Tail(s)[i] = x BY <1>1, <1>5 DEF Occurs
    <2> QED BY <1>1, <1>2, <1>3, <2>1 DEF Rising
  <1> QED BY <1>1, <1>4, <1>5 DEF Rising

(* The events on the wire are the messages sent last, in order.            *)
EventOn(k) == \E i \in 1 .. Len(wire) : wire[i].id = 0 /\ wire[i].n = k
WireRising ==
  \A i, j \in 1 .. Len(wire) :
    i < j /\ wire[i].id = 0 /\ wire[j].id = 0 => wire[i].n < wire[j].n

LEMMA WireAppend ==
  ASSUME wire \in Seq(WireRec), NEW m \in WireRec, wire' = Append(wire, m)
  PROVE  /\ \A k : EventOn(k)' <=> EventOn(k) \/ (m.id = 0 /\ m.n = k)
         /\ WireRising /\ (m.id = 0 => \A k \in Nat : EventOn(k) => k < m.n)
              => WireRising'
  <1>1. PICK n \in Nat : n = Len(wire) OBVIOUS
  <1>2. Len(wire') = n + 1 /\ wire'[n + 1] = m BY <1>1
  <1>3. \A i \in 1 .. n : wire'[i] = wire[i] /\ wire[i] \in WireRec BY <1>1
  <1>4. \A i \in 1 .. n : wire[i].n \in Nat BY <1>3, Records
  <1>5. \A i \in 1 .. n + 1 : i \in 1 .. n \/ i = n + 1 BY <1>1
  <1>6. n + 1 \in 1 .. n + 1 /\ \A i \in 1 .. n : i \in 1 .. n + 1 BY <1>1
  <1>7. ASSUME NEW k PROVE EventOn(k)' <=> EventOn(k) \/ (m.id = 0 /\ m.n = k)
    BY <1>1, <1>2, <1>3, <1>5, <1>6 DEF EventOn
  <1>8. ASSUME WireRising, m.id = 0 => \A k \in Nat : EventOn(k) => k < m.n
        PROVE  WireRising'
    <2> SUFFICES ASSUME NEW i \in 1 .. n + 1, NEW j \in 1 .. n + 1, i < j,
                        wire'[i].id = 0, wire'[j].id = 0
                 PROVE  wire'[i].n < wire'[j].n
      BY <1>2 DEF WireRising
    <2>1. i \in 1 .. n OBVIOUS
    <2>2. CASE j = n + 1
      <3>1. EventOn(wire[i].n) BY <1>1, <1>3, <2>1 DEF EventOn
      <3> QED BY <1>2, <1>3, <1>4, <1>8, <2>1, <2>2, <3>1
    <2>3. CASE j \in 1 .. n BY <1>1, <1>3, <1>8, <2>1, <2>3 DEF WireRising
    <2> QED BY <1>5, <2>2, <2>3
  <1> QED BY <1>7, <1>8

LEMMA WireTail ==
  ASSUME wire \in Seq(WireRec), wire # <<>>, wire' = Tail(wire), WireRising
  PROVE  /\ WireRising'
         /\ Head(wire).id # 0 => \A k : EventOn(k)' <=> EventOn(k)
         /\ Head(wire).id = 0 =>
              /\ \A k : EventOn(k) <=> k = Head(wire).n \/ EventOn(k)'
              /\ \A k \in Nat : EventOn(k)' => Head(wire).n < k
  <1>1. PICK n \in Nat : n + 1 = Len(wire) /\ n = Len(wire') OBVIOUS
  <1>2. \A i \in 1 .. n : wire'[i] = wire[i + 1] /\ i + 1 \in 1 .. n + 1
    BY <1>1
  <1>3. PICK h : h = Head(wire) OBVIOUS
  <1>4. h = wire[1] /\ 1 \in 1 .. n + 1 BY <1>1, <1>3
  <1>5. ASSUME NEW k, EventOn(k)' PROVE EventOn(k) /\ (h.id = 0 => h.n < k)
    <2>1. PICK i \in 1 .. n : wire'[i].id = 0 /\ wire'[i].n = k
      BY <1>1, <1>5 DEF EventOn
    <2>2. wire[i + 1].id = 0 /\ wire[i + 1].n = k /\ i + 1 \in 1 .. n + 1
      BY <1>2, <2>1
    <2>3. h.id = 0 => h.n < k
      BY <1>1, <1>4, <2>1, <2>2 DEF WireRising
    <2> QED BY <1>1, <2>2, <2>3 DEF EventOn
  <1>6. ASSUME NEW k, EventOn(k) PROVE EventOn(k)' \/ (h.id = 0 /\ h.n = k)
    <2>1. PICK i \in 1 .. n + 1 : wire[i].id = 0 /\ wire[i].n = k
      BY <1>1, <1>6 DEF EventOn
    <2>2. CASE i = 1 BY <1>4, <2>1, <2>2
    <2>3. CASE i # 1
      <3>1. i - 1 \in 1 .. n /\ wire'[i - 1] = wire[i]
        BY <1>1, <2>1, <2>3
      <3> QED BY <1>1, <2>1, <3>1 DEF EventOn
    <2> QED BY <2>2, <2>3
  <1>7. WireRising'
    <2> SUFFICES ASSUME NEW i \in 1 .. n, NEW j \in 1 .. n, i < j,
                        wire'[i].id = 0, wire'[j].id = 0
                 PROVE  wire'[i].n < wire'[j].n
      BY <1>1 DEF WireRising
    <2>1. i + 1 < j + 1 OBVIOUS
    <2> QED BY <1>1, <1>2, <2>1 DEF WireRising
  <1>8. h.id = 0 => EventOn(h.n) BY <1>1, <1>4 DEF EventOn
  <1> QED BY <1>3, <1>5, <1>6, <1>7, <1>8

(* What has been handed on comes before what is queued, and that before    *)
(* what is on the wire.                                                    *)
OrderInv ==
  /\ WireRising /\ Rising(queue) /\ Rising(given)
  /\ \A k \in Nat : EventOn(k) => k \in 2 .. Len(sent)
  /\ \A k \in Nat : Occurs(queue, k) =>
       /\ k \in 2 .. Len(sent) /\ sent[k].kind = "data"
       /\ \A e \in Nat : EventOn(e) => k < e
  /\ \A g \in Nat : Occurs(given, g) =>
       /\ g \in 1 .. Len(sent)
       /\ \A k \in Nat : EventOn(k) \/ Occurs(queue, k) => g < k

(* While the handle lives, output that is in none of these places has been *)
(* dropped because the queue was full.                                     *)
Somewhere(k) ==
  k \in dropped \/ EventOn(k) \/ Occurs(queue, k) \/ Occurs(given, k)
Covered ==
  phase \notin {"failed", "gone"} =>
    \A k \in 2 .. Len(sent) : sent[k].kind = "data" => Somewhere(k)

(* The read task and what it has handed on.                                *)
ReadInv ==
  /\ task \in {"initial", "select"} => phase = "open"
  /\ given # <<>> => phase \in {"open", "gone"} /\ task \in {"select", "ended"}
  /\ task = "select" /\ given = <<>> => sent[1].from = sent[1].upto

LEMMA QuietKeepsOrder ==
  ASSUME OrderInv, Covered, UNCHANGED <<sent, queue, given>>, WireRising',
         \A k \in Nat : EventOn(k)' <=> EventOn(k),
         dropped \subseteq dropped',
         phase' \notin {"failed", "gone"} => phase \notin {"failed", "gone"}
  PROVE  OrderInv' /\ Covered'
  <1>1. OrderInv' BY DEF OrderInv
  <1>2. \A k \in Nat : Somewhere(k) => Somewhere(k)' BY DEF Somewhere
  <1>3. \A k \in 2 .. Len(sent) : k \in Nat OBVIOUS
  <1>4. Covered' BY <1>2, <1>3 DEF Covered
  <1> QED BY <1>1, <1>4

LEMMA ServeKeepsOrder ==
  ASSUME Typed, SentInv, OrderInv, Covered, Serve
  PROVE  OrderInv' /\ Covered'
  <1>0. /\ sent \in Seq(Messages) /\ requests \in Seq(Request)
        /\ wire \in Seq(WireRec)
    BY DEF Typed, DaemonTyped
  <1>1. PICK r : r = Head(requests) OBVIOUS
  <1>2. r.id \in Id
    BY <1>0, <1>1, HeadTail, Records DEF Serve
  <1>3. PICK got \in {"ok", "error"}, n \in {0, 1} : Put(Answer(r.id, got, n))
    BY <1>1 DEF Serve
  <1>4. PICK m \in WireRec : m = Answer(r.id, got, n) BY <1>2, Records
  <1>5. m.id # 0 BY <1>2, <1>4 DEF Answer, Id
  <1>6. wire' = wire \/ wire' = Append(wire, m) BY <1>3, <1>4 DEF Put
  <1>7. WireRising'
    <2>1. CASE wire' = wire BY <2>1 DEF OrderInv, WireRising
    <2>2. CASE wire' = Append(wire, m)
      BY <1>0, <1>5, <2>2, WireAppend DEF OrderInv
    <2> QED BY <1>6, <2>1, <2>2
  <1>8. \A k \in Nat : EventOn(k)' <=> EventOn(k)
    <2>1. CASE wire' = wire BY <2>1 DEF EventOn
    <2>2. CASE wire' = Append(wire, m) BY <1>0, <1>5, <2>2, WireAppend
    <2> QED BY <1>6, <2>1, <2>2
  <1>9. UNCHANGED <<phase, queue, given, dropped>> BY DEF Serve, output
  <1>10. CASE sent' = sent
    BY <1>7, <1>8, <1>9, <1>10, QuietKeepsOrder
  <1>11. CASE sent = <<>> /\ Sends
    <2>1. Len(sent) = 0 /\ Len(sent') = 1 BY <1>11 DEF Sends
    <2>2. \A k \in Nat : ~EventOn(k) /\ ~Occurs(queue, k) /\ ~Occurs(given, k)
      BY <2>1 DEF OrderInv
    <2>3. OrderInv' BY <1>7, <1>8, <1>9, <2>2 DEF OrderInv
    <2>4. Covered' BY <2>1 DEF Covered
    <2> QED BY <2>3, <2>4
  <1> QED BY <1>10, <1>11, ServeSends

LEMMA PushKeepsOrder ==
  ASSUME Typed, SentInv, OrderInv, Covered, Push
  PROVE  OrderInv' /\ Covered'
  <1>0. sent \in Seq(Messages) /\ wire \in Seq(WireRec)
    BY DEF Typed, DaemonTyped
  <1>1. UNCHANGED <<phase, queue, given, dropped>> BY DEF Push, output
  <1>2. PICK n \in Nat : n = Len(sent) BY <1>0
  <1>3. /\ n # 0 /\ Len(sent') = n + 1
        /\ \A i \in 1 .. n : sent'[i] = sent[i]
    BY <1>0, <1>2, PushSends, EmptyLen DEF Sends
  <1>4. PICK e \in WireRec : e = Event(n + 1)
    <2>1. n + 1 \in Nat OBVIOUS
    <2> QED BY <2>1, Records DEF Event
  <1>5. e.id = 0 /\ e.n = n + 1 BY <1>4 DEF Event, Answer
  <1>6. wire' = Append(wire, e) BY <1>3, <1>4 DEF Push
  <1>7. \A k \in Nat : EventOn(k) => k < n + 1 BY <1>2 DEF OrderInv
  <1>8. WireRising' BY <1>0, <1>5, <1>6, <1>7, WireAppend DEF OrderInv
  <1>9. \A k : EventOn(k)' <=> EventOn(k) \/ k = n + 1
    BY <1>0, <1>5, <1>6, WireAppend
  <1>10. \A k \in Nat : EventOn(k)' => k \in 2 .. n + 1
    BY <1>2, <1>3, <1>9 DEF OrderInv
  <1>11. ASSUME NEW k \in Nat, Occurs(queue, k)
         PROVE  /\ k \in 2 .. n + 1 /\ sent'[k].kind = "data"
                /\ \A x \in Nat : EventOn(x)' => k < x
    <2>1. k \in 2 .. n /\ sent[k].kind = "data" BY <1>2, <1>11 DEF OrderInv
    <2>2. sent'[k] = sent[k] BY <1>3, <2>1
    <2>3. ASSUME NEW x \in Nat, EventOn(x)' PROVE k < x
      BY <1>9, <1>11, <2>1, <2>3 DEF OrderInv
    <2> QED BY <2>1, <2>2, <2>3
  <1>12. ASSUME NEW g \in Nat, Occurs(given, g)
         PROVE  /\ g \in 1 .. n + 1
                /\ \A x \in Nat : EventOn(x)' \/ Occurs(queue, x) => g < x
    <2>1. g \in 1 .. n BY <1>2, <1>12 DEF OrderInv
    <2>2. ASSUME NEW x \in Nat, EventOn(x)' \/ Occurs(queue, x) PROVE g < x
      BY <1>9, <1>12, <2>1, <2>2 DEF OrderInv
    <2> QED BY <2>1, <2>2
  <1>13. OrderInv'
    BY <1>1, <1>3, <1>8, <1>10, <1>11, <1>12 DEF OrderInv
  <1>14. Covered'
    <2> SUFFICES ASSUME phase \notin {"failed", "gone"}, NEW k \in 2 .. n + 1,
                        sent'[k].kind = "data"
                 PROVE  Somewhere(k)'
      BY <1>1, <1>3 DEF Covered
    <2>1. CASE k = n + 1 BY <1>9, <2>1 DEF Somewhere
    <2>2. CASE k \in 2 .. n
      <3>1. Somewhere(k) BY <1>2, <1>3, <2>2 DEF Covered
      <3> QED BY <1>1, <1>9, <3>1 DEF Somewhere
    <2> QED BY <2>1, <2>2
  <1> QED BY <1>13, <1>14

(* Output goes from the wire to the end of the queue, or is dropped.       *)
LEMMA DispatchKeepsOrder ==
  ASSUME Typed, AttachInv, SubscribedInv, OrderInv, Covered, DispatchEvent
  PROVE  OrderInv' /\ Covered'
  <1>0. /\ sent \in Seq(Messages) /\ wire \in Seq(WireRec)
        /\ queue \in Seq(Nat) /\ dropped \subseteq Nat /\ given \in Seq(Nat)
    BY DEF Typed, DaemonTyped, OutputTyped
  <1>1. wire # <<>> /\ wire' = Tail(wire) /\ Head(wire).id = 0
    BY DEF DispatchEvent
  <1>2. PICK n \in Nat : n = Head(wire).n
    <2>1. Head(wire) \in WireRec BY <1>0, <1>1, HeadTail
    <2> QED BY <2>1, Records
  <1>3. UNCHANGED <<phase, sent, given>> BY DEF DispatchEvent
  <1>4. /\ WireRising'
        /\ \A k : EventOn(k) <=> k = n \/ EventOn(k)'
        /\ \A k \in Nat : EventOn(k)' => n < k
    BY <1>0, <1>1, <1>2, WireTail DEF OrderInv
  <1>5. EventOn(n) /\ n \in 2 .. Len(sent) BY <1>4 DEF OrderInv
  <1>6. \A k \in Nat : Occurs(queue, k) => k < n BY <1>5 DEF OrderInv
  <1>7. \A g \in Nat : Occurs(given, g) => g < n BY <1>5 DEF OrderInv
  <1>8. CASE queue' = queue
    <2>1. OrderInv' BY <1>3, <1>4, <1>8 DEF OrderInv
    <2>2. ASSUME phase \notin {"failed", "gone"}, sent[n].kind = "data"
          PROVE  n \in dropped'
      <3>1. subscriber = "listed"
        <4>1. Len(sent) # 0 BY <1>0, <1>5
        <4>2. sent # <<>> BY <1>0, <4>1, EmptyLen
        <4>3. phase \notin {"create", "subscribe"}
          BY <4>2 DEF AttachInv, NoAttachYet
        <4>4. phase \in {"attach", "handle", "open"}
          BY <2>2, <4>3 DEF Typed, PhaseTyped
        <4> QED BY <4>4 DEF SubscribedInv, DispatchEvent
      <3>2. CASE Len(queue) = QueueSize
        BY <1>2, <2>2, <3>1, <3>2 DEF DispatchEvent
      <3>3. CASE Len(queue) # QueueSize
        <4>1. queue' = Append(queue, n)
          BY <1>2, <2>2, <3>1, <3>3 DEF DispatchEvent
        <4> QED BY <1>0, <1>8, <4>1
      <3> QED BY <3>2, <3>3
    <2>3. dropped \subseteq dropped' BY DEF DispatchEvent
    <2>4. Covered'
      <3> SUFFICES ASSUME phase \notin {"failed", "gone"},
                          NEW k \in 2 .. Len(sent), sent[k].kind = "data"
                   PROVE  Somewhere(k)'
        BY <1>3 DEF Covered
      <3>1. Somewhere(k) BY DEF Covered
      <3> QED BY <1>3, <1>4, <1>8, <2>2, <2>3, <3>1 DEF Somewhere
    <2> QED BY <2>1, <2>4
  <1>9. CASE queue' # queue
    <2>1. queue' = Append(queue, n) /\ sent[n].kind = "data" /\ dropped' = dropped
      BY <1>2, <1>9 DEF DispatchEvent
    <2>2. \A x : Occurs(queue', x) <=> x = n \/ Occurs(queue, x)
      BY <1>0, <2>1, OccursAppended
    <2>3. Rising(queue') BY <1>0, <1>6, <2>1, RisingAppend DEF OrderInv
    <2>4. ASSUME NEW k \in Nat, Occurs(queue', k)
          PROVE  /\ k \in 2 .. Len(sent) /\ sent[k].kind = "data"
                 /\ \A e \in Nat : EventOn(e)' => k < e
      <3>1. CASE k = n BY <1>4, <1>5, <2>1, <3>1
      <3>2. CASE Occurs(queue, k) BY <1>4, <3>2 DEF OrderInv
      <3> QED BY <2>2, <2>4, <3>1, <3>2
    <2>5. ASSUME NEW g \in Nat, Occurs(given, g)
          PROVE  /\ g \in 1 .. Len(sent)
                 /\ \A k \in Nat : EventOn(k)' \/ Occurs(queue', k) => g < k
      BY <1>4, <1>7, <2>2, <2>5 DEF OrderInv
    <2>6. OrderInv' BY <1>3, <1>4, <2>3, <2>4, <2>5 DEF OrderInv
    <2>7. \A k : Somewhere(k) => Somewhere(k)'
      BY <1>3, <1>4, <2>1, <2>2 DEF Somewhere
    <2>8. Covered' BY <1>3, <2>7 DEF Covered
    <2> QED BY <2>6, <2>8
  <1> QED BY <1>8, <1>9

LEMMA ReaderKeepsOrder ==
  ASSUME Typed, AttachInv, SubscribedInv, OrderInv, Covered, ReaderStep
  PROVE  OrderInv' /\ Covered'
  <1>0. wire \in Seq(WireRec) BY DEF Typed, DaemonTyped
  <1>1. CASE DispatchAnswer
    <2>1. /\ wire # <<>> /\ wire' = Tail(wire) /\ Head(wire).id # 0
          /\ UNCHANGED <<sent, phase, queue, given, dropped>>
      BY <1>1 DEF DispatchAnswer, output
    <2>2. WireRising' /\ \A k : EventOn(k)' <=> EventOn(k)
      BY <1>0, <2>1, WireTail DEF OrderInv
    <2> QED BY <2>1, <2>2, QuietKeepsOrder
  <1>2. CASE ReaderEof \/ ReaderDrain \/ ReaderClear
    <2>1. UNCHANGED <<wire, sent, phase, queue, given, dropped>>
      BY <1>2 DEF ReaderEof, ReaderDrain, ReaderClear, daemon, output
    <2>2. WireRising' BY <2>1 DEF OrderInv, WireRising
    <2>3. \A k : EventOn(k)' <=> EventOn(k) BY <2>1 DEF EventOn
    <2> QED BY <2>1, <2>2, <2>3, QuietKeepsOrder
  <1> QED BY <1>1, <1>2, DispatchKeepsOrder DEF ReaderStep

(* The message after the last one that was handed on is handed on.         *)
LEMMA GiveKeepsOrder ==
  ASSUME Typed, OrderInv, Covered, NEW n \in Nat, given' = Append(given, n),
         UNCHANGED <<wire, sent, phase, dropped>>,
         n \in 1 .. Len(sent), \A g \in Nat : Occurs(given, g) => g < n,
         \A k \in Nat : EventOn(k) \/ Occurs(queue', k) => n < k,
         \A k \in Nat : Occurs(queue, k) => k = n \/ Occurs(queue', k),
         \A k \in Nat : Occurs(queue', k) => Occurs(queue, k),
         Rising(queue')
  PROVE  OrderInv' /\ Covered'
  <1>0. given \in Seq(Nat) BY DEF Typed, OutputTyped
  <1>1. WireRising' BY DEF OrderInv, WireRising
  <1>2. \A k : EventOn(k)' <=> EventOn(k) BY DEF EventOn
  <1>3. \A x : Occurs(given', x) <=> x = n \/ Occurs(given, x)
    BY <1>0, OccursAppended
  <1>4. Rising(given') BY <1>0, RisingAppend DEF OrderInv
  <1>5. ASSUME NEW g \in Nat, Occurs(given', g)
        PROVE  /\ g \in 1 .. Len(sent)
               /\ \A k \in Nat : EventOn(k) \/ Occurs(queue', k) => g < k
    <2>1. CASE g = n BY <2>1
    <2>2. CASE Occurs(given, g) BY <2>2 DEF OrderInv
    <2> QED BY <1>3, <1>5, <2>1, <2>2
  <1>6. OrderInv' BY <1>1, <1>2, <1>4, <1>5 DEF OrderInv
  <1>7. \A k \in Nat : Somewhere(k) => Somewhere(k)'
    BY <1>2, <1>3 DEF Somewhere
  <1>8. \A k \in 2 .. Len(sent) : k \in Nat OBVIOUS
  <1>9. Covered' BY <1>7, <1>8 DEF Covered
  <1> QED BY <1>6, <1>9

LEMMA EmptyNone ==
  /\ Rising(<<>>)
  /\ \A x : ~Occurs(<<>>, x)
  BY DEF Rising, Occurs

(* GivenJoins for the last piece.                                          *)
Joins(p, n, upto) ==
  \/ sent[n].from = upto
  \/ /\ sent[n].from > upto
     /\ sent[n].trunc \/ \E k \in p + 1 .. n - 1 : k \in dropped

LEMMA GiveJoins ==
  ASSUME Typed, GivenJoins, NEW n \in Nat, given' = Append(given, n),
         UNCHANGED <<sent, dropped>>, n \in 1 .. Len(sent),
         given = <<>> => Joins(1, n, sent[1].from),
         given # <<>> => /\ given[Len(given)] < n
                         /\ Joins(given[Len(given)], n,
                                  sent[given[Len(given)]].upto)
  PROVE  GivenJoins'
  <1>0. given \in Seq(Nat) BY DEF Typed, OutputTyped
  <1>1. PICK l \in Nat : l = Len(given) BY <1>0
  <1>2. /\ Len(given') = l + 1 /\ given'[l + 1] = n
        /\ \A i \in 1 .. l : given'[i] = given[i]
    BY <1>0, <1>1
  <1>3. l = 0 <=> given = <<>> BY <1>0, <1>1, EmptyLen
  <1>4. ASSUME NEW i \in 1 .. l + 1
        PROVE  LET p == IF i = 1 THEN 1 ELSE given'[i - 1]
                   upto == IF i = 1 THEN sent[1].from ELSE sent[p].upto
               IN  /\ given'[i] \in 1 .. Len(sent)
                   /\ i > 1 => p < given'[i]
                   /\ Joins(p, given'[i], upto)
    <2>1. CASE i = l + 1
      <3>1. CASE l = 0 BY <1>2, <1>3, <2>1, <3>1
      <3>2. CASE l > 0
        <4>1. given'[i - 1] = given[l] /\ i # 1 BY <1>2, <2>1, <3>2
        <4> QED BY <1>1, <1>2, <1>3, <2>1, <3>2, <4>1
      <3> QED BY <1>1, <3>1, <3>2
    <2>2. CASE i \in 1 .. l
      <3>1. i = 1 \/ (i > 1 /\ given'[i - 1] = given[i - 1])
        BY <1>2, <2>2
      <3> QED BY <1>1, <1>2, <2>2, <3>1 DEF GivenJoins, Before, Joins
    <2> QED BY <1>1, <2>1, <2>2
  <1> QED BY <1>2, <1>4 DEF GivenJoins, Before, Joins

(* What joins goes on joining as more is sent and dropped.                 *)
LEMMA QuietKeepsJoins ==
  ASSUME Typed, GivenJoins, given' = given, dropped \subseteq dropped',
         sent' = sent \/ Sends
  PROVE  GivenJoins'
  <1>0. given \in Seq(Nat) /\ sent \in Seq(Messages)
    BY DEF Typed, OutputTyped, DaemonTyped
  <1>1. PICK s \in Nat : s = Len(sent) BY <1>0
  <1>2. /\ Len(sent') \in {s, s + 1}
        /\ \A i \in 1 .. s : sent'[i] = sent[i] /\ i \in 1 .. Len(sent')
    BY <1>1 DEF Sends
  <1>3. PICK l \in Nat : l = Len(given) BY <1>0
  <1>4. ASSUME NEW i \in 1 .. l
        PROVE  /\ given[i] \in 1 .. s
               /\ i > 1 => i - 1 \in 1 .. l /\ Before(i) = given[i - 1]
                           /\ Before(i) \in 1 .. s
               /\ sent'[1] = sent[1]
    <2>1. given[i] \in 1 .. s BY <1>1, <1>3 DEF GivenJoins
    <2>2. 1 \in 1 .. s BY <2>1
    <2>3. ASSUME i > 1
          PROVE  i - 1 \in 1 .. l /\ Before(i) = given[i - 1]
                 /\ Before(i) \in 1 .. s
      BY <1>1, <1>3, <2>3 DEF GivenJoins, Before
    <2> QED BY <1>2, <2>1, <2>2, <2>3
  <1>5. ASSUME NEW i \in 1 .. l
        PROVE  LET p == Before(i)
                   n == given[i]
                   upto == IF i = 1 THEN sent'[1].from ELSE sent'[p].upto
               IN  /\ n \in 1 .. Len(sent') /\ (i > 1 => p < n)
                   /\ \/ sent'[n].from = upto
                      \/ /\ sent'[n].from > upto
                         /\ \/ sent'[n].trunc
                            \/ \E k \in p + 1 .. n - 1 : k \in dropped'
    <2>1. sent'[given[i]] = sent[given[i]] /\ given[i] \in 1 .. Len(sent')
      BY <1>2, <1>4
    <2>2. i > 1 => sent'[Before(i)] = sent[Before(i)] BY <1>2, <1>4
    <2>3. sent'[1] = sent[1] BY <1>4
    <2>4. i = 1 \/ i > 1 OBVIOUS
    <2> QED BY <1>1, <1>3, <2>1, <2>2, <2>3, <2>4 DEF GivenJoins
  <1> QED BY <1>3, <1>5 DEF GivenJoins, Before

(* From one message to a later one, if all the output between is dropped.  *)
LEMMA LaterJoins ==
  ASSUME Typed, SentInv, NEW p \in 1 .. Len(sent), NEW n \in 1 .. Len(sent),
         p < n, sent[n].kind = "data",
         \A k \in p + 1 .. n - 1 : sent[k].kind = "data" => k \in dropped
  PROVE  Joins(p, n, sent[p].upto)
  <1>0. sent \in Seq(Messages) BY DEF Typed, DaemonTyped
  <1>1. sent[p].upto \in Nat /\ sent[n].from \in Nat
    <2>1. sent[p] \in Messages /\ sent[n] \in Messages BY <1>0
    <2> QED BY <2>1, MessageFields
  <1>2. /\ sent[p].upto <= sent[n].from
        /\ p + 1 = n /\ sent[p].upto < sent[n].from => sent[n].trunc
    BY DEF SentInv
  <1>3. CASE sent[n].from = sent[p].upto BY <1>3 DEF Joins
  <1>4. CASE sent[p].upto < sent[n].from /\ p + 1 = n
    BY <1>1, <1>2, <1>4 DEF Joins
  <1>5. CASE sent[p].upto < sent[n].from /\ p + 1 # n
    <2>1. p + 1 \in 1 .. Len(sent) /\ p + 1 # 1 /\ p + 1 < Len(sent)
          /\ p + 1 \in p + 1 .. n - 1
      BY <1>0, <1>5
    <2>2. sent[p + 1].kind = "data" BY <2>1 DEF SentInv, Output
    <2>3. p + 1 \in dropped BY <2>1, <2>2
    <2> QED BY <1>1, <1>5, <2>1, <2>3 DEF Joins
  <1> QED BY <1>1, <1>2, <1>3, <1>4, <1>5

LEMMA ReadKeepsOutput ==
  ASSUME Typed, SentInv, AttachInv, OrderInv, Covered, ReadInv, GivenJoins,
         ReadStep
  PROVE  OrderInv' /\ Covered' /\ ReadInv' /\ GivenJoins'
  <1>0. /\ sent \in Seq(Messages) /\ queue \in Seq(Nat) /\ given \in Seq(Nat)
    BY DEF Typed, DaemonTyped, OutputTyped
  <1>1. UNCHANGED <<wire, sent, phase, dropped>>
    BY DEF ReadStep, ReadInitial, ReadQueue, ReadEnd, QuietRead, daemon
  <1>2. \A k : EventOn(k)' <=> EventOn(k) BY <1>1 DEF EventOn
  <1>3. WireRising' BY <1>1 DEF OrderInv, WireRising
  <1>4. ASSUME UNCHANGED <<queue, given>>
        PROVE  OrderInv' /\ Covered' /\ GivenJoins'
    BY <1>1, <1>2, <1>3, <1>4, QuietKeepsOrder, QuietKeepsJoins
  <1>5. CASE ReadEnd
    <2>1. UNCHANGED <<queue, given>> /\ task' = "ended"
          /\ task = "select"
      BY <1>5 DEF ReadEnd
    <2>2. ReadInv' BY <1>1, <2>1 DEF ReadInv
    <2> QED BY <1>4, <2>1, <2>2
  <1>6. CASE ReadInitial
    <2>1. /\ task = "initial" /\ task' = "select" /\ queue' = queue
          /\ phase = "open" /\ given = <<>>
      BY <1>6 DEF ReadInitial, ReadInv
    <2>2. sent # <<>> BY <2>1 DEF AttachInv
    <2>3. Len(sent) # 0 /\ Len(sent) \in Nat BY <1>0, <2>2, EmptyLen
    <2>4. 1 \in 1 .. Len(sent) BY <2>3
    <2>5. CASE sent[1].from < sent[1].upto
      <3>1. given' = Append(given, 1) BY <1>6, <2>5 DEF ReadInitial
      <3>2. \A k \in Nat : EventOn(k) \/ Occurs(queue, k) => 1 < k
        BY DEF OrderInv
      <3>3. \A g : ~Occurs(given, g) BY <2>1, EmptyNone
      <3>4. Rising(queue') BY <2>1 DEF OrderInv
      <3>5. OrderInv' /\ Covered'
        BY <1>1, <2>1, <2>4, <3>1, <3>2, <3>3, <3>4, GiveKeepsOrder
      <3>6. Joins(1, 1, sent[1].from) BY DEF Joins
      <3>7. GivenJoins' BY <1>1, <2>1, <2>4, <3>1, <3>6, GiveJoins
      <3>8. given' # <<>> BY <1>0, <3>1
      <3> QED BY <1>1, <2>1, <3>5, <3>7, <3>8 DEF ReadInv
    <2>6. CASE ~(sent[1].from < sent[1].upto)
      <3>1. given' = given BY <1>6, <2>6 DEF ReadInitial
      <3>2. sent[1] \in Messages BY <1>0, <2>4
      <3>3. sent[1].from <= sent[1].upto BY <2>4 DEF SentInv
      <3>4. sent[1].from = sent[1].upto
        BY <2>6, <3>2, <3>3, MessageFields
      <3>5. ReadInv' BY <1>1, <2>1, <3>1, <3>4 DEF ReadInv
      <3> QED BY <1>4, <2>1, <3>1, <3>5
    <2> QED BY <2>5, <2>6
  <1>7. CASE ReadQueue
    <2>1. /\ task = "select" /\ task' = task /\ phase = "open"
          /\ queue # <<>> /\ queue' = Tail(queue)
          /\ given' = Append(given, Head(queue))
      BY <1>7 DEF ReadQueue, ReadInv
    <2>2. PICK n \in Nat : n = Head(queue) BY <1>0, <2>1, HeadTail
    <2>3. \A x : Occurs(queue, x) <=> x = n \/ Occurs(queue', x)
      BY <1>0, <2>1, <2>2, OccursHeadTail
    <2>4. /\ Rising(queue') /\ \A x \in Nat : Occurs(queue', x) => n < x
      BY <1>0, <2>1, <2>2, RisingTail DEF OrderInv
    <2>5. /\ n \in 2 .. Len(sent) /\ sent[n].kind = "data"
          /\ \A e \in Nat : EventOn(e) => n < e
      BY <2>3 DEF OrderInv
    <2>6. \A g \in Nat : Occurs(given, g) => g < n BY <2>3 DEF OrderInv
    <2>7. given' = Append(given, n) BY <2>1, <2>2
    <2>8. n \in 1 .. Len(sent) /\ 1 \in 1 .. Len(sent) /\ 1 < n
      BY <1>0, <2>5
    <2>9. OrderInv' /\ Covered'
      BY <1>1, <2>3, <2>4, <2>5, <2>6, <2>7, <2>8, GiveKeepsOrder
    <2>10. ASSUME NEW p \in 1 .. Len(sent), p < n,
                  \A g \in Nat : Occurs(given, g) => g <= p
           PROVE  Joins(p, n, sent[p].upto)
      <3>1. ASSUME NEW k \in p + 1 .. n - 1, sent[k].kind = "data"
            PROVE  k \in dropped
        <4>1. k \in Nat /\ k \in 2 .. Len(sent) /\ k < n /\ p < k
          BY <1>0, <2>8
        <4>2. Somewhere(k) BY <2>1, <3>1, <4>1 DEF Covered
        <4>3. ~EventOn(k) BY <2>5, <4>1
        <4>4. ~Occurs(queue, k) BY <2>3, <2>4, <4>1
        <4>5. ~Occurs(given, k) BY <2>10, <4>1
        <4> QED BY <4>2, <4>3, <4>4, <4>5 DEF Somewhere
      <3> QED BY <2>5, <2>8, <2>10, <3>1, LaterJoins
    <2>11. ASSUME given = <<>> PROVE GivenJoins'
      <3>1. sent[1].from = sent[1].upto BY <2>1, <2>11 DEF ReadInv
      <3>2. \A g \in Nat : ~Occurs(given, g) BY <2>11, EmptyNone
      <3>3. Joins(1, n, sent[1].from) BY <2>8, <2>10, <3>1, <3>2
      <3>4. UNCHANGED <<sent, dropped>> BY <1>1
      <3> QED BY <2>7, <2>8, <2>11, <3>3, <3>4, GiveJoins
    <2>12. ASSUME given # <<>> PROVE GivenJoins'
      <3>1. PICK l \in Nat : l = Len(given) BY <1>0
      <3>2. l # 0 BY <1>0, <2>12, <3>1, EmptyLen
      <3>3. PICK p \in Nat : p = given[l] BY <1>0, <3>1, <3>2
      <3>4. l \in 1 .. l BY <3>2
      <3>5. Occurs(given, p) BY <3>1, <3>3, <3>4 DEF Occurs
      <3>6. p \in 1 .. Len(sent) /\ p < n BY <2>6, <3>5 DEF OrderInv
      <3>7. ASSUME NEW g \in Nat, Occurs(given, g) PROVE g <= p
        <4>1. PICK i \in 1 .. l : given[i] = g BY <3>1, <3>7 DEF Occurs
        <4>2. i = l \/ i < l OBVIOUS
        <4> QED BY <3>1, <3>3, <3>4, <4>1, <4>2 DEF OrderInv, Rising
      <3>8. Joins(p, n, sent[p].upto) BY <2>10, <3>6, <3>7
      <3>9. p = given[Len(given)] BY <3>1, <3>3
      <3>10. given[Len(given)] < n
             /\ Joins(given[Len(given)], n, sent[given[Len(given)]].upto)
        BY <3>6, <3>8, <3>9
      <3>11. UNCHANGED <<sent, dropped>> BY <1>1
      <3> QED BY <2>7, <2>8, <2>12, <3>10, <3>11, GiveJoins
    <2>13. given' # <<>> BY <1>0, <2>7
    <2>14. GivenJoins' BY <2>11, <2>12
    <2>15. ReadInv' BY <1>1, <2>1, <2>13 DEF ReadInv
    <2> QED BY <2>9, <2>14, <2>15
  <1> QED BY <1>5, <1>6, <1>7 DEF ReadStep

OutputInv ==
  /\ SentInv /\ AttachInv /\ SubscribedInv /\ OrderInv /\ Covered /\ ReadInv
  /\ GivenJoins

LEMMA OutputKept ==
  ASSUME Typed, CallsInv, Opening, OutputInv, [Next]_vars
  PROVE  OutputInv'
  <1>0. /\ SentInv /\ AttachInv /\ SubscribedInv /\ OrderInv /\ Covered
        /\ ReadInv /\ GivenJoins
    BY DEF OutputInv
  <1>1. AttachInv' /\ SubscribedInv' BY <1>0, AttachKept, SubscribedKept
  <1>2. ASSUME UNCHANGED <<sent, queue, given, wire>>, dropped' = dropped,
               phase' \notin {"failed", "gone"} =>
                 phase \notin {"failed", "gone"},
               ReadInv'
        PROVE  OutputInv'
    <2>1. SentInv' BY <1>0, <1>2 DEF SentInv
    <2>2. WireRising' BY <1>0, <1>2 DEF OrderInv, WireRising
    <2>3. \A k \in Nat : EventOn(k)' <=> EventOn(k) BY <1>2 DEF EventOn
    <2>4. OrderInv' /\ Covered' BY <1>0, <1>2, <2>2, <2>3, QuietKeepsOrder
    <2>5. GivenJoins' BY <1>0, <1>2, QuietKeepsJoins
    <2> QED BY <1>1, <1>2, <2>1, <2>4, <2>5 DEF OutputInv
  <1>3. ASSUME UNCHANGED <<sent, queue, given, wire, dropped>>,
               phase' = phase, task' \in {task, "ended"}
        PROVE  OutputInv'
    <2>1. ReadInv' BY <1>0, <1>3 DEF ReadInv
    <2> QED BY <1>2, <1>3, <2>1
  <1>4. CASE \/ UNCHANGED vars \/ ShellEnds \/ LinkFails \/ DaemonNotices
             \/ Release \/ \E a \in Actor : CallStep(a)
             \/ \E a \in Caller : CallerStep(a)
    <2>1. /\ UNCHANGED <<sent, queue, given, wire, dropped, phase>>
          /\ task' \in {task, "ended"}
      BY <1>4 DEF vars, ShellEnds, LinkFails, DaemonNotices, Release, CallStep,
         Insert, Write, Timeout, CallerStep, Input, Detach, Close, Return,
         QuietUse, daemon, output
    <2> QED BY <1>3, <2>1
  <1>5. CASE OpenerStep
    <2>1. /\ UNCHANGED <<sent, queue, given, wire, dropped>>
          /\ phase \notin {"open", "gone", "failed"}
      BY <1>5 DEF OpenerStep, CreateSession, SubscribeData, AttachSession,
         NewHandle, Open, QuietOpen, daemon
    <2>2. task \notin {"initial", "select"} /\ given = <<>>
      BY <1>0, <2>1 DEF ReadInv
    <2>3. \/ task' = task
          \/ task' = "initial" /\ phase' = "open"
      BY <1>5 DEF OpenerStep, CreateSession, SubscribeData, AttachSession,
         NewHandle, Open
    <2>4. ReadInv' BY <2>1, <2>2, <2>3 DEF ReadInv
    <2> QED BY <1>2, <2>1, <2>4
  <1>6. CASE DropHandle
    <2>1. /\ UNCHANGED <<sent, given, wire, dropped>> /\ phase' = "gone"
          /\ queue' = <<>> /\ task' = "ended"
      BY <1>6 DEF DropHandle, daemon
    <2>2. SentInv' BY <1>0, <2>1 DEF SentInv
    <2>3. WireRising' BY <1>0, <2>1 DEF OrderInv, WireRising
    <2>4. \A k \in Nat : EventOn(k)' <=> EventOn(k) BY <2>1 DEF EventOn
    <2>5. OrderInv' BY <1>0, <2>1, <2>3, <2>4, EmptyNone DEF OrderInv
    <2>6. Covered' BY <2>1 DEF Covered
    <2>7. ReadInv' BY <2>1 DEF ReadInv
    <2>8. GivenJoins' BY <1>0, <2>1, QuietKeepsJoins
    <2> QED BY <1>1, <2>2, <2>5, <2>6, <2>7, <2>8 DEF OutputInv
  <1>7. CASE Serve \/ Push
    <2>1. UNCHANGED <<phase, given, dropped, task>>
      BY <1>7 DEF Serve, Push, output
    <2>2. /\ SentInv'
          /\ sent' = sent \/ (sent = <<>> /\ Sends) \/ (sent # <<>> /\ Sends)
      BY <1>0, <1>7, ServeSends, PushSends
    <2>3. OrderInv' /\ Covered'
      BY <1>0, <1>7, ServeKeepsOrder, PushKeepsOrder
    <2>4. GivenJoins' BY <1>0, <2>1, <2>2, QuietKeepsJoins
    <2>5. ReadInv'
      <3>1. ASSUME task = "select" PROVE sent'[1] = sent[1]
        <4>1. sent # <<>> BY <1>0, <3>1 DEF ReadInv, AttachInv
        <4>2. sent \in Seq(Messages) BY DEF Typed, DaemonTyped
        <4>3. Len(sent) # 0 /\ Len(sent) \in Nat BY <4>1, <4>2, EmptyLen
        <4>4. 1 \in 1 .. Len(sent) BY <4>3
        <4> QED BY <2>2, <4>4 DEF Sends
      <3> QED BY <1>0, <2>1, <3>1 DEF ReadInv
    <2> QED BY <1>1, <2>2, <2>3, <2>4, <2>5 DEF OutputInv
  <1>8. CASE ReaderStep
    <2>1. /\ UNCHANGED <<sent, given, phase, task>>
          /\ dropped \subseteq dropped'
      BY <1>8 DEF ReaderStep, DispatchAnswer, DispatchEvent, ReaderEof,
         ReaderDrain, ReaderClear, daemon, output
    <2>2. SentInv' BY <1>0, <2>1 DEF SentInv
    <2>3. OrderInv' /\ Covered' BY <1>0, <1>8, ReaderKeepsOrder
    <2>4. GivenJoins' BY <1>0, <2>1, QuietKeepsJoins
    <2>5. ReadInv' BY <1>0, <2>1 DEF ReadInv
    <2> QED BY <1>1, <2>2, <2>3, <2>4, <2>5 DEF OutputInv
  <1>9. CASE ReadStep
    <2>1. UNCHANGED sent
      BY <1>9 DEF ReadStep, ReadInitial, ReadQueue, ReadEnd, QuietRead, daemon
    <2>2. SentInv' BY <1>0, <2>1 DEF SentInv
    <2> QED BY <1>0, <1>1, <1>9, <2>2, ReadKeepsOutput DEF OutputInv
  <1> QED BY <1>4, <1>5, <1>6, <1>7, <1>8, <1>9 DEF Next

(* What the read task hands on is the output in order, each piece once,    *)
(* with nothing missing but what was dropped: for any queue size, any      *)
(* number of messages and any timing of the reader and the read task.      *)
THEOREM OutputJoins == Spec => []GivenJoins
  <1>1. Init => OutputInv /\ EndInv
    <2> SUFFICES ASSUME Init PROVE OutputInv /\ EndInv OBVIOUS
    <2>1. /\ sent = <<>> /\ wire = <<>> /\ requests = <<>>
          /\ queue = <<>> /\ given = <<>> /\ task = "none"
          /\ phase \in {"create", "subscribe"} /\ served = {}
      BY DEF Init, StreamInit
    <2>2. \A a \in Actor : call[a].op = "none" BY DEF Init, NoCall
    <2>3. \A k : ~EventOn(k) BY <2>1 DEF EventOn
    <2>4. SentInv BY <2>1 DEF SentInv
    <2>5. AttachInv BY <2>1, <2>2, EmptyNone DEF AttachInv, NoAttachYet
    <2>6. SubscribedInv BY <2>1 DEF SubscribedInv
    <2>7. WireRising BY <2>1 DEF WireRising
    <2>8. OrderInv BY <2>1, <2>3, <2>7, EmptyNone DEF OrderInv
    <2>9. Covered BY <2>1 DEF Covered
    <2>10. ReadInv BY <2>1 DEF ReadInv
    <2>11. GivenJoins BY <2>1 DEF GivenJoins
    <2>12. EndInv BY EndInit
    <2> QED BY <2>4, <2>5, <2>6, <2>8, <2>9, <2>10, <2>11, <2>12 DEF OutputInv
  <1>2. Typed /\ CallsInv /\ EndInv /\ [Next]_vars => EndInv'
    BY EndKept
  <1>3. Typed /\ CallsInv /\ EndInv /\ OutputInv /\ [Next]_vars => OutputInv'
    BY OutputKept DEF EndInv
  <1>4. OutputInv => GivenJoins BY DEF OutputInv
  <1> QED BY <1>1, <1>2, <1>3, <1>4, ClientTyped, ClientCalls, PTL DEF Spec
=============================================================================
