---------------------------- MODULE ServiceProofs ----------------------------
(***************************************************************************)
(* Proofs about what the application serves beside its sessions.  First    *)
(* ControlPlane, for any number of servers, pids and CLI runs: what the    *)
(* discovery files say of the servers that run, and who approved a         *)
(* session, whatever crashes, is swept or takes over a pid in between.     *)
(* Then FileTransfer, for any directories and any number of operations at  *)
(* once: files are whole on both sides, and replacing one leaves a copy.   *)
(***************************************************************************)
EXTENDS ControlPlane, FileTransfer, TLAPS

-----------------------------------------------------------------------------
(* ControlPlane.                                                           *)

ServerRec == [pc : {"off", "bind", "create", "write", "running", "bare", "gone"},
              pid : Pids \cup {0}, suffix : Suffixes \cup {0},
              listening : BOOLEAN]
SessionRec == [gen : Nat, open : BOOLEAN, approved : BOOLEAN]
Endpoints == (Pids \cup {0}) \X (Suffixes \cup {0})
KindRec == {kind[k] : kind \in Kinds, k \in Calls}
CallRec ==
  [pc : {"idle", "scan", "sweep", "connect"} \cup Connected \cup Ended,
   kind : KindRec, want : SUBSET Endpoints, left : SUBSET Servers,
   found : Seq(Servers), info : SUBSET Servers, peer : SUBSET Servers,
   gen : Nat]

Typed ==
  /\ server \in [Servers -> ServerRec]
  /\ session \in [Servers -> SessionRec]
  /\ file \in [Servers -> {"none", "torn", "whole"}]
  /\ call \in [Calls -> CallRec]

Launched(i) == server[i].pc # "off"

(* The file follows the start of its server, and the system gives nobody   *)
(* the pid of a process that lives: a whole file whose pid is free is that *)
(* of a server that has ended.                                             *)
ServerInv(i) ==
  /\ server[i].pc \in {"off", "bind", "create"} => file[i] = "none"
  /\ server[i].pc = "write" => file[i] = "torn"
  /\ server[i].pc = "running" => file[i] = "whole"
  /\ file[i] = "whole" => server[i].pc \in {"running", "gone"}

(* A CLI removes only files of servers that have ended, and asks only the  *)
(* server whose file it has read.                                          *)
Knows(r) ==
  /\ \A n \in DOMAIN r.found : Launched(r.found[n])
  /\ \A i \in r.info : Launched(i) /\ Endpoint(i) \in r.want
  /\ r.pc \in {"idle", "scan", "sweep"} => r.info = {}
  /\ r.pc = "sweep" => \A i \in r.peer : server[i].pc = "gone"
  /\ r.pc \in {"asked", "set"} => r.info = r.peer

CallInv(k) == Knows(call[k])

PlaneInv ==
  /\ Typed
  /\ \A i \in Servers : ServerInv(i)
  /\ \A k \in Calls : CallInv(k)
  /\ ApprovalWasGiven

(* A server keeps its endpoint, and one that has ended does not come back. *)
Onward ==
  \A i \in Servers :
    /\ Launched(i) => Launched(i)' /\ Endpoint(i)' = Endpoint(i)
    /\ server[i].pc = "gone" => server'[i].pc = "gone"

(* Approvals are only taken back, and what has approved stays known.       *)
ApprovalsStay ==
  /\ \A i \in Servers : session'[i].approved =>
       session[i].approved /\ session'[i].gen = session[i].gen
  /\ \A k \in Calls : call[k].pc = "approved" => call'[k] = call[k]

LEMMA CallTyped ==
  ASSUME Typed, NEW k \in Calls
  PROVE  call[k] \in CallRec
  BY DEF Typed

LEMMA ApprovalsKept ==
  ASSUME PlaneInv, Onward, ApprovalsStay
  PROVE  ApprovalWasGiven'
  <1> SUFFICES ASSUME NEW i \in Servers, session'[i].approved
               PROVE  \E k \in Calls :
                        /\ call'[k].pc = "approved" /\ call'[k].info = {i}
                        /\ call'[k].gen = session'[i].gen
                        /\ Endpoint(i)' \in call'[k].want
    BY DEF ApprovalWasGiven
  <1>1. PICK k \in Calls : /\ call[k].pc = "approved" /\ call[k].info = {i}
                           /\ call[k].gen = session[i].gen
                           /\ Endpoint(i) \in call[k].want
    BY DEF PlaneInv, ApprovalWasGiven, ApprovalsStay
  <1>2. call'[k] = call[k] /\ session'[i].gen = session[i].gen
    BY <1>1 DEF ApprovalsStay
  <1>3. Endpoint(i)' = Endpoint(i)
    BY <1>1 DEF PlaneInv, CallInv, Knows, Onward
  <1> QED BY <1>1, <1>2, <1>3

(* A call that does not move keeps what it knows.                          *)
LEMMA CallKept ==
  ASSUME PlaneInv, Onward, NEW k \in Calls, call'[k] = call[k]
  PROVE  CallInv(k)'
  <1>1. call[k] \in CallRec /\ CallInv(k) BY CallTyped DEF PlaneInv
  <1>2. /\ \A n \in DOMAIN call[k].found : call[k].found[n] \in Servers
        /\ call[k].info \subseteq Servers /\ call[k].peer \subseteq Servers
    BY <1>1 DEF CallRec
  <1> QED BY <1>1, <1>2 DEF CallInv, Knows, Onward, Launched

(* Steps of servers and of their agents.                                   *)
LEMMA ServerStepKeeps ==
  ASSUME PlaneInv, Typed', call' = call, Onward,
         \A i \in Servers : ServerInv(i)',
         \A i \in Servers : session'[i].approved =>
           session[i].approved /\ session'[i].gen = session[i].gen
  PROVE  PlaneInv'
  <1>1. \A k \in Calls : CallInv(k)' BY CallKept
  <1>2. ApprovalWasGiven' BY ApprovalsKept DEF ApprovalsStay
  <1> QED BY <1>1, <1>2 DEF PlaneInv

(* A server moves: its record changes, and perhaps its file.               *)
LEMMA OneServerMoves ==
  ASSUME PlaneInv, NEW i \in Servers, NEW r \in ServerRec,
         server' = [server EXCEPT ![i] = r],
         NEW f \in {"none", "torn", "whole"}, file' = [file EXCEPT ![i] = f],
         Launched(i) => /\ r.pc # "off" /\ r.pid = server[i].pid
                        /\ r.suffix = server[i].suffix,
         server[i].pc = "gone" => r.pc = "gone",
         ServerInv(i)',
         session' = [session EXCEPT ![i] = NoSession] \/ session' = session,
         call' = call
  PROVE  PlaneInv'
  <1>0. Typed BY DEF PlaneInv
  <1>1. \A j \in Servers : j # i => server'[j] = server[j] /\ file'[j] = file[j]
    BY <1>0 DEF Typed
  <1>2. server'[i] = r BY <1>0 DEF Typed
  <1>3. NoSession \in SessionRec /\ ~NoSession.approved
    BY DEF NoSession, SessionRec
  <1>4. Typed' BY <1>0, <1>3 DEF Typed
  <1>5. \A j \in Servers : ServerInv(j)' BY <1>1 DEF PlaneInv, ServerInv
  <1>6. Onward BY <1>1, <1>2 DEF Onward, Launched, Endpoint
  <1>7. \A j \in Servers : session'[j].approved =>
          session[j].approved /\ session'[j].gen = session[j].gen
    BY <1>0, <1>3 DEF Typed
  <1> QED BY <1>4, <1>5, <1>6, <1>7, ServerStepKeeps

LEMMA LifeKeeps ==
  ASSUME PlaneInv, NEW i \in Servers,
         \/ Launch(i) \/ Bind(i) \/ BindPipe(i) \/ Create(i) \/ Write(i)
         \/ Exit(i) \/ Crash(i)
  PROVE  PlaneInv'
  <1>1. PICK s \in ServerRec : s = server[i] BY DEF PlaneInv, Typed
  <1>2. ServerInv(i) /\ file[i] \in {"none", "torn", "whole"}
        /\ file = [file EXCEPT ![i] = file[i]]
    BY DEF PlaneInv, Typed
  <1>3. ASSUME NEW stage \in {"create", "write", "running", "bare", "gone"},
               NEW l \in BOOLEAN,
               server' = [server EXCEPT ![i].pc = stage, ![i].listening = l],
               NEW f \in {"none", "torn", "whole"},
               file' = [file EXCEPT ![i] = f],
               s.pc = "gone" => stage = "gone",
               stage = "create" => f = "none", stage = "write" => f = "torn",
               stage = "running" => f = "whole",
               f = "whole" => stage \in {"running", "gone"},
               session' = [session EXCEPT ![i] = NoSession] \/ session' = session,
               call' = call
        PROVE  PlaneInv'
    <2>1. PICK r : r = [s EXCEPT !.pc = stage, !.listening = l] OBVIOUS
    <2>2. /\ r \in ServerRec /\ r.pc = stage /\ r.pid = s.pid
          /\ r.suffix = s.suffix
      BY <2>1 DEF ServerRec
    <2>3. server' = [server EXCEPT ![i] = r] BY <1>1, <1>3, <2>1
    <2>4. server'[i] = r /\ file'[i] = f BY <1>3, <2>3 DEF PlaneInv, Typed
    <2>5. ServerInv(i)' BY <1>3, <2>2, <2>4 DEF ServerInv
    <2> QED BY <1>1, <1>3, <2>2, <2>3, <2>5, OneServerMoves
  <1>4. ASSUME NEW stage, To(i, stage)
        PROVE  server' = [server EXCEPT ![i].pc = stage,
                                        ![i].listening = s.listening]
    BY <1>1, <1>4 DEF To, PlaneInv, Typed, ServerRec
  <1>5. s.listening \in BOOLEAN BY DEF ServerRec
  <1>6. CASE Launch(i)
    <2>1. PICK pid \in Pids, suffix \in Suffixes :
            server' = [server EXCEPT ![i] =
              [pc |-> "bind", pid |-> pid, suffix |-> suffix, listening |-> FALSE]]
      BY <1>6 DEF Launch
    <2>2. PICK r : r = [pc |-> "bind", pid |-> pid, suffix |-> suffix,
                        listening |-> FALSE]
      OBVIOUS
    <2>3. r \in ServerRec /\ r.pc = "bind" BY <2>2 DEF ServerRec
    <2>4. /\ server[i].pc = "off" /\ file' = file /\ session' = session
          /\ call' = call
      BY <1>6 DEF Launch, OnlyServer
    <2>5. server'[i] = r BY <2>1, <2>2 DEF PlaneInv, Typed
    <2>6. ServerInv(i)' BY <1>2, <2>3, <2>4, <2>5 DEF ServerInv
    <2>7. server' = [server EXCEPT ![i] = r] BY <2>1, <2>2
    <2>8. file' = [file EXCEPT ![i] = file[i]] BY <1>2, <2>4
    <2> QED BY <1>2, <2>3, <2>4, <2>6, <2>7, <2>8, OneServerMoves DEF Launched
  <1>7. CASE Bind(i) \/ BindPipe(i)
    <2>1. /\ s.pc = "bind" /\ file' = [file EXCEPT ![i] = file[i]]
          /\ file[i] = "none" /\ session' = session /\ call' = call
          /\ \/ server' = [server EXCEPT ![i].pc = "bare", ![i].listening = FALSE]
             \/ server' = [server EXCEPT ![i].pc = "create", ![i].listening = TRUE]
      BY <1>1, <1>2, <1>7
         DEF Bind, BindPipe, Bare, Listens, OnlyServer, ServerInv
    <2> QED BY <1>3, <2>1
  <1>8. CASE Create(i)
    <2>1. s.pc = "create" /\ session' = session /\ call' = call
          /\ file[i] = "none"
      BY <1>1, <1>2, <1>8 DEF Create, OnlyServer, ServerInv
    <2>2. CASE Bare(i) /\ UNCHANGED file
      BY <1>2, <1>3, <2>1, <2>2 DEF Bare
    <2>3. CASE To(i, "write") /\ file' = [file EXCEPT ![i] = "torn"]
      BY <1>3, <1>4, <1>5, <2>1, <2>3
    <2> QED BY <1>8, <2>2, <2>3 DEF Create
  <1>9. CASE Write(i)
    <2>1. s.pc = "write" /\ session' = session /\ call' = call
          /\ file[i] = "torn"
      BY <1>1, <1>2, <1>9 DEF Write, OnlyServer, ServerInv
    <2>2. CASE Bare(i) /\ UNCHANGED file
      BY <1>2, <1>3, <2>1, <2>2 DEF Bare
    <2>3. CASE To(i, "running")
               /\ file' = [file EXCEPT ![i] = IF @ = "none" THEN "none" ELSE "whole"]
      <3>1. file' = [file EXCEPT ![i] = "whole"] BY <2>1, <2>3
      <3> QED BY <1>3, <1>4, <1>5, <2>1, <2>3, <3>1
    <2> QED BY <1>9, <2>2, <2>3 DEF Write
  <1>10. CASE Exit(i) \/ Crash(i)
    <2>1. /\ s.pc \notin {"off"} /\ call' = call
          /\ session' = [session EXCEPT ![i] = NoSession]
          /\ server' = [server EXCEPT ![i].pc = "gone", ![i].listening = FALSE]
      BY <1>1, <1>10 DEF Exit, Crash, Gone, Started
    <2>2. \E f \in {"none", "torn", "whole"} :
            file' = [file EXCEPT ![i] = f]
      <3>1. file' = [file EXCEPT ![i] = "none"] \/ file' = file
        BY <1>10 DEF Exit, Crash
      <3> QED BY <1>2, <3>1
    <2> QED BY <1>3, <2>1, <2>2
  <1> QED BY <1>6, <1>7, <1>8, <1>9, <1>10
LEMMA SessionsKeep ==
  ASSUME PlaneInv, NEW i \in Servers,
         NewSession(i) \/ CloseSession(i) \/ \E pid \in Strangers : Foreign(pid)
  PROVE  PlaneInv'
  <1>0. Typed BY DEF PlaneInv
  <1>1. UNCHANGED <<server, file, call>>
    BY DEF NewSession, CloseSession, Foreign
  <1>2. PICK s \in SessionRec : s = session[i] BY <1>0 DEF Typed
  <1>3. \/ session' = session
        \/ \E r \in SessionRec : session' = [session EXCEPT ![i] = r] /\ ~r.approved
    <2>1. CASE \E pid \in Strangers : Foreign(pid) BY <2>1 DEF Foreign
    <2>2. CASE NewSession(i)
      <3>1. PICK r : r = [gen |-> s.gen + 1, open |-> TRUE, approved |-> FALSE]
        OBVIOUS
      <3>2. session' = [session EXCEPT ![i] = r]
        BY <1>2, <2>2, <3>1 DEF NewSession
      <3>3. r \in SessionRec /\ ~r.approved BY <3>1 DEF SessionRec
      <3> QED BY <3>2, <3>3
    <2>3. CASE CloseSession(i)
      <3>1. PICK r : r = [s EXCEPT !.open = FALSE, !.approved = FALSE] OBVIOUS
      <3>2. session' = [session EXCEPT ![i] = r]
        BY <1>2, <2>3, <3>1 DEF CloseSession
      <3>3. r \in SessionRec /\ ~r.approved BY <3>1 DEF SessionRec
      <3> QED BY <3>2, <3>3
    <2> QED BY <2>1, <2>2, <2>3
  <1>4. session' \in [Servers -> SessionRec] BY <1>0, <1>3 DEF Typed
  <1>5. \A j \in Servers : session'[j].approved =>
          session[j].approved /\ session'[j].gen = session[j].gen
    BY <1>0, <1>3 DEF Typed
  <1>6. Typed' BY <1>0, <1>1, <1>4 DEF Typed
  <1>7. Onward BY <1>1 DEF Onward, Launched, Endpoint
  <1>8. \A j \in Servers : ServerInv(j)' BY <1>1 DEF PlaneInv, ServerInv
  <1> QED BY <1>1, <1>5, <1>6, <1>7, <1>8, ServerStepKeeps
-----------------------------------------------------------------------------
(* A step of the CLI or of the server's end of its connection.             *)
LEMMA CallStepKeeps ==
  ASSUME PlaneInv, NEW k \in Calls, NEW r \in CallRec,
         call' = [call EXCEPT ![k] = r],
         call[k].pc # "approved",
         server' \in [Servers -> ServerRec], Onward,
         file' \in [Servers -> {"none", "torn", "whole"}],
         \A i \in Servers : ServerInv(i)',
         session' = session,
         CallInv(k)'
  PROVE  PlaneInv'
  <1>0. Typed BY DEF PlaneInv
  <1>1. \A l \in Calls : l # k => call'[l] = call[l] BY <1>0 DEF Typed
  <1>2. Typed' BY <1>0 DEF Typed
  <1>3. \A l \in Calls : CallInv(l)' BY <1>1, CallKept
  <1>4. ApprovalWasGiven' BY <1>1, ApprovalsKept DEF ApprovalsStay
  <1> QED BY <1>2, <1>3, <1>4 DEF PlaneInv

LEMMA QuietCallStep ==
  ASSUME PlaneInv, NEW k \in Calls, NEW r \in CallRec,
         call' = [call EXCEPT ![k] = r],
         call[k].pc # "approved", UNCHANGED <<server, file, session>>,
         Knows(r)
  PROVE  PlaneInv'
  <1>0. Typed BY DEF PlaneInv
  <1>1. call'[k] = r BY <1>0 DEF Typed
  <1>2. CallInv(k)' BY <1>1 DEF CallInv, Knows, Launched, Endpoint
  <1>3. \A i \in Servers : ServerInv(i)' BY DEF PlaneInv, ServerInv
  <1>4. Onward BY DEF Onward, Launched, Endpoint
  <1>5. /\ server' \in [Servers -> ServerRec]
        /\ file' \in [Servers -> {"none", "torn", "whole"}]
    BY <1>0 DEF Typed
  <1> QED BY <1>2, <1>3, <1>4, <1>5, CallStepKeeps

(* A call that ends, or starts anew, knows nothing.                        *)
LEMMA NewCallRecord ==
  ASSUME NEW kind \in KindRec, NEW stage \in {"idle"} \cup Ended
  PROVE  /\ [NewCall(kind) EXCEPT !.pc = stage] \in CallRec
         /\ Knows([NewCall(kind) EXCEPT !.pc = stage])
  <1>1. PICK r : r = [NewCall(kind) EXCEPT !.pc = stage] OBVIOUS
  <1>2. r = [pc |-> stage, kind |-> kind, want |-> {}, left |-> {},
             found |-> <<>>, info |-> {}, peer |-> {}, gen |-> 0]
    BY <1>1 DEF NewCall
  <1>3. <<>> \in Seq(Servers) OBVIOUS
  <1>4. r \in CallRec BY <1>2, <1>3 DEF CallRec
  <1>5. Knows(r) BY <1>2 DEF Knows, Ended
  <1> QED BY <1>1, <1>4, <1>5

LEMMA IdleCallRecord ==
  ASSUME NEW kind \in KindRec
  PROVE  NewCall(kind) \in CallRec /\ Knows(NewCall(kind))
  <1>1. <<>> \in Seq(Servers) OBVIOUS
  <1> QED BY <1>1 DEF NewCall, CallRec, Knows

LEMMA EndsKeeps ==
  ASSUME PlaneInv, NEW k \in Calls, NEW stage \in {"failed", "listed"}, Ends(k, stage),
         call[k].pc # "approved", UNCHANGED <<server, file, session>>
  PROVE  PlaneInv'
  <1>1. call[k].kind \in KindRec BY CallTyped DEF PlaneInv, CallRec
  <1>2. PICK r : r = [NewCall(call[k].kind) EXCEPT !.pc = stage] OBVIOUS
  <1>3. r \in CallRec /\ Knows(r)
    <2>1. stage \in {"idle"} \cup Ended BY DEF Ended
    <2> QED BY <1>1, <1>2, <2>1, NewCallRecord
  <1>4. call' = [call EXCEPT ![k] = r] BY <1>2 DEF Ends, Step
  <1> QED BY <1>3, <1>4, QuietCallStep

(* One that goes on to another place keeps all it has.                     *)
LEMMA CallToKeeps ==
  ASSUME PlaneInv, NEW k \in Calls,
         NEW stage \in {"hello", "asked"}, CallTo(k, stage),
         stage = "asked" => call[k].info = call[k].peer,
         call[k].pc # "approved", UNCHANGED <<server, file, session>>
  PROVE  PlaneInv'
  <1>1. PICK c \in CallRec : c = call[k] BY CallTyped DEF PlaneInv
  <1>2. PICK r : r = [c EXCEPT !.pc = stage] OBVIOUS
  <1>3. /\ r \in CallRec /\ r.pc = stage /\ r.info = c.info /\ r.found = c.found
        /\ r.want = c.want /\ r.peer = c.peer
    BY <1>2 DEF CallRec, Connected
  <1>4. call' = [call EXCEPT ![k] = r] BY <1>1, <1>2 DEF CallTo
  <1>5. Knows(c) BY <1>1 DEF PlaneInv, CallInv
  <1>6. Knows(r) BY <1>1, <1>3, <1>5 DEF Knows
  <1> QED BY <1>1, <1>3, <1>4, <1>6, QuietCallStep

LEMMA StartKeeps ==
  ASSUME PlaneInv, NEW k \in Calls, Start(k)
  PROVE  PlaneInv'
  <1>1. PICK c \in CallRec : c = call[k] BY CallTyped DEF PlaneInv
  <1>2. AnyText \subseteq Endpoints BY DEF AnyText, Endpoints
  <1>3. PICK text \in SUBSET Endpoints :
          Step(k, [c EXCEPT !.pc = "scan", !.want = text,
                            !.left = {i \in Servers : file[i] # "none"}])
    BY <1>1, <1>2 DEF Start
  <1>4. PICK r : r = [c EXCEPT !.pc = "scan", !.want = text,
                               !.left = {i \in Servers : file[i] # "none"}]
    OBVIOUS
  <1>5. r \in CallRec /\ r.pc = "scan" /\ r.info = c.info /\ r.found = c.found
    BY <1>4 DEF CallRec
  <1>6. call' = [call EXCEPT ![k] = r] BY <1>3, <1>4 DEF Step
  <1>7. Knows(c) /\ c.pc = "idle" BY <1>1 DEF PlaneInv, CallInv, Start
  <1>8. Knows(r) BY <1>5, <1>7 DEF Knows
  <1>9. UNCHANGED <<server, file, session>> BY DEF Start, OnlyCall
  <1> QED BY <1>1, <1>5, <1>6, <1>7, <1>8, <1>9, QuietCallStep

LEMMA LookKeeps ==
  ASSUME PlaneInv, NEW k \in Calls, NEW i \in Servers, Look(k, i)
  PROVE  PlaneInv'
  <1>1. PICK c \in CallRec : c = call[k] BY CallTyped DEF PlaneInv
  <1>2. PICK n : n = [c EXCEPT !.left = @ \ {i}] OBVIOUS
  <1>3. n \in CallRec /\ n.pc = c.pc /\ n.info = c.info /\ n.found = c.found
        /\ n.want = c.want
    BY <1>2 DEF CallRec
  <1>4. Knows(c) /\ c.pc = "scan" /\ UNCHANGED <<server, file, session>>
    BY <1>1 DEF PlaneInv, CallInv, Look, OnlyCall
  <1>5. ServerInv(i) BY DEF PlaneInv
  <1>6. CASE file[i] # "whole"
    <2>1. call' = [call EXCEPT ![k] = n] BY <1>1, <1>2, <1>6 DEF Look, Step
    <2>2. Knows(n) BY <1>3, <1>4 DEF Knows
    <2> QED BY <1>1, <1>3, <1>4, <2>1, <2>2, QuietCallStep
  <1>7. CASE file[i] = "whole" /\ server[i].pid \in PidsInUse
    <2>1. PICK r : r = [n EXCEPT !.found = Append(@, i)] OBVIOUS
    <2>2. call' = [call EXCEPT ![k] = r]
      BY <1>1, <1>2, <1>7, <2>1 DEF Look, Step
    <2>3. n.found \in Seq(Servers) /\ Append(n.found, i) \in Seq(Servers)
      BY <1>3 DEF CallRec
    <2>4. r \in CallRec /\ r.pc = n.pc /\ r.info = n.info
          /\ r.found = Append(n.found, i)
      BY <1>3, <2>1, <2>3 DEF CallRec
    <2>5. Launched(i) BY <1>5, <1>7 DEF ServerInv, Launched
    <2>6. \A m \in DOMAIN r.found : Launched(r.found[m])
      BY <1>3, <1>4, <2>3, <2>4, <2>5 DEF Knows
    <2>7. Knows(r) BY <1>3, <1>4, <2>4, <2>6 DEF Knows
    <2> QED BY <1>1, <1>4, <2>2, <2>4, <2>7, QuietCallStep
  <1>8. CASE file[i] = "whole" /\ server[i].pid \notin PidsInUse
    <2>1. PICK r : r = [n EXCEPT !.pc = "sweep", !.peer = {i}] OBVIOUS
    <2>2. call' = [call EXCEPT ![k] = r]
      BY <1>1, <1>2, <1>8, <2>1 DEF Look, Step
    <2>3. /\ r \in CallRec /\ r.pc = "sweep" /\ r.info = n.info
          /\ r.found = n.found /\ r.peer = {i}
      BY <1>3, <2>1 DEF CallRec
    <2>4. server[i].pc = "gone"
      <3>1. i \notin Started BY <1>8 DEF PidsInUse
      <3> QED BY <1>5, <1>8, <3>1 DEF ServerInv, Started
    <2>5. Knows(r) BY <1>3, <1>4, <2>3, <2>4 DEF Knows
    <2> QED BY <1>1, <1>4, <2>2, <2>3, <2>5, QuietCallStep
  <1> QED BY <1>6, <1>7, <1>8

(* What is swept is the file of a server that has ended.                   *)
LEMMA SweepKeeps ==
  ASSUME PlaneInv, NEW k \in Calls, Sweep(k)
  PROVE  PlaneInv'
  <1>0. Typed BY DEF PlaneInv
  <1>1. PICK c \in CallRec : c = call[k] BY CallTyped DEF PlaneInv
  <1>2. PICK r : r = [c EXCEPT !.pc = "scan", !.peer = {}] OBVIOUS
  <1>3. r \in CallRec /\ r.pc = "scan" /\ r.info = c.info /\ r.found = c.found
    BY <1>2 DEF CallRec
  <1>4. call' = [call EXCEPT ![k] = r] BY <1>1, <1>2 DEF Sweep, Step
  <1>5. Knows(c) /\ c.pc = "sweep" /\ UNCHANGED <<server, session>>
    BY <1>1 DEF PlaneInv, CallInv, Sweep
  <1>6. file' = [i \in Servers |-> IF i \in c.peer THEN "none" ELSE file[i]]
    BY <1>1 DEF Sweep
  <1>7. file' \in [Servers -> {"none", "torn", "whole"}]
        /\ server' \in [Servers -> ServerRec]
    BY <1>0, <1>5, <1>6 DEF Typed
  <1>8. \A i \in Servers : ServerInv(i)'
    BY <1>5, <1>6 DEF PlaneInv, ServerInv, Knows
  <1>9. Onward BY <1>5 DEF Onward, Launched, Endpoint
  <1>10. CallInv(k)'
    <2>1. call'[k] = r BY <1>0, <1>4 DEF Typed
    <2> QED BY <1>3, <1>5, <2>1 DEF CallInv, Knows, Launched, Endpoint
  <1> QED BY <1>1, <1>3, <1>4, <1>5, <1>7, <1>8, <1>9, <1>10, CallStepKeeps

LEMMA PickKeeps ==
  ASSUME PlaneInv, NEW k \in Calls, Pick(k)
  PROVE  PlaneInv'
  <1>1. PICK c \in CallRec : c = call[k] BY CallTyped DEF PlaneInv
  <1>2. Knows(c) /\ c.pc = "scan" /\ UNCHANGED <<server, file, session>>
    BY <1>1 DEF PlaneInv, CallInv, Pick, OnlyCall
  <1>3. CASE Ends(k, "failed") BY <1>1, <1>2, <1>3, EndsKeeps
  <1>4. CASE \E n \in Named(k) :
               Step(k, [c EXCEPT !.pc = "connect", !.found = <<>>,
                                 !.info = {c.found[n]}])
    <2>1. PICK n \in Named(k) :
            Step(k, [c EXCEPT !.pc = "connect", !.found = <<>>,
                              !.info = {c.found[n]}])
      BY <1>4
    <2>2. PICK i : i = c.found[n] OBVIOUS
    <2>3. n \in DOMAIN c.found /\ Endpoint(i) \in c.want
      BY <1>1, <2>1, <2>2 DEF Named
    <2>4. i \in Servers /\ Launched(i)
      BY <1>2, <2>2, <2>3 DEF CallRec, Knows
    <2>5. PICK r : r = [c EXCEPT !.pc = "connect", !.found = <<>>, !.info = {i}]
      OBVIOUS
    <2>6. <<>> \in Seq(Servers) OBVIOUS
    <2>7. /\ r \in CallRec /\ r.pc = "connect" /\ r.found = <<>>
          /\ r.info = {i} /\ r.want = c.want
      BY <2>4, <2>5, <2>6 DEF CallRec
    <2>8. call' = [call EXCEPT ![k] = r] BY <2>1, <2>2, <2>5 DEF Step
    <2>9. Knows(r) BY <2>3, <2>4, <2>7 DEF Knows
    <2> QED BY <1>1, <1>2, <2>7, <2>8, <2>9, QuietCallStep
  <1> QED BY <1>1, <1>3, <1>4 DEF Pick

LEMMA DialKeeps ==
  ASSUME PlaneInv, NEW k \in Calls, call[k].pc = "connect",
         Dial(k) \/ Ends(k, "failed"), UNCHANGED <<server, file, session>>
  PROVE  PlaneInv'
  <1>1. PICK c \in CallRec : c = call[k] BY CallTyped DEF PlaneInv
  <1>2. CASE Ends(k, "failed") BY <1>2, EndsKeeps
  <1>3. CASE Step(k, [c EXCEPT !.pc = "queued", !.peer = Reaches(k)])
    <2>1. PICK r : r = [c EXCEPT !.pc = "queued", !.peer = Reaches(k)] OBVIOUS
    <2>2. Reaches(k) \subseteq Servers BY DEF Reaches, Listening, Started
    <2>3. /\ r \in CallRec /\ r.pc = "queued" /\ r.found = c.found
          /\ r.info = c.info /\ r.want = c.want
      BY <2>1, <2>2 DEF CallRec, Connected
    <2>4. call' = [call EXCEPT ![k] = r] BY <1>3, <2>1 DEF Step
    <2>5. Knows(c) BY <1>1 DEF PlaneInv, CallInv
    <2>6. Knows(r) BY <2>3, <2>5 DEF Knows
    <2> QED BY <2>3, <2>4, <2>6, QuietCallStep
  <1> QED BY <1>1, <1>2, <1>3 DEF Dial
-----------------------------------------------------------------------------
(* The server's end.                                                       *)
LEMMA AcceptKeeps ==
  ASSUME PlaneInv, NEW i \in Servers, NEW k \in Calls,
         Accept(i, k) \/ AcceptPipe(i, k)
  PROVE  PlaneInv'
  <1>0. Typed BY DEF PlaneInv
  <1>1. /\ call[k].pc = "queued" /\ i \in Started /\ UNCHANGED <<file, session>>
        /\ \/ CallTo(k, "hello") /\ UNCHANGED server
           \/ Ends(k, "failed") /\ server' = [server EXCEPT ![i].listening = FALSE]
    BY DEF Accept, AcceptPipe, Serves, OnlyCall
  <1>2. CASE CallTo(k, "hello") /\ UNCHANGED server BY <1>1, <1>2, CallToKeeps
  <1>3. CASE Ends(k, "failed") /\ server' = [server EXCEPT ![i].listening = FALSE]
    <2>1. call[k].kind \in KindRec BY <1>0, CallTyped DEF CallRec
    <2>2. PICK r : r = [NewCall(call[k].kind) EXCEPT !.pc = "failed"] OBVIOUS
    <2>3. r \in CallRec /\ Knows(r) /\ r.pc = "failed"
      <3>1. "failed" \in {"idle"} \cup Ended BY DEF Ended
      <3>2. r.pc = "failed" BY <2>2 DEF NewCall
      <3> QED BY <2>1, <2>2, <3>1, <3>2, NewCallRecord
    <2>4. call' = [call EXCEPT ![k] = r] BY <1>3, <2>2 DEF Ends, Step
    <2>5. PICK s \in ServerRec : s = server[i] BY <1>0 DEF Typed
    <2>6. PICK q : q = [s EXCEPT !.listening = FALSE] OBVIOUS
    <2>7. q \in ServerRec /\ q.pc = s.pc /\ q.pid = s.pid /\ q.suffix = s.suffix
      BY <2>6 DEF ServerRec
    <2>8. server' = [server EXCEPT ![i] = q] BY <1>3, <2>5, <2>6
    <2>9. \A j \in Servers : /\ server'[j].pc = server[j].pc
                             /\ server'[j].pid = server[j].pid
                             /\ server'[j].suffix = server[j].suffix
      BY <1>0, <2>5, <2>7, <2>8 DEF Typed
    <2>10. Onward /\ \A j \in Servers : ServerInv(j)'
      BY <1>1, <2>9 DEF Onward, Launched, Endpoint, PlaneInv, ServerInv
    <2>11. /\ server' \in [Servers -> ServerRec]
           /\ file' \in [Servers -> {"none", "torn", "whole"}]
      BY <1>0, <1>1, <2>7, <2>8 DEF Typed
    <2>12. CallInv(k)'
      <3>1. call'[k] = r /\ r.info = {} /\ r.found = <<>>
        BY <1>0, <2>2, <2>4 DEF Typed, NewCall
      <3> QED BY <2>3, <3>1 DEF CallInv, Knows
    <2> QED BY <1>1, <2>3, <2>4, <2>10, <2>11, <2>12, CallStepKeeps
  <1> QED BY <1>1, <1>2, <1>3

LEMMA AnswerKeeps ==
  ASSUME PlaneInv, NEW i \in Servers, NEW k \in Calls,
         Hello(i, k) \/ Dispatch(i, k)
  PROVE  PlaneInv'
  <1>0. Typed BY DEF PlaneInv
  <1>1. /\ call[k].pc \in {"hello", "asked"} /\ call[k].peer = {i}
        /\ UNCHANGED <<server, file, session>>
    BY DEF Hello, Dispatch, Serves, OnlyCall
  <1>2. CASE Ends(k, "failed") \/ Ends(k, "listed") BY <1>1, <1>2, EndsKeeps
  <1>3. CASE CallTo(k, "asked") /\ call[k].info = {i}
    BY <1>1, <1>3, CallToKeeps
  <1>4. CASE call[k].pc = "asked"
             /\ Step(k, [call[k] EXCEPT !.pc = "set", !.gen = session[i].gen])
    <2>1. PICK c \in CallRec : c = call[k] BY <1>0, CallTyped
    <2>2. PICK r : r = [c EXCEPT !.pc = "set", !.gen = session[i].gen] OBVIOUS
    <2>3. session[i].gen \in Nat BY <1>0 DEF Typed, SessionRec
    <2>4. /\ r \in CallRec /\ r.pc = "set" /\ r.found = c.found
          /\ r.info = c.info /\ r.want = c.want /\ r.peer = c.peer
      BY <2>2, <2>3 DEF CallRec, Connected
    <2>5. call' = [call EXCEPT ![k] = r] BY <1>4, <2>1, <2>2 DEF Step
    <2>6. Knows(c) /\ c.pc = "asked" BY <1>4, <2>1 DEF PlaneInv, CallInv
    <2>7. Knows(r) BY <2>4, <2>6 DEF Knows
    <2> QED BY <1>1, <2>4, <2>5, <2>7, QuietCallStep
  <1>5. CASE Hello(i, k) BY <1>2, <1>3, <1>5 DEF Hello, Ask, Rejected
  <1>6. CASE Dispatch(i, k) BY <1>2, <1>4, <1>6 DEF Dispatch, Serves
  <1> QED BY <1>5, <1>6

(* The only step that approves: the call has asked this very server for    *)
(* this very session.                                                      *)
LEMMA SetKeeps ==
  ASSUME PlaneInv, NEW i \in Servers, NEW k \in Calls, Set(i, k)
  PROVE  PlaneInv'
  <1>0. Typed BY DEF PlaneInv
  <1>1. PICK c \in CallRec : c = call[k] BY <1>0, CallTyped
  <1>2. PICK r : r = [c EXCEPT !.pc = "approved"] OBVIOUS
  <1>3. /\ r \in CallRec /\ r.pc = "approved" /\ r.found = c.found
        /\ r.info = c.info /\ r.want = c.want /\ r.peer = c.peer /\ r.gen = c.gen
    BY <1>2 DEF CallRec, Ended
  <1>4. call' = [call EXCEPT ![k] = r] BY <1>1, <1>2 DEF Set, CallTo
  <1>5. /\ c.pc = "set" /\ c.peer = {i} /\ c.info = {i} /\ Knows(c)
        /\ UNCHANGED <<server, file>>
    BY <1>1 DEF Set, Serves, PlaneInv, CallInv, Knows
  <1>6. Knows(r) BY <1>3, <1>5 DEF Knows
  <1>7. call'[k] = r /\ \A l \in Calls : l # k => call'[l] = call[l]
    BY <1>0, <1>4 DEF Typed
  <1>8. Onward BY <1>5 DEF Onward, Launched, Endpoint
  <1>9. \A l \in Calls : CallInv(l)'
    <2>1. CallInv(k)'
      BY <1>5, <1>6, <1>7 DEF CallInv, Knows, Launched, Endpoint
    <2> QED BY <1>7, <1>8, <2>1, CallKept
  <1>10. \A j \in Servers : ServerInv(j)' BY <1>5 DEF PlaneInv, ServerInv
  <1>11. PICK s \in SessionRec : s = session[i] BY <1>0 DEF Typed
  <1>12. CASE session' = session
    <2>1. ApprovalWasGiven'
      BY <1>1, <1>5, <1>7, <1>8, <1>12, ApprovalsKept DEF ApprovalsStay
    <2>2. Typed' BY <1>0, <1>3, <1>4, <1>5, <1>12 DEF Typed
    <2> QED BY <1>9, <1>10, <2>1, <2>2 DEF PlaneInv
  <1>13. CASE s.gen = c.gen /\ session' = [session EXCEPT ![i].approved = TRUE]
    <2>1. PICK q : q = [s EXCEPT !.approved = TRUE] OBVIOUS
    <2>2. q \in SessionRec /\ q.gen = s.gen BY <2>1 DEF SessionRec
    <2>3. session' = [session EXCEPT ![i] = q] BY <1>11, <1>13, <2>1
    <2>4. session'[i] = q /\ \A j \in Servers : j # i => session'[j] = session[j]
      BY <1>0, <2>3 DEF Typed
    <2>5. Typed' BY <1>0, <1>3, <1>4, <1>5, <2>2, <2>3 DEF Typed
    <2>6. ASSUME NEW j \in Servers, session'[j].approved
          PROVE  \E l \in Calls :
                   /\ call'[l].pc = "approved" /\ call'[l].info = {j}
                   /\ call'[l].gen = session'[j].gen
                   /\ Endpoint(j)' \in call'[l].want
      <3>1. CASE j = i
        <4>1. Endpoint(i) \in c.want BY <1>5 DEF Knows
        <4>2. Endpoint(i)' = Endpoint(i) BY <1>5 DEF Endpoint
        <4>3. r.pc = "approved" /\ r.info = {i} BY <1>3, <1>5
        <4>4. r.gen = session'[i].gen BY <1>3, <1>13, <2>2, <2>4
        <4>5. Endpoint(i)' \in r.want BY <1>3, <4>1, <4>2
        <4> QED BY <1>7, <3>1, <4>3, <4>4, <4>5
      <3>2. CASE j # i
        <4>1. PICK l \in Calls :
                /\ call[l].pc = "approved" /\ call[l].info = {j}
                /\ call[l].gen = session[j].gen
                /\ Endpoint(j) \in call[l].want
          BY <2>4, <2>6, <3>2 DEF PlaneInv, ApprovalWasGiven
        <4>2. l # k BY <1>1, <1>5, <4>1
        <4>3. Endpoint(j)' = Endpoint(j) BY <1>5 DEF Endpoint
        <4> QED BY <1>7, <2>4, <3>2, <4>1, <4>2, <4>3
      <3> QED BY <3>1, <3>2
    <2>7. ApprovalWasGiven' BY <2>6 DEF ApprovalWasGiven
    <2> QED BY <1>9, <1>10, <2>5, <2>7 DEF PlaneInv
  <1> QED BY <1>1, <1>11, <1>12, <1>13 DEF Set
-----------------------------------------------------------------------------
LEMMA PlaneStep == PlaneInv /\ [Next]_vars => PlaneInv'
  <1> SUFFICES ASSUME PlaneInv, [Next]_vars PROVE PlaneInv' OBVIOUS
  <1>1. CASE UNCHANGED vars
    <2>1. Typed' /\ Onward /\ call' = call
          /\ \A i \in Servers : ServerInv(i)'
      BY <1>1 DEF vars, PlaneInv, Typed, Onward, Launched, Endpoint, ServerInv
    <2> QED BY <1>1, <2>1, ServerStepKeeps DEF vars
  <1>2. ASSUME NEW pid \in Strangers, Foreign(pid) PROVE PlaneInv'
    <2>1. Typed' /\ Onward /\ call' = call /\ session' = session
          /\ \A i \in Servers : ServerInv(i)'
      BY <1>2 DEF Foreign, PlaneInv, Typed, Onward, Launched, Endpoint, ServerInv
    <2> QED BY <2>1, ServerStepKeeps
  <1>3. ASSUME NEW i \in Servers, Life(i) PROVE PlaneInv'
    BY <1>3, LifeKeeps, SessionsKeep DEF Life
  <1>4. ASSUME NEW i \in Servers, NEW k \in Calls, Serve(i, k) PROVE PlaneInv'
    BY <1>4, AcceptKeeps, AnswerKeeps, SetKeeps DEF Serve
  <1>5. ASSUME NEW k \in Calls, Start(k) \/ Cli(k) PROVE PlaneInv'
    <2>1. CASE Connect(k) \/ ConnectPipe(k)
      BY <2>1, DialKeeps DEF Connect, ConnectPipe, OnlyCall
    <2>2. CASE HangUp(k)
      <3>1. call[k].pc # "approved" BY <2>2 DEF HangUp, Connected
      <3> QED BY <2>2, <3>1, EndsKeeps DEF HangUp, OnlyCall
    <2> QED BY <1>5, <2>1, <2>2, StartKeeps, LookKeeps, SweepKeeps, PickKeeps
            DEF Cli
  <1> QED BY <1>1, <1>2, <1>3, <1>4, <1>5 DEF Next

(* The invariant: the files follow the servers, and the calls know only    *)
(* what the files have told them.                                          *)
THEOREM PlaneInvariant == Spec => []PlaneInv
  <1>1. Init => PlaneInv
    <2> SUFFICES ASSUME Init PROVE PlaneInv OBVIOUS
    <2>1. PICK kind \in Kinds : call = [k \in Calls |-> NewCall(kind[k])]
      BY DEF Init
    <2>2. ASSUME NEW k \in Calls PROVE call[k] \in CallRec /\ Knows(call[k])
      <3>1. kind[k] \in KindRec BY DEF KindRec
      <3>2. NewCall(kind[k]) \in CallRec /\ Knows(NewCall(kind[k]))
        BY <3>1, IdleCallRecord
      <3> QED BY <2>1, <3>2
    <2>3. NoServer \in ServerRec /\ NoServer.pc = "off"
          /\ NoSession \in SessionRec /\ ~NoSession.approved
      BY DEF NoServer, ServerRec, NoSession, SessionRec
    <2>4. Typed BY <2>1, <2>2, <2>3 DEF Init, Typed
    <2>5. \A i \in Servers : ServerInv(i) BY <2>3 DEF Init, ServerInv
    <2>6. ApprovalWasGiven BY <2>3 DEF Init, ApprovalWasGiven
    <2> QED BY <2>2, <2>4, <2>5, <2>6 DEF PlaneInv, CallInv
  <1> QED BY <1>1, PlaneStep, PTL DEF Spec

(* A running server is in the list whatever the CLIs sweep, and whoever    *)
(* has got the pids of the servers that ended.                             *)
THEOREM ListingIsTrue == Spec => []ListingHolds
  <1>1. PlaneInv => ListingHolds
    BY DEF PlaneInv, Typed, ServerInv, ServerRec, CallRec, ListingHolds, TypeOK,
           RunningIsListed
  <1> QED BY <1>1, PlaneInvariant, PTL

(* A session is approved only by a call that has read the file of its      *)
(* server, fits the text it was given, and found this very session.        *)
THEOREM ApprovalsAreGiven == Spec => []ApprovalWasGiven
  <1>1. PlaneInv => ApprovalWasGiven BY DEF PlaneInv
  <1> QED BY <1>1, PlaneInvariant, PTL

-----------------------------------------------------------------------------
(* FileTransfer: the types of its state, for any number of operations.     *)

Places == [path : Path, tmp : Seq({Stamp[j] : j \in Job})]
Plains == {Plain(p) : p \in Path}
Sources == {"none", "local", "remote", "edited"}
Inodes == (Sources \X Places) \cup (Job \X Places \X Nat)
Contents == {c \in Seq({"local", "remote", "edited", "hole"}) : Len(c) <= 2}
Frames == [dir : Places, left : SUBSET [place : Places, kind : NodeKinds]]

Files(fs) == {x \in DOMAIN fs : fs[x].kind = "file"}
FsTyped(fs, D) ==
  /\ DOMAIN fs \subseteq Places
  /\ \A x \in DOMAIN fs : fs[x].kind \in NodeKinds \ {"none"}
  /\ \A x \in Files(fs) : fs[x].ino \in D
SidesTyped ==
  /\ FsTyped(local, DOMAIN data) /\ FsTyped(remote, DOMAIN data)
  /\ DOMAIN data \subseteq Inodes /\ \A i \in DOMAIN data : data[i] \in Contents
JobsTyped ==
  /\ work \in [Job -> [op : Operations, path : Path]]
  /\ \A j \in Job : work[j] \in Work[j]
  /\ pc \in [Job -> Steps] /\ at \in [Job -> Places]
  /\ size \in [Job -> 0..2] /\ pos \in [Job -> 0..2]
  /\ src \in [Job -> Inodes] /\ dst \in [Job -> Inodes]
  /\ stack \in [Job -> Seq(Frames)] /\ comps \in [Job -> Seq(Plains)]
  /\ count \in [Job -> Nat] /\ faults \in 0..MaxFaults

(* Which job can be at which step, and what it has by then: the steps of   *)
(* an operation are its own, a walk below its first directory has a stack, *)
(* and from the first piece copied on a transfer has its two files open.   *)
Opened == {"copy", "verify", "rename", "remove", "again", "replace"}
Live == {j \in Job : pc[j] \in Opened}
Uploads == {"upload", "updir"}
Downloads == {"download", "downdir"}
StepsOf(op) ==
  Over \cup {"idle"} \cup
  (IF op \in Uploads THEN {"stat", "create", "copy", "verify", "rename",
                           "remove", "again", "cleanup"} ELSE {}) \cup
  (IF op \in Downloads THEN {"open", "copy", "replace", "discard"} ELSE {}) \cup
  (IF op \in Walks THEN {"enter", "walk"} ELSE {}) \cup
  (IF op = "updir" THEN {"ensure", "makedir"} ELSE {}) \cup
  (IF op \in {"downdir", "rmrec", "list"} THEN {"list"} ELSE {}) \cup
  (IF op = "rmrec" THEN {"unlink", "rmdir"} ELSE {}) \cup
  (IF op = "remove" THEN {"unlink"} ELSE {}) \cup
  (IF op = "mkdir" THEN {"mkdir", "setmode"} ELSE {}) \cup
  (IF op = "chmod" THEN {"setmode"} ELSE {})
Inside(step) == step \notin Over \cup {"idle", "enter", "ensure", "makedir", "list"}
StepOK(j) ==
  /\ pc[j] \in StepsOf(work[j].op)
  /\ pc[j] = "makedir" => comps[j] # <<>>
  /\ work[j].op \in Walks /\ Inside(pc[j]) => stack[j] # <<>>
  /\ pc[j] \in Opened => src[j] \in DOMAIN data /\ dst[j] \in DOMAIN data

FilesTyped == SidesTyped /\ JobsTyped /\ \A j \in Job : StepOK(j)

LEMMA PlainFacts ==
  /\ \A p \in Path : /\ Plain(p) \in Places /\ Plain(p) \in Plains
                     /\ Plain(p).path = p /\ Plain(p).tmp = <<>>
  /\ Plains \subseteq Places
  /\ \A x \in Places : x.tmp = <<>> => x = Plain(x.path) /\ x \in Plains
  <1>1. \A p \in Path : /\ Plain(p) \in Places /\ Plain(p) \in Plains
                         /\ Plain(p).path = p /\ Plain(p).tmp = <<>>
    BY DEF Plain, Places, Plains
  <1>2. ASSUME NEW x \in Places, x.tmp = <<>> PROVE x = Plain(x.path) /\ x \in Plains
    <2>1. x = [path |-> x.path, tmp |-> x.tmp] /\ x.path \in Path BY DEF Places
    <2> QED BY <1>2, <2>1 DEF Plain, Plains
  <1> QED BY <1>1, <1>2 DEF Plains

LEMMA TmpFacts ==
  ASSUME NEW x \in Places, NEW j \in Job
  PROVE  /\ TmpOf(x, j) \in Places /\ TmpOf(x, j).tmp # <<>>
         /\ TmpOf(x, j) # x
  BY DEF TmpOf, Places

LEMMA TmpOfPlain ==
  ASSUME NEW x \in Places, NEW y \in Places, NEW j \in Job, NEW k \in Job,
         x.tmp = <<>>, y.tmp = <<>>, TmpOf(x, j) = TmpOf(y, k)
  PROVE  Stamp[j] = Stamp[k]
  BY DEF TmpOf, Places

LEMMA PartFacts ==
  ASSUME NEW b \in Contents, NEW n \in Nat, n <= Len(b)
  PROVE  /\ [i \in 1..n |-> b[i]] \in Contents
         /\ Len([i \in 1..n |-> b[i]]) = n
         /\ n = Len(b) => [i \in 1..n |-> b[i]] = b
  BY DEF Contents

LEMMA LenFacts ==
  ASSUME NEW c \in Contents
  PROVE  Len(c) \in 0..2
  <1>1. PICK n \in Nat : n = Len(c) BY DEF Contents
  <1>2. n <= 2 BY <1>1 DEF Contents
  <1> QED BY <1>1, <1>2

(* What a walk does to its stack.                                          *)
LEMMA StackFacts ==
  ASSUME NEW s \in Seq(Frames)
  PROVE  /\ \A r \in Frames : <<r>> \o s \in Seq(Frames) /\ <<r>> \o s # <<>>
         /\ s # <<>> => /\ s[1] \in Frames /\ Tail(s) \in Seq(Frames)
                        /\ Len(s) > 1 => Tail(s) # <<>>
                        /\ \A e : LET t == [s EXCEPT ![1].left = @ \ {e}]
                                  IN  /\ t \in Seq(Frames) /\ t # <<>>
                                      /\ Len(t) = Len(s)
                                      /\ t[1].left = s[1].left \ {e}
                                      /\ \A n \in 2..Len(s) : t[n] = s[n]
  <1>1. ASSUME NEW r \in Frames PROVE <<r>> \o s \in Seq(Frames) /\ <<r>> \o s # <<>>
    <2>1. <<r>> \in Seq(Frames) /\ Len(<<r>>) = 1 OBVIOUS
    <2>2. <<r>> \o s \in Seq(Frames) /\ Len(<<r>> \o s) = 1 + Len(s) BY <2>1
    <2> QED BY <2>2
  <1>2. ASSUME s # <<>>
        PROVE  /\ s[1] \in Frames /\ Tail(s) \in Seq(Frames)
               /\ Len(s) > 1 => Tail(s) # <<>>
               /\ Len(s) \in Nat /\ 1 \in 1..Len(s)
    <2>1. Len(s) \in Nat /\ Len(s) # 0 BY <1>2
    <2>2. 1 \in 1..Len(s) BY <2>1
    <2>3. s[1] \in Frames BY <2>2
    <2>4. Tail(s) \in Seq(Frames) /\ Len(Tail(s)) = Len(s) - 1 BY <1>2, <2>1
    <2>5. Len(s) > 1 => Tail(s) # <<>>
      <3>1. Len(<<>>) = 0 OBVIOUS
      <3>2. PICK t : t = Tail(s) OBVIOUS
      <3>3. t \in Seq(Frames) /\ Len(t) = Len(s) - 1 BY <2>4, <3>2
      <3>4. Len(s) > 1 => t # <<>> BY <2>1, <3>1, <3>3
      <3> QED BY <3>2, <3>4
    <2> QED BY <2>1, <2>2, <2>3, <2>4, <2>5
  <1>3. ASSUME s # <<>>, NEW e
        PROVE  LET t == [s EXCEPT ![1].left = @ \ {e}]
               IN  /\ t \in Seq(Frames) /\ t # <<>> /\ Len(t) = Len(s)
                   /\ t[1].left = s[1].left \ {e}
                   /\ \A n \in 2..Len(s) : t[n] = s[n]
    <2> DEFINE r == [s[1] EXCEPT !.left = @ \ {e}]
    <2>1. s[1] \in Frames BY <1>2, <1>3
    <2>2. r \in Frames /\ r.left = s[1].left \ {e} BY <2>1 DEF Frames
    <2>3. PICK q : q = r OBVIOUS
    <2>4. [s EXCEPT ![1] = q] \in Seq(Frames) /\ Len([s EXCEPT ![1] = q]) = Len(s)
          /\ [s EXCEPT ![1] = q][1] = q
          /\ \A n \in 2..Len(s) : [s EXCEPT ![1] = q][n] = s[n]
      <3>1. q \in Frames BY <2>2, <2>3
      <3>2. Len(s) \in Nat /\ 1 \in DOMAIN s BY <1>2, <1>3
      <3>3. [s EXCEPT ![1] = q] \in Seq(Frames) BY <3>1, <3>2
      <3>4. DOMAIN [s EXCEPT ![1] = q] = DOMAIN s /\ DOMAIN s = 1..Len(s) OBVIOUS
      <3>5. Len([s EXCEPT ![1] = q]) = Len(s) BY <3>2, <3>3, <3>4
      <3>6. [s EXCEPT ![1] = q][1] = q BY <3>2
      <3>7. \A n \in 2..Len(s) : [s EXCEPT ![1] = q][n] = s[n] BY <3>2, <3>4
      <3> QED BY <3>3, <3>5, <3>6, <3>7
    <2>5. [s EXCEPT ![1].left = @ \ {e}] = [s EXCEPT ![1] = q] BY <2>3
    <2>6. [s EXCEPT ![1] = q] # <<>> BY <1>2, <1>3, <2>4
    <2> HIDE DEF r
    <2> QED BY <2>2, <2>3, <2>4, <2>5, <2>6
  <1> QED BY <1>1, <1>2, <1>3

LEMMA ChainFacts ==
  ASSUME TransferAssumption, NEW p \in Path
  PROVE  /\ Chain(p) \in Seq(Plains) /\ Chain(p) # <<>>
         /\ Range(Chain(p)) \subseteq Plains
  <1>1. /\ Plain(p) \in Plains /\ Plain(Up[p]) \in Plains /\ Plain(Top) \in Plains
    BY PlainFacts DEF TransferAssumption
  <1>2. Chain(p) \in Seq(Plains) /\ Chain(p) # <<>>
    BY <1>1 DEF Chain
  <1> QED BY <1>2 DEF Range

(* What an error makes of a job. *)
Falls(op) ==
  {"failed", "littered"} \cup (IF op \in Uploads THEN {"cleanup"} ELSE {})
                         \cup (IF op \in Downloads THEN {"discard"} ELSE {})

LEMMA FallFacts ==
  ASSUME NEW op
  PROVE  /\ Falls(op) \subseteq StepsOf(op) /\ Falls(op) \subseteq Steps
         /\ Falls(op) \cap
              (Opened \cup {"idle", "create", "open", "stat", "walk", "makedir", "enter"}) = {}
  BY DEF Falls, StepsOf, Steps, Over, Opened

LEMMA Errors ==
  ASSUME FilesTyped, NEW j \in Job, pc[j] \notin Over \cup {"idle"}
  PROVE  /\ pc[j] # "copy" => OnError(pc[j]) \in Falls(work[j].op)
         /\ pc[j] = "copy" /\ work[j].op \in Uploads => OnError(pc[j]) \in Falls(work[j].op)
         /\ Inside(OnError(pc[j])) => Inside(pc[j])
  <1>1. pc[j] \in StepsOf(work[j].op) BY DEF FilesTyped, StepOK
  <1>2. pc[j] # "copy" => OnError(pc[j]) \in Falls(work[j].op)
    <2>1. CASE pc[j] \in {"create", "copy", "verify", "rename", "remove", "again"}
      BY <1>1, <2>1 DEF OnError, Falls, StepsOf, Uploads, Downloads, Over, Walks
    <2>2. CASE pc[j] \in {"open", "replace"}
      BY <1>1, <2>2 DEF OnError, Falls, StepsOf, Uploads, Downloads, Over, Walks
    <2>3. CASE pc[j] \notin {"create", "copy", "verify", "rename", "remove", "again",
                             "open", "replace"}
      BY <2>3 DEF OnError, Falls
    <2> QED BY <2>1, <2>2, <2>3
  <1>3. pc[j] = "copy" /\ work[j].op \in Uploads => OnError(pc[j]) \in Falls(work[j].op)
    BY DEF OnError, Falls
  <1>4. Inside(OnError(pc[j])) => Inside(pc[j])
    BY DEF OnError, Inside, Over
  <1> QED BY <1>2, <1>3, <1>4

(* A job moves: what it must still have.                                   *)
LEMMA JobMoves ==
  ASSUME FilesTyped, NEW j \in Job, NEW s \in Steps,
         pc' = [pc EXCEPT ![j] = s], work' = work, SidesTyped',
         DOMAIN data \subseteq DOMAIN data',
         at' \in [Job -> Places], size' \in [Job -> 0..2], pos' \in [Job -> 0..2],
         src' \in [Job -> Inodes], dst' \in [Job -> Inodes],
         stack' \in [Job -> Seq(Frames)], comps' \in [Job -> Seq(Plains)],
         count' \in [Job -> Nat], faults' \in 0..MaxFaults,
         \A k \in Job \ {j} : /\ src'[k] = src[k] /\ dst'[k] = dst[k]
                              /\ stack'[k] = stack[k] /\ comps'[k] = comps[k],
         s \in StepsOf(work[j].op), s = "makedir" => comps'[j] # <<>>,
         work[j].op \in Walks /\ Inside(s) => stack'[j] # <<>>,
         s \in Opened => src'[j] \in DOMAIN data' /\ dst'[j] \in DOMAIN data'
  PROVE  FilesTyped'
  <1>1. pc \in [Job -> Steps] BY DEF FilesTyped, JobsTyped
  <1>2. pc' \in [Job -> Steps] /\ pc'[j] = s /\ \A k \in Job \ {j} : pc'[k] = pc[k]
    BY <1>1
  <1>3. JobsTyped' BY <1>2 DEF FilesTyped, JobsTyped
  <1>4. ASSUME NEW k \in Job PROVE StepOK(k)'
    <2>1. CASE k = j BY <1>2, <2>1 DEF StepOK
    <2>2. CASE k # j BY <1>2, <2>2 DEF StepOK, FilesTyped
    <2> QED BY <2>1, <2>2
  <1> QED BY <1>3, <1>4 DEF FilesTyped

(* Its place, its stack and its files stay: only the step changes.         *)
LEMMA StepMoves ==
  ASSUME FilesTyped, NEW j \in Job, NEW s \in StepsOf(work[j].op) \cap Steps,
         pc' = [pc EXCEPT ![j] = s], work' = work, SidesTyped',
         DOMAIN data \subseteq DOMAIN data',
         UNCHANGED <<at, src, dst, walk>>,
         size' \in [Job -> 0..2], pos' \in [Job -> 0..2],
         count' \in [Job -> Nat], faults' \in 0..MaxFaults,
         s = "makedir" => comps[j] # <<>>,
         Inside(s) => Inside(pc[j]) \/ work[j].op \notin Walks,
         s \in Opened => pc[j] \in Opened
  PROVE  FilesTyped'
  <1>1. StepOK(j) /\ JobsTyped BY DEF FilesTyped
  <1>2. work[j].op \in Walks /\ Inside(s) => stack'[j] # <<>>
    BY <1>1 DEF StepOK, walk
  <1>3. s \in Opened => src'[j] \in DOMAIN data' /\ dst'[j] \in DOMAIN data'
    BY <1>1 DEF StepOK
  <1>4. /\ at' \in [Job -> Places] /\ src' \in [Job -> Inodes]
        /\ dst' \in [Job -> Inodes] /\ stack' \in [Job -> Seq(Frames)]
        /\ comps' \in [Job -> Seq(Plains)]
        /\ s = "makedir" => comps'[j] # <<>>
        /\ \A k \in Job \ {j} : /\ src'[k] = src[k] /\ dst'[k] = dst[k]
                                /\ stack'[k] = stack[k] /\ comps'[k] = comps[k]
    BY <1>1 DEF JobsTyped, walk
  <1> QED BY <1>2, <1>3, <1>4, JobMoves, Zenon

LEMMA JobFacts ==
  ASSUME FilesTyped, NEW j \in Job
  PROVE  /\ work[j] \in [op : Operations, path : Path] /\ pc[j] \in Steps
         /\ pc[j] \in StepsOf(work[j].op)
         /\ at[j] \in Places /\ size[j] \in 0..2 /\ pos[j] \in 0..2
         /\ src[j] \in Inodes /\ dst[j] \in Inodes
         /\ stack[j] \in Seq(Frames) /\ comps[j] \in Seq(Plains)
         /\ count[j] \in Nat /\ faults \in 0..MaxFaults
  BY DEF FilesTyped, JobsTyped, StepOK

(* The operation of a job, seen from its step.                             *)
LEMMA OpFacts ==
  ASSUME FilesTyped, NEW j \in Job
  PROVE  /\ pc[j] \in {"stat", "create", "verify", "rename", "remove", "again",
                       "cleanup"} => work[j].op \in Uploads
         /\ pc[j] \in {"open", "replace", "discard"} => work[j].op \in Downloads
         /\ pc[j] = "copy" => work[j].op \in Uploads \cup Downloads
         /\ pc[j] \in {"enter", "walk"} => work[j].op \in Walks
         /\ pc[j] \in {"ensure", "makedir"} => work[j].op = "updir"
         /\ pc[j] = "list" => work[j].op \in {"downdir", "rmrec", "list"}
         /\ pc[j] = "unlink" => work[j].op \in {"remove", "rmrec"}
         /\ pc[j] = "rmdir" => work[j].op = "rmrec"
         /\ pc[j] = "mkdir" => work[j].op = "mkdir"
         /\ pc[j] = "setmode" => work[j].op \in {"mkdir", "chmod"}
  <1>1. pc[j] \in StepsOf(work[j].op) BY JobFacts
  <1> QED BY <1>1 DEF StepsOf, Over, Uploads, Downloads

(* The two sides.                                                          *)
LEMMA SameSides ==
  ASSUME FilesTyped, UNCHANGED sides
  PROVE  SidesTyped' /\ DOMAIN data' = DOMAIN data
  BY DEF FilesTyped, SidesTyped, sides

LEMMA FsPutFile ==
  ASSUME NEW fs, NEW D, FsTyped(fs, D), NEW E, D \subseteq E, NEW x \in Places,
         NEW i \in E
  PROVE  FsTyped(Put(fs, x, Node("file", i)), E)
  BY DEF Put, Node, FsTyped, NodeKinds, Files

LEMMA FsWithout ==
  ASSUME NEW fs, NEW D, FsTyped(fs, D), NEW x
  PROVE  FsTyped(Without(fs, x), D)
  BY DEF Without, Restrict, FsTyped, Files

LEMMA FsMoved ==
  ASSUME NEW fs, NEW D, FsTyped(fs, D), NEW x \in DOMAIN fs, NEW y \in Places,
         x # y
  PROVE  FsTyped(Moved(fs, x, y), D)
  BY DEF Moved, Put, Without, Restrict, FsTyped, Files

LEMMA FsMore ==
  ASSUME NEW fs, NEW D, FsTyped(fs, D), NEW E, D \subseteq E
  PROVE  FsTyped(fs, E)
  BY DEF FsTyped

(* Steps in which only the job's own step changes.                         *)
LEMMA BareMove ==
  ASSUME FilesTyped, NEW j \in Job, NEW s \in StepsOf(work[j].op) \cap Steps,
         pc' = [pc EXCEPT ![j] = s], faults' \in 0..MaxFaults,
         UNCHANGED <<sides, setup, at, files, walk, report>>,
         s # "makedir", Inside(s) => Inside(pc[j]) \/ work[j].op \notin Walks,
         s \in Opened => pc[j] \in Opened
  PROVE  FilesTyped'
  <1>1. SidesTyped' /\ DOMAIN data' = DOMAIN data BY SameSides
  <1>2. /\ work' = work /\ UNCHANGED <<at, src, dst, walk>>
        /\ size' \in [Job -> 0..2] /\ pos' \in [Job -> 0..2]
        /\ count' \in [Job -> Nat]
    BY DEF setup, files, report, FilesTyped, JobsTyped
  <1> QED BY <1>1, <1>2, StepMoves

LEMMA FaultsTyped ==
  ASSUME FilesTyped, faults < MaxFaults, faults' = faults + 1, TransferAssumption
  PROVE  faults' \in 0..MaxFaults
  BY DEF FilesTyped, JobsTyped, TransferAssumption

LEMMA GotoTyped ==
  ASSUME FilesTyped, NEW j \in Job, NEW s, Goto(j, s)
  PROVE  pc' = [pc EXCEPT ![j] = s] /\ faults' \in 0..MaxFaults
  BY DEF Goto, FilesTyped, JobsTyped

LEMMA ErrorTyped ==
  ASSUME FilesTyped, NEW j \in Job, Error(j), pc[j] \notin Over \cup {"idle", "copy"}
  PROVE  /\ faults' \in 0..MaxFaults
         /\ \E s \in Falls(work[j].op) :
              pc' = [pc EXCEPT ![j] = s] /\ (Inside(s) => Inside(pc[j]))
  BY Errors, GotoTyped DEF Error

LEMMA AnsweredTyped ==
  ASSUME TransferAssumption, FilesTyped, NEW j \in Job, NEW s, Answered(j, s),
         pc[j] \notin Over \cup {"idle", "copy"}
  PROVE  /\ faults' \in 0..MaxFaults
         /\ \/ pc' = [pc EXCEPT ![j] = s]
            \/ \E f \in Falls(work[j].op) :
                 pc' = [pc EXCEPT ![j] = f] /\ (Inside(f) => Inside(pc[j]))
  <1>1. CASE Goto(j, s) BY <1>1, GotoTyped
  <1>2. CASE ~Goto(j, s) BY <1>2, Errors, FaultsTyped DEF Answered
  <1> QED BY <1>1, <1>2

LEMMA FallsTyped ==
  ASSUME FilesTyped, NEW j \in Job, NEW s \in Falls(work[j].op),
         pc' = [pc EXCEPT ![j] = s], Inside(s) => Inside(pc[j]),
         faults' \in 0..MaxFaults,
         UNCHANGED <<sides, setup, at, files, walk, report>>
  PROVE  FilesTyped'
  <1>1. s \in StepsOf(work[j].op) \cap Steps /\ s # "makedir" /\ s \notin Opened
    BY FallFacts
  <1> QED BY <1>1, BareMove

LEMMA BareTyped ==
  ASSUME TransferAssumption, FilesTyped, NEW j \in Job,
         \/ Transfer(j) \/ TransferDir(j) \/ MkdirRequest(j) \/ ListRequest(j)
         \/ RemoveRequest(j) \/ ChmodRequest(j) \/ UpVerify(j) \/ SetMode(j)
         \/ RequestFails(j) \/ JobDies(j) \/ ShortWrite(j)
  PROVE  FilesTyped'
  <1> USE JobFacts
  <1>1. CASE \/ Transfer(j) \/ TransferDir(j) \/ MkdirRequest(j) \/ ListRequest(j)
             \/ RemoveRequest(j) \/ ChmodRequest(j)
    <2>1. PICK ops, first :
            /\ Begins(j, ops, first)
            /\ <<ops, first>> \in {<<{"upload"}, "stat">>, <<{"download"}, "open">>,
                 <<{"updir", "downdir"}, "enter">>, <<{"mkdir"}, "mkdir">>,
                 <<{"list"}, "list">>, <<{"remove"}, "unlink">>,
                 <<{"rmrec"}, "enter">>, <<{"chmod"}, "setmode">>}
      BY <1>1 DEF Transfer, TransferDir, MkdirRequest, ListRequest,
                  RemoveRequest, ChmodRequest
    <2>2. \E s \in {first, "failed"} :
            pc' = [pc EXCEPT ![j] = s] /\ faults' \in 0..MaxFaults
      BY <2>1, GotoTyped DEF Begins
    <2>3. PICK s \in {first, "failed"} :
            pc' = [pc EXCEPT ![j] = s] /\ faults' \in 0..MaxFaults
      BY <2>2
    <2>4. work[j].op \in ops BY <2>1 DEF Begins
    <2>5. /\ s \in StepsOf(work[j].op) \cap Steps /\ s # "makedir"
          /\ s \notin Opened /\ (Inside(s) => work[j].op \notin Walks)
      BY <2>1, <2>4 DEF StepsOf, Steps, Opened, Inside, Walks, Over, Uploads,
                        Downloads
    <2>6. UNCHANGED <<sides, setup, at, files, walk, report>>
      BY <2>1 DEF Begins
    <2> QED BY <2>3, <2>5, <2>6, BareMove
  <1>2. CASE UpVerify(j)
    <2>1. pc[j] = "verify" /\ work[j].op \in Uploads BY <1>2, OpFacts DEF UpVerify
    <2>2. UNCHANGED <<sides, setup, at, files, walk, report>> BY <1>2 DEF UpVerify
    <2>3. CASE Goto(j, "rename")
      <3>1. /\ "rename" \in StepsOf(work[j].op) \cap Steps
            /\ Inside("verify") /\ "verify" \in Opened
        BY <2>1 DEF StepsOf, Steps, Opened, Inside, Over
      <3> QED BY <2>1, <2>2, <2>3, <3>1, BareMove, GotoTyped
    <2>4. CASE Error(j)
      BY <2>1, <2>2, <2>4, ErrorTyped, FallsTyped DEF Over
    <2> QED BY <1>2, <2>3, <2>4 DEF UpVerify
  <1>3. CASE SetMode(j)
    <2>1. PICK s \in {"failed", "done"} : Goto(j, s) BY <1>3 DEF SetMode
    <2>2. /\ s \in StepsOf(work[j].op) \cap Steps /\ s # "makedir"
          /\ s \notin Opened /\ ~Inside(s)
      BY DEF StepsOf, Steps, Opened, Inside, Over
    <2>3. UNCHANGED <<sides, setup, at, files, walk, report>> BY <1>3 DEF SetMode
    <2> QED BY <2>1, <2>2, <2>3, BareMove, GotoTyped
  <1>4. CASE RequestFails(j)
    <2>1. /\ pc[j] \notin Over \cup {"idle", "walk"} /\ faults' \in 0..MaxFaults
          /\ UNCHANGED <<sides, setup, at, files, walk, report>>
      BY <1>4, FaultsTyped DEF RequestFails
    <2>2. PICK s : /\ pc' = [pc EXCEPT ![j] = s]
                   /\ s = IF pc[j] = "copy" /\ work[j].op \in Downloads
                          THEN "discard" ELSE OnError(pc[j])
      BY <1>4 DEF RequestFails, Downloads
    <2>3. s \in Falls(work[j].op) /\ (Inside(s) => Inside(pc[j]))
      <3>1. CASE pc[j] = "copy" /\ work[j].op \in Downloads
        BY <2>2, <3>1 DEF Falls, Inside, Over
      <3>2. CASE ~(pc[j] = "copy" /\ work[j].op \in Downloads)
        BY <2>1, <2>2, <3>2, Errors, OpFacts
      <3> QED BY <3>1, <3>2
    <2> QED BY <2>1, <2>2, <2>3, FallsTyped
  <1>5. CASE JobDies(j)
    <2>1. /\ pc' = [pc EXCEPT ![j] = "dead"] /\ faults' \in 0..MaxFaults
          /\ UNCHANGED <<sides, setup, at, files, walk, report>>
      BY <1>5, FaultsTyped DEF JobDies
    <2>2. /\ "dead" \in StepsOf(work[j].op) \cap Steps /\ ~Inside("dead")
          /\ "dead" \notin Opened
      BY DEF StepsOf, Steps, Over, Inside, Opened
    <2> QED BY <2>1, <2>2, BareMove
  <1>6. CASE ShortWrite(j)
    <2>1. /\ pc' = [pc EXCEPT ![j] = "verify"] /\ faults' \in 0..MaxFaults
          /\ UNCHANGED <<sides, setup, at, files, walk, report>>
          /\ pc[j] = "copy" /\ work[j].op \in Uploads
      BY <1>6, FaultsTyped DEF ShortWrite, Uploads
    <2>2. /\ "verify" \in StepsOf(work[j].op) \cap Steps /\ Inside("copy")
          /\ "copy" \in Opened
      BY <2>1 DEF StepsOf, Steps, Over, Inside, Opened
    <2> QED BY <2>1, <2>2, BareMove
  <1> QED BY <1>1, <1>2, <1>3, <1>4, <1>5, <1>6

(* The steps a job can be led to without changing its stack or its files.  *)
Fit(j) ==
  {s \in StepsOf(work[j].op) \cap Steps :
     /\ s # "makedir" /\ (Inside(s) => Inside(pc[j]) \/ work[j].op \notin Walks)
     /\ s \in Opened => pc[j] \in Opened}

LEMMA FitMoves ==
  ASSUME FilesTyped, NEW j \in Job, NEW s \in Fit(j),
         pc' = [pc EXCEPT ![j] = s], work' = work, SidesTyped',
         DOMAIN data \subseteq DOMAIN data',
         UNCHANGED <<at, src, dst, walk>>,
         size' \in [Job -> 0..2], pos' \in [Job -> 0..2],
         count' \in [Job -> Nat], faults' \in 0..MaxFaults
  PROVE  FilesTyped'
  BY StepMoves DEF Fit

LEMMA FallFits ==
  ASSUME FilesTyped, NEW j \in Job, NEW s \in Falls(work[j].op),
         Inside(s) => Inside(pc[j])
  PROVE  s \in Fit(j)
  BY FallFacts DEF Fit

LEMMA FileDoneFits ==
  ASSUME FilesTyped, NEW j \in Job, Inside(pc[j])
  PROVE  FileDone(j) \in Fit(j) /\ FileDone(j) \in {"walk", "done"}
  BY DEF Fit, FileDone, StepsOf, Steps, Over, Inside, Opened

LEMMA AnsweredFits ==
  ASSUME TransferAssumption, FilesTyped, NEW j \in Job, NEW s \in Fit(j),
         Answered(j, s), pc[j] \notin Over \cup {"idle", "copy"}
  PROVE  /\ faults' \in 0..MaxFaults
         /\ \E t \in Fit(j) \cap ({s} \cup Falls(work[j].op)) :
              pc' = [pc EXCEPT ![j] = t]
  BY AnsweredTyped, FallFits

LEMMA ErrorFits ==
  ASSUME FilesTyped, NEW j \in Job, Error(j), pc[j] \notin Over \cup {"idle", "copy"}
  PROVE  /\ faults' \in 0..MaxFaults
         /\ \E t \in Fit(j) \cap Falls(work[j].op) : pc' = [pc EXCEPT ![j] = t]
  BY ErrorTyped, FallFits

LEMMA GotoFits ==
  ASSUME FilesTyped, NEW j \in Job, NEW s \in Fit(j), Goto(j, s)
  PROVE  /\ faults' \in 0..MaxFaults
         /\ \E t \in Fit(j) \cap {s} : pc' = [pc EXCEPT ![j] = t]
  BY GotoTyped

(* Only a side, the size taken or the report changes with the step.        *)
LEMMA SideMoves ==
  ASSUME FilesTyped, NEW j \in Job, \E s \in Fit(j) : pc' = [pc EXCEPT ![j] = s],
         faults' \in 0..MaxFaults, work' = work,
         FsTyped(local', DOMAIN data), FsTyped(remote', DOMAIN data),
         UNCHANGED <<data, at, size, pos, src, dst, walk>>,
         count' = count \/ Counted(j)
  PROVE  FilesTyped'
  <1>1. SidesTyped' /\ DOMAIN data' = DOMAIN data
    BY DEF FilesTyped, SidesTyped, FsTyped
  <1>2. size' \in [Job -> 0..2] /\ pos' \in [Job -> 0..2]
    BY DEF FilesTyped, JobsTyped
  <1>3. count' \in [Job -> Nat]
    <2>1. count \in [Job -> Nat] BY DEF FilesTyped, JobsTyped
    <2> QED BY <2>1 DEF Counted
  <1> QED BY <1>1, <1>2, <1>3, FitMoves

LEMMA StatTyped ==
  ASSUME TransferAssumption, FilesTyped, NEW j \in Job, UpStat(j)
  PROVE  FilesTyped'
  <1>1. pc[j] = "stat" /\ work[j].op \in Uploads BY OpFacts DEF UpStat
  <1>2. PICK s \in {"create", "failed"} : Goto(j, s) BY DEF UpStat
  <1>3. s \in Fit(j)
    BY <1>1, <1>2 DEF Fit, StepsOf, Steps, Over, Inside, Opened
  <1>4. size' \in [Job -> 0..2]
    <2>1. size \in [Job -> 0..2] BY DEF FilesTyped, JobsTyped
    <2>2. CASE Kind(local, at[j]) = "file"
      <3>1. local[at[j]].ino \in DOMAIN data
        BY <2>2 DEF FilesTyped, SidesTyped, FsTyped, Files, Kind
      <3>2. Len(data[local[at[j]].ino]) \in 0..2
        BY <3>1, LenFacts DEF FilesTyped, SidesTyped
      <3> QED BY <2>1, <2>2, <3>2 DEF UpStat
    <2>3. CASE Kind(local, at[j]) # "file" BY <2>1, <2>3 DEF UpStat
    <2> QED BY <2>2, <2>3
  <1>5. SidesTyped' /\ DOMAIN data' = DOMAIN data
    BY SameSides DEF UpStat
  <1>6. /\ work' = work /\ UNCHANGED <<at, src, dst, walk>>
        /\ pos' \in [Job -> 0..2] /\ count' \in [Job -> Nat]
    BY DEF UpStat, setup, report, FilesTyped, JobsTyped
  <1>7. pc' = [pc EXCEPT ![j] = s] /\ faults' \in 0..MaxFaults
    BY <1>2, GotoTyped
  <1> QED BY <1>3, <1>4, <1>5, <1>6, <1>7, FitMoves

(* What Creates does, of either side.                                      *)
LEMMA CreatesTyped ==
  ASSUME FilesTyped, NEW j \in Job, NEW fs, FsTyped(fs, DOMAIN data), NEW x \in Places,
         Creates(j, fs, x)
  PROVE  \E i \in Inodes :
           /\ i = IF Kind(fs, TmpOf(x, j)) = "file" THEN fs[TmpOf(x, j)].ino
                                                    ELSE <<j, TmpOf(x, j), count[j]>>
           /\ data' = Put(data, i, <<>>)
           /\ dst' = [dst EXCEPT ![j] = i] /\ dst' \in [Job -> Inodes]
           /\ dst'[j] = i
           /\ pos' = [pos EXCEPT ![j] = 0] /\ pos' \in [Job -> 0..2]
           /\ DOMAIN data' = DOMAIN data \cup {i}
           /\ DOMAIN data' \subseteq Inodes
           /\ \A n \in DOMAIN data' : data'[n] \in Contents
  <1> DEFINE t == TmpOf(x, j)
             i == IF Kind(fs, t) = "file" THEN fs[t].ino ELSE <<j, t, count[j]>>
  <1>1. t \in Places BY TmpFacts
  <1>2. DOMAIN data \subseteq Inodes /\ \A n \in DOMAIN data : data[n] \in Contents
    BY DEF FilesTyped, SidesTyped
  <1>3. i \in Inodes
    <2>1. CASE Kind(fs, t) = "file"
      BY <1>2, <2>1 DEF Kind, FsTyped, Files
    <2>2. CASE Kind(fs, t) # "file"
      BY <1>1, <2>2, JobFacts DEF Inodes
    <2> QED BY <2>1, <2>2
  <1>4. /\ data' = Put(data, i, <<>>) /\ dst' = [dst EXCEPT ![j] = i]
        /\ pos' = [pos EXCEPT ![j] = 0]
    BY DEF Creates
  <1> HIDE DEF i
  <1>5. <<>> \in Contents BY DEF Contents
  <1>6. /\ DOMAIN data' = DOMAIN data \cup {i}
        /\ \A n \in DOMAIN data' : data'[n] \in Contents
    BY <1>2, <1>4, <1>5 DEF Put
  <1>7. /\ dst' \in [Job -> Inodes] /\ dst'[j] = i /\ pos' \in [Job -> 0..2]
    BY <1>3, <1>4 DEF FilesTyped, JobsTyped
  <1> QED BY <1>2, <1>3, <1>4, <1>6, <1>7 DEF i

LEMMA CreateMoves ==
  ASSUME FilesTyped, NEW j \in Job, NEW fs, FsTyped(fs, DOMAIN data),
         Creates(j, fs, at[j]),
         NEW n \in DOMAIN data, src' = [src EXCEPT ![j] = n],
         FsTyped(local', DOMAIN data'), FsTyped(remote', DOMAIN data'),
         work' = work, UNCHANGED <<at, size, walk, count>>, Inside(pc[j]),
         "copy" \in StepsOf(work[j].op),
         \E s \in {"copy"} \cup Falls(work[j].op) : pc' = [pc EXCEPT ![j] = s],
         faults' \in 0..MaxFaults
  PROVE  FilesTyped'
  <1>1. PICK i \in Inodes :
         /\ dst' \in [Job -> Inodes] /\ dst'[j] = i /\ dst' = [dst EXCEPT ![j] = i]
         /\ pos' \in [Job -> 0..2]
         /\ DOMAIN data' = DOMAIN data \cup {i} /\ DOMAIN data' \subseteq Inodes
         /\ \A m \in DOMAIN data' : data'[m] \in Contents
    BY JobFacts, CreatesTyped
  <1>2. src' \in [Job -> Inodes] /\ src'[j] = n
    BY DEF FilesTyped, JobsTyped, SidesTyped
  <1>3. SidesTyped' BY <1>1 DEF SidesTyped
  <1>4. PICK s \in {"copy"} \cup Falls(work[j].op) : pc' = [pc EXCEPT ![j] = s]
    OBVIOUS
  <1>5. s \in Steps /\ s \in StepsOf(work[j].op) /\ s # "makedir"
    BY <1>4, FallFacts DEF Steps
  <1>6. /\ at' \in [Job -> Places] /\ size' \in [Job -> 0..2]
        /\ stack' \in [Job -> Seq(Frames)] /\ comps' \in [Job -> Seq(Plains)]
        /\ count' \in [Job -> Nat] /\ stack'[j] = stack[j]
        /\ \A k \in Job \ {j} : /\ src'[k] = src[k] /\ dst'[k] = dst[k]
                                /\ stack'[k] = stack[k] /\ comps'[k] = comps[k]
    BY <1>1 DEF FilesTyped, JobsTyped, walk
  <1>7. work[j].op \in Walks => stack'[j] # <<>>
    BY <1>6 DEF FilesTyped, StepOK
  <1>8. src'[j] \in DOMAIN data' /\ dst'[j] \in DOMAIN data'
        /\ DOMAIN data \subseteq DOMAIN data'
    BY <1>1, <1>2
  <1> QED BY <1>1, <1>2, <1>3, <1>4, <1>5, <1>6, <1>7, <1>8, JobMoves

LEMMA UpCreateTyped ==
  ASSUME TransferAssumption, FilesTyped, NEW j \in Job, UpCreate(j)
  PROVE  FilesTyped'
  <1> DEFINE x == at[j]  t == TmpOf(x, j)
  <1>1. /\ pc[j] = "create" /\ work[j].op \in Uploads
        /\ UNCHANGED <<local, work, at, size, walk, count>>
    BY OpFacts DEF UpCreate, setup, report
  <1>2. /\ x \in Places /\ t \in Places /\ FsTyped(local, DOMAIN data)
        /\ FsTyped(remote, DOMAIN data)
    BY JobFacts, TmpFacts DEF FilesTyped, SidesTyped
  <1>3. CASE UNCHANGED <<remote, data, pos, src, dst>> /\ (Goto(j, "failed") \/ Error(j))
    <2>1. "failed" \in Fit(j)
      BY DEF Fit, StepsOf, Steps, Over, Inside, Opened
    <2>2. \E s \in Fit(j) : pc' = [pc EXCEPT ![j] = s]
      BY <1>1, <1>3, <2>1, GotoFits, ErrorFits DEF Over
    <2>3. faults' \in 0..MaxFaults
      BY <1>1, <1>3, <2>1, GotoFits, ErrorFits DEF Over
    <2> QED BY <1>1, <1>2, <1>3, <2>2, <2>3, SideMoves
  <1>4. CASE /\ Kind(local, x) = "file" /\ Creates(j, remote, x)
             /\ src' = [src EXCEPT ![j] = local[x].ino]
             /\ remote' = Put(remote, t, Node("file", dst'[j]))
             /\ Answered(j, "copy")
    <2>1. DOMAIN data \subseteq DOMAIN data' /\ dst'[j] \in DOMAIN data'
      BY <1>2, <1>4, CreatesTyped
    <2>2. local[x].ino \in DOMAIN data
      BY <1>2, <1>4 DEF Kind, FsTyped, Files
    <2>3. FsTyped(remote', DOMAIN data') /\ FsTyped(local', DOMAIN data')
      BY <1>1, <1>2, <1>4, <2>1, FsPutFile, FsMore
    <2>4. faults' \in 0..MaxFaults /\ \E s \in {"copy"} \cup Falls(work[j].op) :
             pc' = [pc EXCEPT ![j] = s]
      BY <1>1, <1>4, AnsweredTyped DEF Over
    <2>5. "copy" \in StepsOf(work[j].op) /\ Inside(pc[j])
      BY <1>1 DEF StepsOf, Inside, Over
    <2> QED BY <1>1, <1>2, <1>4, <2>2, <2>3, <2>4, <2>5, CreateMoves
  <1> QED BY <1>3, <1>4 DEF UpCreate

LEMMA DownOpenTyped ==
  ASSUME TransferAssumption, FilesTyped, NEW j \in Job, DownOpen(j)
  PROVE  FilesTyped'
  <1> DEFINE x == at[j]  t == TmpOf(x, j)
  <1>1. /\ pc[j] = "open" /\ work[j].op \in Downloads
        /\ UNCHANGED <<remote, work, at, size, walk, count>>
    BY OpFacts DEF DownOpen, setup, report
  <1>2. /\ x \in Places /\ t \in Places /\ FsTyped(local, DOMAIN data)
        /\ FsTyped(remote, DOMAIN data)
    BY JobFacts, TmpFacts DEF FilesTyped, SidesTyped
  <1>3. CASE UNCHANGED <<local, data, pos, src, dst>> /\ Error(j)
    <2>1. /\ faults' \in 0..MaxFaults
          /\ \E s \in Fit(j) : pc' = [pc EXCEPT ![j] = s]
      BY <1>1, <1>3, ErrorFits DEF Over
    <2> QED BY <1>1, <1>2, <1>3, <2>1, SideMoves
  <1>4. CASE /\ Kind(remote, x) = "file" /\ Creates(j, local, x)
             /\ src' = [src EXCEPT ![j] = remote[x].ino]
             /\ local' = Put(local, t, Node("file", dst'[j]))
             /\ Goto(j, "copy")
    <2>1. DOMAIN data \subseteq DOMAIN data' /\ dst'[j] \in DOMAIN data'
      BY <1>2, <1>4, CreatesTyped
    <2>2. remote[x].ino \in DOMAIN data
      BY <1>2, <1>4 DEF Kind, FsTyped, Files
    <2>3. FsTyped(remote', DOMAIN data') /\ FsTyped(local', DOMAIN data')
      BY <1>1, <1>2, <1>4, <2>1, FsPutFile, FsMore
    <2>4. faults' \in 0..MaxFaults /\ \E s \in {"copy"} \cup Falls(work[j].op) :
             pc' = [pc EXCEPT ![j] = s]
      BY <1>4, GotoTyped
    <2>5. "copy" \in StepsOf(work[j].op) /\ Inside(pc[j])
      BY <1>1 DEF StepsOf, Inside, Over
    <2> QED BY <1>1, <1>2, <1>4, <2>2, <2>3, <2>4, <2>5, CreateMoves
  <1> QED BY <1>3, <1>4 DEF DownOpen

(* What a write of one piece makes of the open file.                       *)
Written(to, from, k) ==
  [i \in 1..(IF Len(to) > k THEN Len(to) ELSE k) |->
     IF i = k THEN from[k] ELSE IF i <= Len(to) THEN to[i] ELSE "hole"]

LEMMA WrittenTyped ==
  ASSUME NEW to \in Contents, NEW from \in Contents, NEW k \in 1..Len(from)
  PROVE  Written(to, from, k) \in Contents
  <1> DEFINE n == IF Len(to) > k THEN Len(to) ELSE k
             S == {"local", "remote", "edited", "hole"}
  <1>1. Len(to) \in 0..2 /\ Len(from) \in 0..2 /\ k \in 1..2
    <2>1. Len(to) \in 0..2 /\ Len(from) \in 0..2 BY LenFacts
    <2>2. PICK m \in 0..2 : m = Len(from) BY <2>1
    <2>3. k \in 1..m BY <2>2
    <2> QED BY <2>1, <2>3
  <1>2. n \in 0..2 BY <1>1
  <1>3. from \in Seq(S) /\ to \in Seq(S) BY DEF Contents
  <1>4. \A i \in 1..n :
          (IF i = k THEN from[k] ELSE IF i <= Len(to) THEN to[i] ELSE "hole") \in S
    BY <1>1, <1>3
  <1> HIDE DEF n
  <1>5. PICK s : s = [i \in 1..n |-> IF i = k THEN from[k]
                               ELSE IF i <= Len(to) THEN to[i] ELSE "hole"]
    OBVIOUS
  <1>6. s \in [1..n -> S] BY <1>4, <1>5
  <1>7. s \in Seq(S) /\ Len(s) = n BY <1>2, <1>6
  <1> QED BY <1>2, <1>5, <1>7 DEF Written, Contents, n

LEMMA CopyTyped ==
  ASSUME TransferAssumption, FilesTyped, NEW j \in Job, Copy(j)
  PROVE  FilesTyped'
  <1> DEFINE k == pos[j] + 1  from == data[src[j]]  to == data[dst[j]]
  <1>1. /\ pc[j] = "copy" /\ work[j].op \in Uploads \cup Downloads
        /\ UNCHANGED <<local, remote, work, at, size, src, dst, walk, count>>
    BY OpFacts DEF Copy, setup, report
  <1>2. /\ src[j] \in DOMAIN data /\ dst[j] \in DOMAIN data
        /\ from \in Contents /\ to \in Contents /\ pos[j] \in 0..2
    BY <1>1, JobFacts DEF FilesTyped, StepOK, SidesTyped, Opened
  <1>3. Len(from) \in 0..2 /\ Len(to) \in 0..2 BY <1>2, LenFacts
  <1>4. CASE k <= Len(from)
    <2>1. data' = [data EXCEPT ![dst[j]] = Written(to, from, k)]
          /\ pos' = [pos EXCEPT ![j] = k] /\ Goto(j, "copy")
      BY <1>4 DEF Copy, Written
    <2>2. k \in 1..Len(from) /\ k \in 0..2
      <3>1. PICK n \in 0..2, m \in 0..2 : n = Len(from) /\ m = pos[j] BY <1>2, <1>3
      <3>2. m + 1 <= n BY <1>4, <3>1
      <3>3. m + 1 \in 1..n /\ m + 1 \in 0..2 BY <3>2
      <3> QED BY <3>1, <3>3
    <2>3. PICK c \in Contents : c = Written(to, from, k)
      BY <1>2, <2>2, WrittenTyped
    <2>4. DOMAIN data' = DOMAIN data
          /\ \A i \in DOMAIN data' : data'[i] \in Contents
      BY <2>1, <2>3 DEF FilesTyped, SidesTyped
    <2>5. SidesTyped' BY <1>1, <2>4 DEF FilesTyped, SidesTyped
    <2>6. pos' \in [Job -> 0..2] BY <2>1, <2>2 DEF FilesTyped, JobsTyped
    <2>7. "copy" \in Fit(j)
      BY <1>1 DEF Fit, StepsOf, Steps, Over, Inside, Opened
    <2>8. pc' = [pc EXCEPT ![j] = "copy"] /\ faults' \in 0..MaxFaults
      BY <2>1, GotoTyped
    <2>9. size' \in [Job -> 0..2] /\ count' \in [Job -> Nat]
      BY <1>1 DEF FilesTyped, JobsTyped
    <2> QED BY <1>1, <2>4, <2>5, <2>6, <2>7, <2>8, <2>9, FitMoves
  <1>5. CASE ~(k <= Len(from))
    <2>1. PICK s : /\ s = IF work[j].op \in {"upload", "updir"} THEN "verify" ELSE "replace"
                   /\ Goto(j, s) /\ UNCHANGED <<data, pos>>
      BY <1>5 DEF Copy
    <2>2. s \in Fit(j)
      BY <1>1, <2>1 DEF Fit, StepsOf, Steps, Over, Inside, Opened, Uploads, Downloads
    <2>3. FsTyped(local', DOMAIN data) /\ FsTyped(remote', DOMAIN data)
      BY <1>1 DEF FilesTyped, SidesTyped
    <2>4. /\ faults' \in 0..MaxFaults
          /\ \E t \in Fit(j) : pc' = [pc EXCEPT ![j] = t]
      BY <2>1, <2>2, GotoFits
    <2> QED BY <1>1, <2>1, <2>3, <2>4, SideMoves
  <1> QED BY <1>4, <1>5

LEMMA RenameTyped ==
  ASSUME TransferAssumption, FilesTyped, NEW j \in Job,
         UpRename(j) \/ UpRenameAgain(j) \/ DownReplace(j)
  PROVE  FilesTyped'
  <1> DEFINE x == at[j]  t == TmpOf(x, j)
  <1>1. /\ x \in Places /\ t \in Places /\ t # x
        /\ FsTyped(local, DOMAIN data) /\ FsTyped(remote, DOMAIN data)
    BY JobFacts, TmpFacts DEF FilesTyped, SidesTyped
  <1>2. pc[j] \in {"rename", "again", "replace"}
    BY DEF UpRename, UpRenameAgain, DownReplace
  <1>3. /\ UNCHANGED <<work, data, at, size, pos, src, dst, walk>>
    BY DEF UpRename, UpRenameAgain, DownReplace, setup, files
  <1>4. Inside(pc[j]) /\ pc[j] \notin Over \cup {"idle", "copy"}
    BY <1>2 DEF Inside, Over
  <1>5. FileDone(j) \in Fit(j) BY <1>4, FileDoneFits
  <1>6. CASE UpRename(j)
    <2>1. "remove" \in Fit(j)
      BY <1>6, OpFacts DEF UpRename, Fit, StepsOf, Steps, Over, Inside, Opened
    <2>2. UNCHANGED local BY <1>6 DEF UpRename
    <2>3. CASE UNCHANGED <<remote, count>> /\ (Error(j) \/ Goto(j, "remove"))
      <3>1. /\ faults' \in 0..MaxFaults
            /\ \E s \in Fit(j) : pc' = [pc EXCEPT ![j] = s]
        BY <1>4, <2>1, <2>3, ErrorFits, GotoFits
      <3> QED BY <1>1, <1>3, <2>2, <2>3, <3>1, SideMoves
    <2>4. CASE /\ Kind(remote, t) = "file" /\ remote' = Moved(remote, t, x)
               /\ Counted(j) /\ Answered(j, FileDone(j))
      <3>1. /\ faults' \in 0..MaxFaults
            /\ \E s \in Fit(j) : pc' = [pc EXCEPT ![j] = s]
        BY <1>4, <1>5, <2>4, AnsweredFits
      <3>2. FsTyped(remote', DOMAIN data)
        BY <1>1, <2>4, FsMoved DEF Kind
      <3> QED BY <1>1, <1>3, <2>2, <2>4, <3>1, <3>2, SideMoves
    <2> QED BY <1>6, <2>3, <2>4 DEF UpRename
  <1>7. CASE UpRenameAgain(j)
    <2>2. UNCHANGED local BY <1>7 DEF UpRenameAgain
    <2>3. CASE UNCHANGED <<remote, count>> /\ Error(j)
      <3>1. /\ faults' \in 0..MaxFaults
            /\ \E s \in Fit(j) : pc' = [pc EXCEPT ![j] = s]
        BY <1>4, <2>3, ErrorFits
      <3> QED BY <1>1, <1>3, <2>2, <2>3, <3>1, SideMoves
    <2>4. CASE /\ Kind(remote, t) = "file" /\ remote' = Moved(remote, t, x)
               /\ Counted(j) /\ Answered(j, FileDone(j))
      <3>1. /\ faults' \in 0..MaxFaults
            /\ \E s \in Fit(j) : pc' = [pc EXCEPT ![j] = s]
        BY <1>4, <1>5, <2>4, AnsweredFits
      <3>2. FsTyped(remote', DOMAIN data)
        BY <1>1, <2>4, FsMoved DEF Kind
      <3> QED BY <1>1, <1>3, <2>2, <2>4, <3>1, <3>2, SideMoves
    <2> QED BY <1>7, <2>3, <2>4 DEF UpRenameAgain
  <1>8. CASE DownReplace(j)
    <2>2. UNCHANGED remote BY <1>8 DEF DownReplace
    <2>3. CASE UNCHANGED <<local, count>> /\ Error(j)
      <3>1. /\ faults' \in 0..MaxFaults
            /\ \E s \in Fit(j) : pc' = [pc EXCEPT ![j] = s]
        BY <1>4, <2>3, ErrorFits
      <3> QED BY <1>1, <1>3, <2>2, <2>3, <3>1, SideMoves
    <2>4. CASE /\ Kind(local, t) = "file" /\ local' = Moved(local, t, x)
               /\ Counted(j) /\ Goto(j, FileDone(j))
      <3>1. /\ faults' \in 0..MaxFaults
            /\ \E s \in Fit(j) : pc' = [pc EXCEPT ![j] = s]
        BY <1>5, <2>4, GotoFits
      <3>2. FsTyped(local', DOMAIN data)
        BY <1>1, <2>4, FsMoved DEF Kind
      <3> QED BY <1>1, <1>3, <2>2, <2>4, <3>1, <3>2, SideMoves
    <2> QED BY <1>8, <2>3, <2>4 DEF DownReplace
  <1> QED BY <1>6, <1>7, <1>8

LEMMA RemoveTyped ==
  ASSUME TransferAssumption, FilesTyped, NEW j \in Job,
         UpRemoveOld(j) \/ UpCleanUp(j) \/ DownDiscard(j) \/ Unlink(j)
  PROVE  FilesTyped'
  <1>1. FsTyped(local, DOMAIN data) /\ FsTyped(remote, DOMAIN data)
    BY DEF FilesTyped, SidesTyped
  <1>2. pc[j] \in {"remove", "cleanup", "discard", "unlink"}
    BY DEF UpRemoveOld, UpCleanUp, DownDiscard, Unlink
  <1>3. /\ UNCHANGED <<work, data, at, size, pos, src, dst, walk, count>>
    BY DEF UpRemoveOld, UpCleanUp, DownDiscard, Unlink, setup, files, report
  <1>4. Inside(pc[j]) /\ pc[j] \notin Over \cup {"idle", "copy"}
    BY <1>2 DEF Inside, Over
  <1>5. FileDone(j) \in Fit(j) BY <1>4, FileDoneFits
  <1>6. "failed" \in Fit(j) BY DEF Fit, StepsOf, Steps, Over, Inside, Opened
  <1>7. pc[j] = "remove" => "again" \in Fit(j)
    BY OpFacts DEF Fit, StepsOf, Steps, Over, Inside, Opened
  <1>8. \/ Goto(j, "failed") \/ Error(j) \/ (pc[j] = "remove" /\ Answered(j, "again"))
        \/ Answered(j, FileDone(j))
    BY DEF UpRemoveOld, UpCleanUp, DownDiscard, Unlink
  <1>9. /\ faults' \in 0..MaxFaults
        /\ \E s \in Fit(j) : pc' = [pc EXCEPT ![j] = s]
    BY <1>4, <1>5, <1>6, <1>7, <1>8, GotoFits, ErrorFits, AnsweredFits
  <1>10. /\ local' = local \/ \E x : local' = Without(local, x)
         /\ remote' = remote \/ \E x : remote' = Without(remote, x)
    BY DEF UpRemoveOld, UpCleanUp, DownDiscard, Unlink
  <1>11. FsTyped(local', DOMAIN data) /\ FsTyped(remote', DOMAIN data)
    BY <1>1, <1>10, FsWithout
  <1> QED BY <1>3, <1>9, <1>11, SideMoves

LEMMA EditTyped ==
  ASSUME TransferAssumption, FilesTyped, NEW p \in Edited, Edit(Plain(p))
  PROVE  FilesTyped'
  <1> DEFINE x == Plain(p)  i == <<"edited", x>>
  <1>1. /\ data' = Put(data, i, <<"edited">>)
        /\ local' = Put(local, x, Node("file", i))
        /\ UNCHANGED <<remote, setup, pc, at, files, walk, report, faults>>
    BY DEF Edit
  <1>2. x \in Places /\ i \in Inodes
    BY PlainFacts DEF TransferAssumption, Inodes, Sources
  <1>3. <<"edited">> \in Contents BY DEF Contents
  <1>4. DOMAIN data' = DOMAIN data \cup {i}
        /\ \A n \in DOMAIN data' : data'[n] \in Contents
    BY <1>1, <1>3 DEF Put, FilesTyped, SidesTyped
  <1>5. FsTyped(local', DOMAIN data') /\ FsTyped(remote', DOMAIN data')
    BY <1>1, <1>2, <1>4, FsPutFile, FsMore DEF FilesTyped, SidesTyped
  <1>6. SidesTyped' BY <1>2, <1>4, <1>5 DEF SidesTyped, FilesTyped
  <1>7. JobsTyped' BY <1>1 DEF FilesTyped, JobsTyped, setup, files, walk, report
  <1>8. \A j \in Job : StepOK(j)'
    BY <1>1, <1>4 DEF FilesTyped, StepOK, setup, files, walk
  <1> QED BY <1>6, <1>7, <1>8 DEF FilesTyped

LEMMA PlainsStay ==
  ASSUME NEW s \in Seq(Plains), s # <<>>
  PROVE  Head(s) \in Plains /\ Tail(s) \in Seq(Plains)
  OBVIOUS

(* Only a side, the stack, the components and the place change.            *)
LEMMA WalkMoves ==
  ASSUME FilesTyped, NEW j \in Job, NEW s \in StepsOf(work[j].op) \cap Steps,
         pc' = [pc EXCEPT ![j] = s], faults' \in 0..MaxFaults,
         UNCHANGED <<setup, data, files, count>>,
         FsTyped(local', DOMAIN data), FsTyped(remote', DOMAIN data),
         NEW a \in Places, at' = [at EXCEPT ![j] = a],
         NEW z \in Seq(Frames), stack' = [stack EXCEPT ![j] = z],
         NEW c \in Seq(Plains), comps' = [comps EXCEPT ![j] = c],
         s = "makedir" => c # <<>>, Inside(s) /\ work[j].op \in Walks => z # <<>>,
         s \notin Opened
  PROVE  FilesTyped'
  <1>1. JobsTyped BY DEF FilesTyped
  <1>2. /\ stack' \in [Job -> Seq(Frames)] /\ stack'[j] = z
        /\ \A k \in Job \ {j} : stack'[k] = stack[k]
    BY <1>1 DEF JobsTyped
  <1>3. /\ comps' \in [Job -> Seq(Plains)] /\ comps'[j] = c
        /\ \A k \in Job \ {j} : comps'[k] = comps[k]
    BY <1>1 DEF JobsTyped
  <1>4. at' \in [Job -> Places] BY <1>1 DEF JobsTyped
  <1>5. /\ size' \in [Job -> 0..2] /\ pos' \in [Job -> 0..2]
        /\ src' \in [Job -> Inodes] /\ dst' \in [Job -> Inodes]
        /\ count' \in [Job -> Nat] /\ work' = work /\ src' = src /\ dst' = dst
    BY <1>1 DEF JobsTyped, files, setup
  <1>6. SidesTyped' /\ DOMAIN data' = DOMAIN data
    BY DEF FilesTyped, SidesTyped, FsTyped
  <1>7. s = "makedir" => comps'[j] # <<>> BY <1>3
  <1>8. work[j].op \in Walks /\ Inside(s) => stack'[j] # <<>> BY <1>2
  <1>9. \A k \in Job \ {j} : /\ src'[k] = src[k] /\ dst'[k] = dst[k]
                             /\ stack'[k] = stack[k] /\ comps'[k] = comps[k]
    BY <1>2, <1>3, <1>5
  <1>10. s \in Steps /\ s \in StepsOf(work[j].op)
         /\ DOMAIN data \subseteq DOMAIN data'
         /\ (s \in Opened => src'[j] \in DOMAIN data' /\ dst'[j] \in DOMAIN data')
    BY <1>6
  <1> QED BY <1>2, <1>3, <1>4, <1>5, <1>6, <1>7, <1>8, <1>9, <1>10, JobMoves

LEMMA SameWalk ==
  ASSUME FilesTyped, NEW j \in Job
  PROVE  /\ at = [at EXCEPT ![j] = at[j]] /\ at[j] \in Places
         /\ stack = [stack EXCEPT ![j] = stack[j]] /\ stack[j] \in Seq(Frames)
         /\ comps = [comps EXCEPT ![j] = comps[j]] /\ comps[j] \in Seq(Plains)
         /\ FsTyped(local, DOMAIN data) /\ FsTyped(remote, DOMAIN data)
  BY DEF FilesTyped, JobsTyped, SidesTyped

LEMMA EntriesTyped ==
  ASSUME NEW fs, NEW D, FsTyped(fs, D), NEW x
  PROVE  Entries(fs, x) \in SUBSET [place : Places, kind : NodeKinds]
  <1>1. ASSUME NEW y \in Children(fs, x)
        PROVE  [place |-> y, kind |-> fs[y].kind] \in [place : Places, kind : NodeKinds]
    BY <1>1 DEF Children, FsTyped
  <1> QED BY <1>1 DEF Entries

LEMMA PushTyped ==
  ASSUME FilesTyped, NEW j \in Job, NEW fs, FsTyped(fs, DOMAIN data), Push(j, fs)
  PROVE  \E z \in Seq(Frames) :
           /\ stack' = [stack EXCEPT ![j] = z] /\ z # <<>>
           /\ z = <<[dir |-> at[j], left |-> Entries(fs, at[j])]>> \o stack[j]
  <1> DEFINE r == [dir |-> at[j], left |-> Entries(fs, at[j])]
  <1>1. r \in Frames BY EntriesTyped, SameWalk DEF Frames
  <1>2. <<r>> \o stack[j] \in Seq(Frames) /\ <<r>> \o stack[j] # <<>>
    BY <1>1, StackFacts, SameWalk
  <1>3. stack' = [stack EXCEPT ![j] = <<r>> \o stack[j]]
    BY DEF Push
  <1> QED BY <1>2, <1>3

LEMMA EnterTyped ==
  ASSUME TransferAssumption, FilesTyped, NEW j \in Job, Enter(j)
  PROVE  FilesTyped'
  <1> DEFINE x == at[j]  op == work[j].op  all == Range(Chain(x.path))
  <1>1. /\ pc[j] = "enter" /\ op \in Walks
        /\ UNCHANGED <<remote, data, setup, at, files, stack, count>>
    BY OpFacts DEF Enter, report
  <1>2. x.path \in Path /\ Chain(x.path) \in Seq(Plains) /\ all \subseteq Plains
    BY JobFacts, ChainFacts DEF Places
  <1>3. CASE Goto(j, "failed") /\ UNCHANGED <<local, comps>>
    <2>1. "failed" \in StepsOf(op) \cap Steps /\ ~Inside("failed") /\ "failed" \notin Opened
      BY DEF StepsOf, Steps, Over, Inside, Opened
    <2> QED BY <1>1, <1>3, <2>1, GotoTyped, SameWalk, WalkMoves
  <1>4. CASE /\ Goto(j, IF op = "updir" THEN "ensure" ELSE "list")
             /\ comps' = [comps EXCEPT ![j] = IF op = "updir" THEN Chain(x.path) ELSE <<>>]
             /\ local' = IF op = "downdir"
                         THEN [y \in DOMAIN local \cup all |->
                                 IF y \in DOMAIN local THEN local[y]
                                                       ELSE Node("dir", NoFile)]
                         ELSE local
    <2>1. PICK s \in StepsOf(op) \cap Steps :
            /\ Goto(j, s) /\ s # "makedir" /\ ~Inside(s) /\ s \notin Opened
      BY <1>1, <1>4 DEF StepsOf, Steps, Over, Inside, Opened, Walks
    <2>2. PICK c \in Seq(Plains) : comps' = [comps EXCEPT ![j] = c]
      <3>1. <<>> \in Seq(Plains) OBVIOUS
      <3> QED BY <1>2, <1>4, <3>1
    <2>3. FsTyped(local', DOMAIN data)
      <3>1. FsTyped(local, DOMAIN data) /\ all \subseteq Places
        BY SameWalk, <1>2, PlainFacts
      <3>2. CASE op = "downdir"
        <4> HIDE DEF all
        <4> QED BY <1>4, <3>1, <3>2 DEF FsTyped, Files, Node, NodeKinds
      <3> QED BY <1>4, <3>1, <3>2
    <2> QED BY <1>1, <2>1, <2>2, <2>3, GotoTyped, SameWalk, WalkMoves
  <1> QED BY <1>3, <1>4 DEF Enter

LEMMA EnsureTyped ==
  ASSUME TransferAssumption, FilesTyped, NEW j \in Job, Ensure(j)
  PROVE  FilesTyped'
  <1>1. /\ pc[j] = "ensure" /\ work[j].op = "updir"
        /\ UNCHANGED <<sides, setup, at, files, count>>
    BY OpFacts DEF Ensure, report
  <1>2. /\ UNCHANGED <<data, local, remote>>
    BY <1>1 DEF sides
  <1>3. {"walk", "ensure", "makedir"} \subseteq StepsOf(work[j].op) \cap Steps
        /\ {"walk", "ensure", "makedir"} \cap Opened = {}
        /\ ~Inside("ensure") /\ ~Inside("makedir")
    BY <1>1 DEF StepsOf, Steps, Over, Inside, Opened, Walks
  <1>4. CASE comps[j] = <<>>
    <2>1. PICK z \in Seq(Frames) : stack' = [stack EXCEPT ![j] = z] /\ z # <<>>
      BY <1>4, SameWalk, PushTyped DEF Ensure
    <2>2. Goto(j, "walk") /\ UNCHANGED comps BY <1>4 DEF Ensure
    <2> QED BY <1>1, <1>2, <1>3, <2>1, <2>2, GotoTyped, SameWalk, WalkMoves
  <1>5. CASE comps[j] # <<>> /\ Kind(remote, Head(comps[j])) # "none"
    <2>1. /\ comps' = [comps EXCEPT ![j] = Tail(comps[j])]
          /\ Goto(j, "ensure") /\ UNCHANGED stack
      BY <1>5 DEF Ensure
    <2>2. Tail(comps[j]) \in Seq(Plains) BY <1>5, SameWalk, PlainsStay
    <2> QED BY <1>1, <1>2, <1>3, <2>1, <2>2, GotoTyped, SameWalk, WalkMoves
  <1>6. CASE comps[j] # <<>> /\ Kind(remote, Head(comps[j])) = "none"
    <2>1. Goto(j, "makedir") /\ UNCHANGED <<comps, stack>> BY <1>6 DEF Ensure
    <2> QED BY <1>1, <1>2, <1>3, <1>6, <2>1, GotoTyped, SameWalk, WalkMoves
  <1> QED BY <1>4, <1>5, <1>6

LEMMA MakeDirTyped ==
  ASSUME TransferAssumption, FilesTyped, NEW j \in Job, MakeDir(j)
  PROVE  FilesTyped'
  <1> DEFINE x == IF pc[j] = "mkdir" THEN at[j] ELSE Head(comps[j])
  <1>1. /\ pc[j] \in {"makedir", "mkdir"}
        /\ pc[j] = "mkdir" => work[j].op = "mkdir"
        /\ pc[j] = "makedir" => work[j].op = "updir"
        /\ UNCHANGED <<local, data, setup, at, files, stack, count>>
    BY OpFacts DEF MakeDir, report
  <1>2. x \in Places
    <2>1. CASE pc[j] = "mkdir" BY <2>1, SameWalk
    <2>2. CASE pc[j] = "makedir"
      BY <2>2, SameWalk, PlainsStay, PlainFacts DEF FilesTyped, StepOK
    <2> QED BY <1>1, <2>1, <2>2
  <1>3. /\ Falls(work[j].op) \subseteq StepsOf(work[j].op) \cap Steps
        /\ Falls(work[j].op) \cap (Opened \cup {"makedir"}) = {}
        /\ ~Inside(pc[j]) \/ pc[j] = "mkdir"
    BY <1>1, FallFacts DEF Inside
  <1>4. CASE Goto(j, "failed") /\ UNCHANGED <<remote, comps>>
    <2>1. "failed" \in StepsOf(work[j].op) \cap Steps /\ ~Inside("failed")
          /\ "failed" \notin Opened
      BY DEF StepsOf, Steps, Over, Inside, Opened
    <2> QED BY <1>1, <1>4, <2>1, GotoTyped, SameWalk, WalkMoves
  <1>5. CASE /\ remote' = Put(remote, x, Node("dir", NoFile))
             /\ comps' = [comps EXCEPT ![j] = IF @ = <<>> THEN @ ELSE Tail(@)]
             /\ \/ Answered(j, IF pc[j] = "mkdir" THEN "setmode" ELSE "ensure")
                \/ (pc[j] = "mkdir" /\ Goto(j, "done"))
    <2>1. PICK c \in Seq(Plains) : comps' = [comps EXCEPT ![j] = c]
      <3>1. CASE comps[j] = <<>> BY <1>5, <3>1, SameWalk
      <3>2. CASE comps[j] # <<>>
        BY <1>5, <3>2, SameWalk, PlainsStay
      <3> QED BY <3>1, <3>2
    <2>2. FsTyped(remote', DOMAIN data)
      BY <1>2, <1>5, SameWalk DEF Put, Node, FsTyped, Files, NodeKinds
    <2>3. /\ faults' \in 0..MaxFaults
          /\ \E s \in {"setmode", "ensure", "done"} \cup Falls(work[j].op) :
               /\ pc' = [pc EXCEPT ![j] = s] /\ s \in StepsOf(work[j].op) \cap Steps
               /\ s \notin Opened \cup {"makedir"}
               /\ Inside(s) => work[j].op \notin Walks
      <3>1. pc[j] \notin Over \cup {"idle", "copy"} BY <1>1 DEF Over
      <3>2. "done" \in StepsOf(work[j].op) \cap Steps /\ ~Inside("done")
            /\ "done" \notin Opened
        BY DEF StepsOf, Steps, Over, Inside, Opened
      <3>3. CASE pc[j] = "mkdir" /\ Goto(j, "done")
        BY <3>2, <3>3, GotoTyped
      <3>4. CASE Answered(j, IF pc[j] = "mkdir" THEN "setmode" ELSE "ensure")
        <4>1. PICK t : t = IF pc[j] = "mkdir" THEN "setmode" ELSE "ensure"
          OBVIOUS
        <4>2. /\ t \in {"setmode", "ensure"} /\ t \in StepsOf(work[j].op) \cap Steps
              /\ t \notin Opened \cup {"makedir"}
              /\ Inside(t) => work[j].op \notin Walks
          BY <1>1, <4>1 DEF StepsOf, Steps, Over, Inside, Opened, Walks
        <4>3. /\ faults' \in 0..MaxFaults
              /\ \/ pc' = [pc EXCEPT ![j] = t]
                 \/ \E f \in Falls(work[j].op) :
                      pc' = [pc EXCEPT ![j] = f] /\ (Inside(f) => Inside(pc[j]))
          BY <3>1, <3>4, <4>1, AnsweredTyped
        <4>4. pc[j] = "makedir" => ~Inside(pc[j]) BY DEF Inside
        <4>5. pc[j] = "mkdir" => work[j].op \notin Walks BY <1>1 DEF Walks
        <4>6. \A f \in Falls(work[j].op) :
                /\ f \in StepsOf(work[j].op) \cap Steps
                /\ f \notin Opened \cup {"makedir"}
          BY FallFacts
        <4> QED BY <1>1, <4>2, <4>3, <4>4, <4>5, <4>6
      <3> QED BY <1>5, <3>3, <3>4
    <2>4. PICK s \in StepsOf(work[j].op) \cap Steps :
               /\ pc' = [pc EXCEPT ![j] = s] /\ s \notin Opened \cup {"makedir"}
               /\ Inside(s) => work[j].op \notin Walks
      BY <2>3
    <2> QED BY <1>1, <2>1, <2>2, <2>3, <2>4, SameWalk, WalkMoves
  <1> QED BY <1>4, <1>5 DEF MakeDir

LEMMA ListDirTyped ==
  ASSUME TransferAssumption, FilesTyped, NEW j \in Job, ListDir(j)
  PROVE  FilesTyped'
  <1>1. /\ pc[j] = "list" /\ work[j].op \in {"downdir", "rmrec", "list"}
        /\ UNCHANGED <<sides, setup, at, files, comps, count>>
    BY OpFacts DEF ListDir, report
  <1>2. UNCHANGED <<data, local, remote>>
    BY <1>1 DEF sides
  <1>3. CASE (Goto(j, "failed") \/ Goto(j, "done")) /\ UNCHANGED stack
    <2>1. PICK s \in {"failed", "done"} : Goto(j, s) BY <1>3
    <2>2. s \in StepsOf(work[j].op) \cap Steps /\ ~Inside(s) /\ s \notin Opened
          /\ s # "makedir"
      BY DEF StepsOf, Steps, Over, Inside, Opened
    <2> QED BY <1>1, <1>2, <1>3, <2>1, <2>2, GotoTyped, SameWalk, WalkMoves
  <1>4. CASE work[j].op # "list" /\ Push(j, remote) /\ Goto(j, "walk")
    <2>1. PICK z \in Seq(Frames) : stack' = [stack EXCEPT ![j] = z] /\ z # <<>>
      BY <1>4, SameWalk, PushTyped
    <2>2. "walk" \in StepsOf(work[j].op) \cap Steps /\ "walk" \notin Opened
      BY <1>1, <1>4 DEF StepsOf, Steps, Opened, Walks
    <2>3. pc' = [pc EXCEPT ![j] = "walk"] /\ faults' \in 0..MaxFaults
      BY <1>4, GotoTyped
    <2>4. FsTyped(local', DOMAIN data) /\ FsTyped(remote', DOMAIN data)
      BY <1>2, SameWalk
    <2>5. comps' = [comps EXCEPT ![j] = comps[j]] /\ at' = [at EXCEPT ![j] = at[j]]
      BY <1>1, SameWalk
    <2> QED BY <1>1, <1>2, <2>1, <2>2, <2>3, <2>4, <2>5, SameWalk, WalkMoves
  <1> QED BY <1>3, <1>4 DEF ListDir

(* What a walk does next fits its operation.                               *)
LEMMA TreatmentFacts ==
  ASSUME NEW op \in Walks, NEW e \in [place : Places, kind : NodeKinds],
         NEW t, t = Treatment(op, e), t \notin {"skip", "ignore"}
  PROVE  /\ t \in StepsOf(op) \cap Steps /\ t \notin Opened \cup {"makedir"}
         /\ t \in {"enter", "unlink", "stat", "open"}
         /\ t = "stat" => op = "updir"
         /\ t = "open" => op = "downdir"
  <1>1. e.kind \in NodeKinds OBVIOUS
  <1>2. CASE op = "rmrec"
    BY <1>2 DEF Treatment, StepsOf, Steps, Opened, Over, Walks
  <1>3. CASE op # "rmrec"
    <2>1. t = CASE e.kind = "dir" -> "enter"
                [] e.kind = "file" -> IF op = "updir" THEN "stat" ELSE "open"
                [] OTHER -> IF e.kind = "link" \/ op = "downdir" THEN "skip"
                                                                 ELSE "ignore"
      BY <1>3 DEF Treatment
    <2>2. t \in {"enter", IF op = "updir" THEN "stat" ELSE "open"}
      BY <2>1
    <2> QED BY <1>3, <2>2 DEF StepsOf, Steps, Opened, Over, Walks, Uploads, Downloads
  <1> QED BY <1>2, <1>3

LEMMA WalkEntryTyped ==
  ASSUME TransferAssumption, FilesTyped, NEW j \in Job, WalkEntry(j)
  PROVE  FilesTyped'
  <1>1. /\ pc[j] = "walk" /\ work[j].op \in Walks
        /\ UNCHANGED <<sides, setup, files, comps, count>>
    BY OpFacts DEF WalkEntry
  <1>2. UNCHANGED <<data, local, remote>>
    BY <1>1 DEF sides
  <1>3. stack[j] # <<>> /\ stack[j] \in Seq(Frames) /\ "walk" \in Steps
    BY <1>1, SameWalk DEF FilesTyped, StepOK, Inside, Over, Steps
  <1>4. PICK e \in stack[j][1].left :
          LET next == Treatment(work[j].op, e) IN
          /\ stack' = [stack EXCEPT ![j][1].left = @ \ {e}]
          /\ IF next \in {"skip", "ignore"}
             THEN Goto(j, "walk") /\ UNCHANGED at
             ELSE Goto(j, next) /\ at' = [at EXCEPT ![j] = e.place]
    BY DEF WalkEntry
  <1>5. stack[j][1] \in Frames BY <1>3, StackFacts
  <1>6. e \in [place : Places, kind : NodeKinds] /\ e.place \in Places
    BY <1>4, <1>5 DEF Frames
  <1>7. PICK z \in Seq(Frames) : stack' = [stack EXCEPT ![j] = z] /\ z # <<>>
    <2>1. PICK z : z = [stack[j] EXCEPT ![1].left = @ \ {e}] OBVIOUS
    <2>2. z \in Seq(Frames) /\ z # <<>> BY <1>3, <2>1, StackFacts
    <2>3. stack' = [stack EXCEPT ![j] = z] BY <1>4, <2>1
    <2> QED BY <2>2, <2>3
  <1>8. PICK t : t = Treatment(work[j].op, e) OBVIOUS
  <1>9. CASE t \in {"skip", "ignore"}
    <2>1. Goto(j, "walk") /\ UNCHANGED at BY <1>4, <1>8, <1>9
    <2>2. "walk" \in StepsOf(work[j].op) /\ "walk" \notin Opened
      BY <1>1 DEF StepsOf, Opened
    <2> QED BY <1>1, <1>2, <1>3, <1>7, <2>1, <2>2, GotoTyped, SameWalk, WalkMoves
  <1>10. CASE t \notin {"skip", "ignore"}
    <2>1. Goto(j, t) /\ at' = [at EXCEPT ![j] = e.place] BY <1>4, <1>8, <1>10
    <2>2. t \in StepsOf(work[j].op) \cap Steps /\ t \notin Opened \cup {"makedir"}
      BY <1>1, <1>6, <1>8, <1>10, TreatmentFacts
    <2> QED BY <1>1, <1>2, <1>6, <1>7, <2>1, <2>2, GotoTyped, SameWalk, WalkMoves
  <1> QED BY <1>9, <1>10

LEMMA LeaveTyped ==
  ASSUME TransferAssumption, FilesTyped, NEW j \in Job, Leave(j)
  PROVE  FilesTyped'
  <1>1. /\ pc[j] = "walk" /\ work[j].op \in Walks
        /\ UNCHANGED <<sides, setup, files, comps, count>>
    BY OpFacts DEF Leave, report
  <1>2. UNCHANGED <<data, local, remote>>
    BY <1>1 DEF sides
  <1>3. stack[j] # <<>> /\ stack[j] \in Seq(Frames)
    BY <1>1, SameWalk DEF FilesTyped, StepOK, Inside, Over
  <1>4. /\ stack[j][1] \in Frames /\ Tail(stack[j]) \in Seq(Frames)
        /\ Len(stack[j]) > 1 => Tail(stack[j]) # <<>>
    BY <1>3, StackFacts
  <1>5. CASE work[j].op = "rmrec"
    <2>1. Goto(j, "rmdir") /\ at' = [at EXCEPT ![j] = stack[j][1].dir] /\ UNCHANGED stack
      BY <1>5 DEF Leave
    <2>2. stack[j][1].dir \in Places BY <1>4 DEF Frames
    <2>3. "rmdir" \in StepsOf(work[j].op) \cap Steps /\ "rmdir" \notin Opened
      BY <1>5 DEF StepsOf, Steps, Opened
    <2> QED BY <1>1, <1>2, <1>3, <2>1, <2>2, <2>3, GotoTyped, SameWalk, WalkMoves
  <1>6. CASE work[j].op # "rmrec"
    <2>1. Goto(j, After(j)) /\ stack' = [stack EXCEPT ![j] = Tail(stack[j])] /\ UNCHANGED at
      BY <1>6 DEF Leave
    <2>2. PICK s : s = After(j) OBVIOUS
    <2>3. /\ s \in StepsOf(work[j].op) \cap Steps /\ s \notin Opened \cup {"makedir"}
          /\ Inside(s) => Tail(stack[j]) # <<>>
      BY <1>1, <1>4, <2>2 DEF After, StepsOf, Steps, Opened, Inside, Over
    <2> QED BY <1>1, <1>2, <1>4, <2>1, <2>2, <2>3, GotoTyped, SameWalk, WalkMoves
  <1> QED BY <1>5, <1>6

LEMMA RemoveDirTyped ==
  ASSUME TransferAssumption, FilesTyped, NEW j \in Job, RemoveDir(j)
  PROVE  FilesTyped'
  <1>1. /\ pc[j] = "rmdir" /\ work[j].op \in Walks /\ work[j].op = "rmrec"
        /\ UNCHANGED <<local, data, setup, at, files, comps, count>>
    BY OpFacts DEF RemoveDir, report, Walks
  <1>2. stack[j] # <<>> /\ stack[j] \in Seq(Frames)
    BY <1>1, SameWalk DEF FilesTyped, StepOK, Inside, Over
  <1>3. /\ Tail(stack[j]) \in Seq(Frames)
        /\ Len(stack[j]) > 1 => Tail(stack[j]) # <<>>
    BY <1>2, StackFacts
  <1>4. CASE Goto(j, "failed") /\ UNCHANGED <<remote, stack>>
    <2>1. "failed" \in StepsOf(work[j].op) \cap Steps /\ ~Inside("failed")
          /\ "failed" \notin Opened
      BY DEF StepsOf, Steps, Over, Inside, Opened
    <2> QED BY <1>1, <1>4, <2>1, GotoTyped, SameWalk, WalkMoves
  <1>5. CASE /\ remote' = Without(remote, at[j]) /\ Answered(j, After(j))
             /\ stack' = [stack EXCEPT ![j] = Tail(@)]
    <2>1. FsTyped(remote', DOMAIN data) BY <1>5, SameWalk, FsWithout
    <2>2. PICK t : t = After(j) OBVIOUS
    <2>3. /\ faults' \in 0..MaxFaults
          /\ \/ pc' = [pc EXCEPT ![j] = t]
             \/ \E f \in Falls(work[j].op) : pc' = [pc EXCEPT ![j] = f]
      BY <1>1, <1>5, <2>2, AnsweredTyped DEF Over
    <2>4. Falls(work[j].op) = {"failed", "littered"}
      BY <1>1 DEF Falls, Uploads, Downloads
    <2>5. PICK s \in {t, "failed", "littered"} : pc' = [pc EXCEPT ![j] = s]
      BY <2>3, <2>4
    <2>6. /\ s \in StepsOf(work[j].op) \cap Steps /\ s \notin Opened \cup {"makedir"}
          /\ Inside(s) => Tail(stack[j]) # <<>>
      BY <1>1, <1>3, <2>2, <2>5 DEF After, StepsOf, Steps, Opened, Inside, Over
    <2>7. PICK z \in Seq(Frames) : z = Tail(stack[j]) BY <1>3
    <2>8. stack' = [stack EXCEPT ![j] = z] /\ (Inside(s) => z # <<>>)
      BY <1>5, <2>6, <2>7
    <2>9. FsTyped(local', DOMAIN data) BY <1>1, SameWalk
    <2>10. comps' = [comps EXCEPT ![j] = comps[j]] /\ at' = [at EXCEPT ![j] = at[j]]
      BY <1>1, SameWalk
    <2> QED BY <1>1, <2>1, <2>3, <2>5, <2>6, <2>8, <2>9, <2>10, SameWalk, WalkMoves
  <1> QED BY <1>4, <1>5 DEF RemoveDir

LEMMA TypedStep ==
  ASSUME TransferAssumption, FilesTyped, [TransferNext]_transferVars
  PROVE  FilesTyped'
  <1>1. ASSUME NEW j \in Job, JobStep(j) PROVE FilesTyped'
    BY <1>1, BareTyped, StatTyped, UpCreateTyped, DownOpenTyped, CopyTyped,
       RenameTyped, RemoveTyped, EnterTyped, EnsureTyped, MakeDirTyped,
       ListDirTyped, WalkEntryTyped, LeaveTyped, RemoveDirTyped
       DEF JobStep
  <1>2. ASSUME NEW j \in Job, RequestFails(j) \/ JobDies(j) \/ ShortWrite(j) PROVE FilesTyped'
    BY <1>2, BareTyped
  <1>3. CASE UNCHANGED transferVars
    BY <1>3 DEF transferVars, sides, setup, files, walk, report, FilesTyped,
                SidesTyped, JobsTyped, StepOK
  <1> QED BY <1>1, <1>2, <1>3, EditTyped DEF TransferNext

(* The trees as they are found: every file is under its own name and has   *)
(* contents of its own.                                                    *)
Found(kinds, side) ==
  [x \in {Plain(p) : p \in {q \in Path : kinds[q] # "none"}} |->
     Node(kinds[x.path], IF kinds[x.path] = "file" THEN <<side, x>> ELSE NoFile)]

LEMMA InitFacts ==
  ASSUME TransferInit
  PROVE  /\ local = Found(Local, "local") /\ remote = Found(Remote, "remote")
         /\ data = [i \in ({local[x].ino : x \in DOMAIN local}
                       \cup {remote[x].ino : x \in DOMAIN remote}) \ {NoFile} |->
                      <<i[1], i[1]>>]
  BY DEF TransferInit, Found

LEMMA FoundFacts ==
  ASSUME TransferAssumption, NEW kinds \in [Path -> NodeKinds],
         NEW side \in {"local", "remote"}
  PROVE  LET fs == Found(kinds, side) IN
         /\ DOMAIN fs = {Plain(p) : p \in {q \in Path : kinds[q] # "none"}}
         /\ \A x \in DOMAIN fs :
              /\ x \in Plains /\ x \in Places /\ x.tmp = <<>>
              /\ fs[x].kind \in NodeKinds \ {"none"}
              /\ fs[x].ino = IF fs[x].kind = "file" THEN <<side, x>> ELSE NoFile
              /\ fs[x].kind = "file" => fs[x].ino # NoFile
  <1> DEFINE D == {Plain(p) : p \in {q \in Path : kinds[q] # "none"}}
             fs == Found(kinds, side)
  <1>1. DOMAIN fs = D BY DEF Found
  <1>2. ASSUME NEW x \in D
        PROVE  /\ x \in Plains /\ x \in Places /\ x.tmp = <<>>
               /\ fs[x].kind \in NodeKinds \ {"none"}
               /\ fs[x].ino = IF fs[x].kind = "file" THEN <<side, x>> ELSE NoFile
               /\ fs[x].kind = "file" => fs[x].ino # NoFile
    <2>1. PICK p \in Path : x = Plain(p) /\ kinds[p] # "none" OBVIOUS
    <2>2. x \in Plains /\ x \in Places /\ x.tmp = <<>> /\ x.path = p
      BY <2>1, PlainFacts
    <2>3. fs[x] = Node(kinds[p], IF kinds[p] = "file" THEN <<side, x>> ELSE NoFile)
      BY <2>2 DEF Found
    <2>4. <<side, x>> # NoFile BY DEF NoFile
    <2> QED BY <2>1, <2>2, <2>3, <2>4 DEF Node
  <1> QED BY <1>1, <1>2

LEMMA InitFiles ==
  ASSUME TransferAssumption, TransferInit
  PROVE  /\ \A x \in DOMAIN local : x \in Places /\ x.tmp = <<>>
         /\ \A x \in DOMAIN remote : x \in Places /\ x.tmp = <<>>
         /\ \A x \in Files(local) : local[x].ino = <<"local", x>>
         /\ \A x \in Files(remote) : remote[x].ino = <<"remote", x>>
         /\ DOMAIN data = {local[x].ino : x \in Files(local)}
                            \cup {remote[x].ino : x \in Files(remote)}
         /\ DOMAIN data \subseteq {"local", "remote"} \X Places
         /\ \A i \in DOMAIN data : data[i] = <<i[1], i[1]>>
         /\ \A x \in DOMAIN local : local[x].kind \in NodeKinds \ {"none"}
         /\ \A x \in DOMAIN remote : remote[x].kind \in NodeKinds \ {"none"}
  <1>1. /\ local = Found(Local, "local") /\ remote = Found(Remote, "remote")
        /\ data = [i \in ({local[x].ino : x \in DOMAIN local}
                       \cup {remote[x].ino : x \in DOMAIN remote}) \ {NoFile} |->
                      <<i[1], i[1]>>]
    BY InitFacts
  <1>2. Local \in [Path -> NodeKinds] /\ Remote \in [Path -> NodeKinds]
    BY DEF TransferAssumption
  <1>3. \A x \in DOMAIN local :
          /\ x \in Places /\ x.tmp = <<>> /\ local[x].kind \in NodeKinds \ {"none"}
          /\ local[x].ino = IF local[x].kind = "file" THEN <<"local", x>> ELSE NoFile
          /\ local[x].kind = "file" => local[x].ino # NoFile
    BY <1>1, <1>2, FoundFacts
  <1>4. \A x \in DOMAIN remote :
          /\ x \in Places /\ x.tmp = <<>> /\ remote[x].kind \in NodeKinds \ {"none"}
          /\ remote[x].ino = IF remote[x].kind = "file" THEN <<"remote", x>> ELSE NoFile
          /\ remote[x].kind = "file" => remote[x].ino # NoFile
    BY <1>1, <1>2, FoundFacts
  <1>5. DOMAIN data = {local[x].ino : x \in Files(local)}
                        \cup {remote[x].ino : x \in Files(remote)}
    BY <1>1, <1>3, <1>4 DEF Files
  <1>6. DOMAIN data \subseteq {"local", "remote"} \X Places
    <2>1. \A x \in Files(local) : local[x].ino = <<"local", x>> /\ x \in Places
      BY <1>3 DEF Files
    <2>2. \A x \in Files(remote) : remote[x].ino = <<"remote", x>> /\ x \in Places
      BY <1>4 DEF Files
    <2>3. ASSUME NEW i \in DOMAIN data PROVE i \in {"local", "remote"} \X Places
      <3>1. CASE i \in {local[x].ino : x \in Files(local)}
        <4>1. PICK x \in Files(local) : i = local[x].ino BY <3>1
        <4>2. i = <<"local", x>> /\ x \in Places BY <2>1, <4>1
        <4>3. <<"local", x>> \in {"local", "remote"} \X Places BY <4>2
        <4> QED BY <4>2, <4>3
      <3>2. CASE i \in {remote[x].ino : x \in Files(remote)}
        <4>1. PICK x \in Files(remote) : i = remote[x].ino BY <3>2
        <4>2. i = <<"remote", x>> /\ x \in Places BY <2>2, <4>1
        <4>3. <<"remote", x>> \in {"local", "remote"} \X Places BY <4>2
        <4> QED BY <4>2, <4>3
      <3> QED BY <1>5, <3>1, <3>2
    <2> QED BY <2>3
  <1>7. \A i \in DOMAIN data : data[i] = <<i[1], i[1]>>
    BY <1>1
  <1> QED BY <1>3, <1>4, <1>5, <1>6, <1>7 DEF Files

LEMMA TypedInit ==
  ASSUME TransferAssumption, TransferInit
  PROVE  FilesTyped
  <1>1. FsTyped(local, DOMAIN data) /\ FsTyped(remote, DOMAIN data)
    BY InitFiles DEF FsTyped
  <1>2. DOMAIN data \subseteq Inodes
    BY InitFiles DEF Inodes, Sources
  <1>3. ASSUME NEW i \in DOMAIN data PROVE data[i] \in Contents
    <2>1. PICK s \in {"local", "remote"} : i[1] = s BY InitFiles
    <2>2. data[i] = <<s, s>> BY <2>1, InitFiles
    <2>3. <<s, s>> \in Contents BY DEF Contents
    <2> QED BY <2>2, <2>3
  <1>4. SidesTyped BY <1>1, <1>2, <1>3 DEF SidesTyped
  <1>5. work \in [Job -> UNION Range(Work)] /\ \A j \in Job : work[j] \in Work[j]
    BY DEF TransferInit
  <1>6. \A j \in Job : work[j] \in [op : Operations, path : Path]
    BY <1>5 DEF TransferAssumption
  <1>7. work \in [Job -> [op : Operations, path : Path]]
    BY <1>5, <1>6
  <1>8. at \in [Job -> Places]
    <2>1. \A j \in Job : Plain(work[j].path) \in Places
      BY <1>6, PlainFacts
    <2> QED BY <2>1 DEF TransferInit
  <1>9. NoFile \in Inodes
    BY PlainFacts DEF NoFile, Inodes, Sources, TransferAssumption
  <1>10. /\ size \in [Job -> 0..2] /\ pos \in [Job -> 0..2]
         /\ src \in [Job -> Inodes] /\ dst \in [Job -> Inodes]
    BY <1>9 DEF TransferInit
  <1>11. /\ stack \in [Job -> Seq(Frames)] /\ comps \in [Job -> Seq(Plains)]
    <2>1. <<>> \in Seq(Frames) /\ <<>> \in Seq(Plains) OBVIOUS
    <2> QED BY <2>1 DEF TransferInit
  <1>12. count \in [Job -> Nat] /\ faults \in 0..MaxFaults
         /\ pc = [j \in Job |-> "idle"] /\ pc \in [Job -> Steps]
    BY DEF TransferInit, TransferAssumption, Steps
  <1>13. JobsTyped BY <1>5, <1>7, <1>8, <1>10, <1>11, <1>12 DEF JobsTyped
  <1>14. \A j \in Job : StepOK(j)
    BY <1>12 DEF StepOK, StepsOf, Inside, Opened
  <1> QED BY <1>4, <1>13, <1>14 DEF FilesTyped

LEMMA TypedMeans ==
  ASSUME FilesTyped
  PROVE  TransferTypeOK
  <1>1. \A x \in DOMAIN local : /\ x.path \in Path /\ local[x].kind \in NodeKinds \ {"none"}
                                /\ local[x].kind = "file" => local[x].ino \in DOMAIN data
    BY DEF FilesTyped, SidesTyped, FsTyped, Files, Places
  <1>2. \A x \in DOMAIN remote : /\ x.path \in Path /\ remote[x].kind \in NodeKinds \ {"none"}
                                 /\ remote[x].kind = "file" => remote[x].ino \in DOMAIN data
    BY DEF FilesTyped, SidesTyped, FsTyped, Files, Places
  <1>3. \A i \in DOMAIN data : Len(data[i]) \in 0..2
    BY LenFacts DEF FilesTyped, SidesTyped
  <1>4. /\ pc \in [Job -> Steps] /\ \A j \in Job : work[j] \in Work[j]
        /\ \A j \in Job : pos[j] \in 0..2 /\ size[j] \in 0..2
        /\ faults \in 0..MaxFaults
    BY DEF FilesTyped, JobsTyped
  <1> QED BY <1>1, <1>2, <1>3, <1>4 DEF TransferTypeOK

(* Whatever runs at once, every job is at a step of its own operation, and *)
(* every directory entry that is a file leads to contents that exist.      *)
THEOREM TransferTypes == TransferSpec => []TransferTypeOK
  <1>1. TransferInit => FilesTyped BY TransferAssumption, TypedInit
  <1>2. FilesTyped /\ [TransferNext]_transferVars => FilesTyped'
    BY TransferAssumption, TypedStep
  <1>3. FilesTyped => TransferTypeOK BY TypedMeans
  <1> QED BY <1>1, <1>2, <1>3, PTL DEF TransferSpec

-----------------------------------------------------------------------------
(* Files are whole.                                                        *)

(* Two transfers of one process begin in different milliseconds, and two   *)
(* processes that run at once have different numbers.                      *)
StampsDiffer == \A j, k \in Job : Stamp[j] = Stamp[k] => j = k
Ups == Op(Uploads)
Downs == Op(Downloads)

(* No unfinished file can be carried over and back: the transfers all go   *)
(* one way, or there is one each way.                                      *)
NoDetour == /\ Downs = {} \/ \A j, k \in Ups : j = k
            /\ Ups = {} \/ \A j, k \in Downs : j = k

(* Where every transfer goes one way, the side they read from never has a  *)
(* temporary file, and they copy to names that are not temporary.          *)
Straight(j) == (j \in Ups /\ Downs = {}) \/ (j \in Downs /\ Ups = {})
PlainInv ==
  /\ Downs = {} => \A x \in DOMAIN local : x.tmp = <<>>
  /\ Ups = {} => \A x \in DOMAIN remote : x.tmp = <<>>
  /\ \A j \in Job : Straight(j) \/ work[j].op \notin Walks => at[j].tmp = <<>>
  /\ \A j \in Job : Straight(j) =>
       \A n \in 1..Len(stack[j]) : \A e \in stack[j][n].left : e.place.tmp = <<>>

LocalInodes == ({"local", "edited"} \X Places) \cup (Downs \X Places \X Nat)
RemoteInodes == ({"remote"} \X Places) \cup (Ups \X Places \X Nat)

(* Contents that will not change any more: whole, open to no transfer, and *)
(* reached by no temporary name, so that no transfer truncates them.       *)
NotTemp(fs, i) == \A x \in Files(fs) : x.tmp # <<>> => fs[x].ino # i
Kept ==
  {i \in DOMAIN data : /\ Whole(data[i]) /\ \A j \in Live : dst[j] # i
                       /\ NotTemp(local, i) /\ NotTemp(remote, i)}

(* One side of the copies: its files have contents of this side, each its  *)
(* own, those with a plain name contents that are kept; and of what is open*)
(* to a live transfer the temporary name is the only one, if it still is.  *)
Temps == [j \in Job |-> TmpOf(at[j], j)]
Holds(fs, own, live, temp, ino, kept) ==
  /\ \A x \in Files(fs) : fs[x].ino \in own
  /\ \A x, y \in Files(fs) : fs[x].ino = fs[y].ino => x = y
  /\ \A x \in Files(fs) : x.tmp = <<>> => fs[x].ino \in kept
  /\ \A j \in live : /\ ino[j] \in own
                     /\ \A x \in Files(fs) : fs[x].ino = ino[j] <=> x = temp[j]
LocalHolds == Holds(local, LocalInodes, Live \cap Downs, Temps, dst, Kept)
RemoteHolds == Holds(remote, RemoteInodes, Live \cap Ups, Temps, dst, Kept)

(* How far a transfer to a plain name has come: it reads what is kept; what*)
(* it has written is the first pieces of that, and all of it from the step *)
(* on at which the file is ready to be renamed.                            *)
Part(a, b, n) == n <= Len(b) /\ a = [i \in 1..n |-> b[i]]
Copied(j) ==
  j \in Live /\ at[j].tmp = <<>> =>
    /\ src[j] \in Kept
    /\ pc[j] \in {"copy", "verify"} => Part(data[dst[j]], data[src[j]], pos[j])
    /\ pc[j] = "verify" => pos[j] = Len(data[src[j]]) \/ size[j] = Len(data[src[j]])
    /\ pc[j] \notin {"copy", "verify"} => data[dst[j]] = data[src[j]]

(* The contents a job has created are numbered by the files it had copied  *)
(* by then: the next ones it creates are new.                              *)
Lost == Over \cup {"cleanup", "discard"}
Fresh(j) ==
  pc[j] \notin Lost =>
    \A x \in Places, n \in Nat : <<j, x, n>> \in DOMAIN data =>
      IF j \in Live THEN n <= count[j] ELSE n < count[j]

FilesInv ==
  /\ PlainInv /\ LocalHolds /\ RemoteHolds
  /\ \A j, k \in Live : dst[j] = dst[k] => j = k
  /\ \A j \in Job : Copied(j) /\ Fresh(j)

(* What becomes of one side.                                               *)
NoNew(fs, gs) ==
  \A x \in Files(gs) : x \in Files(fs) /\ gs[x].ino = fs[x].ino

LEMMA HoldsLess ==
  ASSUME NEW fs, NEW gs, NEW own, NEW live, NEW more, NEW temp, NEW temp2,
         NEW ino, NEW ino2, NEW kept, NEW kept2,
         Holds(fs, own, live, temp, ino, kept), NoNew(fs, gs),
         more \subseteq live, kept \subseteq kept2,
         \A j \in more : temp2[j] = temp[j] /\ ino2[j] = ino[j]
  PROVE  Holds(gs, own, more, temp2, ino2, kept2)
  BY DEF Holds, NoNew

LEMMA HoldsPut ==
  ASSUME NEW fs, NEW gs, NEW own, NEW dir, NEW j,
         Holds(fs, own, Live \cap dir, Temps, dst, Kept),
         gs = Put(fs, Temps'[j], Node("file", dst'[j])), Temps'[j].tmp # <<>>,
         dst'[j] \in own, \A x \in Files(fs) : fs[x].ino = dst'[j] => x = Temps'[j],
         Live' \subseteq Live \cup {j}, j \notin Live, Kept \subseteq Kept',
         \A k \in Live \cap dir : /\ Temps'[k] = Temps[k] /\ dst'[k] = dst[k]
                                  /\ Temps[k] # Temps'[j] /\ dst[k] # dst'[j]
  PROVE  Holds(gs, own, Live' \cap dir, Temps', dst', Kept')
  <1>0. PICK t, i : t = Temps'[j] /\ i = dst'[j] OBVIOUS
  <1>1. /\ Files(gs) = Files(fs) \cup {t} /\ gs[t].ino = i
        /\ \A x \in Files(fs) \ {t} : gs[x].ino = fs[x].ino
    BY <1>0 DEF Put, Node, Files
  <1>2. \A x \in Files(gs) : gs[x].ino \in own
    BY <1>0, <1>1 DEF Holds
  <1>3. \A x, y \in Files(gs) : gs[x].ino = gs[y].ino => x = y
    BY <1>0, <1>1 DEF Holds
  <1>4. \A x \in Files(gs) : x.tmp = <<>> => gs[x].ino \in Kept'
    BY <1>0, <1>1 DEF Holds
  <1>5. ASSUME NEW k \in Live' \cap dir
        PROVE  /\ dst'[k] \in own
               /\ \A x \in Files(gs) : gs[x].ino = dst'[k] <=> x = Temps'[k]
    <2>1. CASE k = j BY <1>0, <1>1, <2>1
    <2>2. CASE k \in Live \cap dir BY <1>0, <1>1, <2>2 DEF Holds
    <2> QED BY <2>1, <2>2
  <1> QED BY <1>2, <1>3, <1>4, <1>5 DEF Holds

LEMMA HoldsMoved ==
  ASSUME NEW fs, NEW gs, NEW own, NEW dir, NEW j \in Live \cap dir,
         Holds(fs, own, Live \cap dir, Temps, dst, Kept),
         Temps[j] \in Files(fs), at[j] # Temps[j], gs = Moved(fs, Temps[j], at[j]),
         Live' = Live \ {j}, Kept \subseteq Kept', UNCHANGED <<Temps, dst>>,
         \A k \in (Live \cap dir) \ {j} : Temps[k] # Temps[j] /\ Temps[k] # at[j],
         at[j].tmp = <<>> => dst[j] \in Kept'
  PROVE  Holds(gs, own, Live' \cap dir, Temps', dst', Kept')
  <1>1. PICK t \in Files(fs), y \in {at[j]} : t = Temps[j] /\ y = at[j] OBVIOUS
  <1>2. /\ Files(gs) = (Files(fs) \ {t}) \cup {y}
        /\ gs[y].ino = fs[t].ino /\ fs[t].ino = dst[j]
        /\ \A x \in Files(fs) \ {t, y} : gs[x].ino = fs[x].ino
    <2>1. fs[t].ino = dst[j] BY <1>1 DEF Holds
    <2> QED BY <1>1, <2>1 DEF Moved, Put, Without, Restrict, Files
  <1>3. \A x \in Files(gs) : gs[x].ino \in own
    BY <1>2 DEF Holds
  <1>4. \A x, z \in Files(gs) : gs[x].ino = gs[z].ino => x = z
    BY <1>2 DEF Holds
  <1>5. \A x \in Files(gs) : x.tmp = <<>> => gs[x].ino \in Kept'
    BY <1>1, <1>2 DEF Holds
  <1>6. \A k \in Live' \cap dir :
          /\ dst[k] \in own
          /\ \A x \in Files(gs) : gs[x].ino = dst[k] <=> x = Temps[k]
    BY <1>1, <1>2 DEF Holds
  <1> QED BY <1>3, <1>4, <1>5, <1>6 DEF Holds

LEMMA HoldsReplaced ==
  ASSUME NEW fs, NEW gs, NEW own, NEW live, NEW temp, NEW ino,
         NEW kept, NEW kept2, NEW y \in Files(fs), NEW i \in own \cap kept2,
         Holds(fs, own, live, temp, ino, kept), kept \subseteq kept2,
         gs = Put(fs, y, Node("file", i)),
         \A x \in Files(fs) : fs[x].ino # i,
         \A k \in live : temp[k] # y /\ ino[k] # i
  PROVE  Holds(gs, own, live, temp, ino, kept2)
  <1>1. /\ Files(gs) = Files(fs) /\ gs[y].ino = i
        /\ \A x \in Files(fs) \ {y} : gs[x].ino = fs[x].ino
    BY DEF Put, Node, Files
  <1> QED BY <1>1 DEF Holds

(* The two sides have no contents in common.                               *)
LEMMA SidesApart ==
  ASSUME FilesTyped, NEW i \in LocalInodes, NEW k \in RemoteInodes
  PROVE  i # k
  <1>1. \A a, b, c, d, e : <<a, b>> # <<c, d, e>> OBVIOUS
  <1>2. CASE i \in {"local", "edited"} \X Places
    <2>1. PICK s \in {"local", "edited"}, x \in Places : i = <<s, x>> BY <1>2
    <2>2. CASE k \in {"remote"} \X Places
      <3>1. PICK y \in Places : k = <<"remote", y>> BY <2>2
      <3> QED BY <2>1, <3>1
    <2>3. CASE k \in Ups \X Places \X Nat
      <3>1. PICK j \in Ups, y \in Places, n \in Nat : k = <<j, y, n>> BY <2>3
      <3> QED BY <1>1, <2>1, <3>1
    <2> QED BY <2>2, <2>3 DEF RemoteInodes
  <1>3. CASE i \in Downs \X Places \X Nat
    <2>1. PICK j \in Downs, x \in Places, n \in Nat : i = <<j, x, n>> BY <1>3
    <2>2. CASE k \in {"remote"} \X Places
      <3>1. PICK y \in Places : k = <<"remote", y>> BY <2>2
      <3> QED BY <1>1, <2>1, <3>1
    <2>3. CASE k \in Ups \X Places \X Nat
      <3>1. PICK l \in Ups, y \in Places, m \in Nat : k = <<l, y, m>> BY <2>3
      <3>2. j # l BY DEF Ups, Downs, Op, Uploads, Downloads
      <3> QED BY <2>1, <3>1, <3>2
    <2> QED BY <2>2, <2>3 DEF RemoteInodes
  <1> QED BY <1>2, <1>3 DEF LocalInodes

(* Two transfers that go the same way do not meet.                         *)
LEMMA Apart ==
  ASSUME StampsDiffer, NoDetour, FilesTyped, PlainInv,
         NEW j \in Job, NEW k \in Job, j # k,
         {j, k} \subseteq Ups \/ {j, k} \subseteq Downs
  PROVE  /\ Temps[j] # Temps[k] /\ Temps[j] # at[k]
         /\ Temps[j] \in Places /\ Temps[j].tmp # <<>>
  <1>1. Straight(j) /\ Straight(k) BY DEF NoDetour, Straight
  <1>2. at[j].tmp = <<>> /\ at[k].tmp = <<>> BY <1>1 DEF PlainInv
  <1>3. at[j] \in Places /\ at[k] \in Places BY JobFacts
  <1>4. /\ TmpOf(at[j], j) \in Places /\ TmpOf(at[j], j).tmp # <<>>
    BY <1>3, TmpFacts
  <1>5. TmpOf(at[j], j) # TmpOf(at[k], k)
    BY <1>2, <1>3, TmpOfPlain DEF StampsDiffer
  <1> QED BY <1>2, <1>4, <1>5 DEF Temps

LEMMA TempFacts ==
  ASSUME FilesTyped, NEW j \in Job
  PROVE  /\ Temps[j] = TmpOf(at[j], j) /\ Temps[j] \in Places
         /\ Temps[j].tmp # <<>> /\ Temps[j] # at[j]
  BY JobFacts, TmpFacts DEF Temps

(* What transfers see of temporary files stays as it is.                   *)
LEMMA PlainKeeps ==
  ASSUME FilesTyped, PlainInv, NEW j \in Job, work' = work,
         UNCHANGED <<at, stack>>,
         Downs = {} => \A x \in DOMAIN local' : x \in DOMAIN local \/ x.tmp = <<>>,
         Ups = {} => \A x \in DOMAIN remote' : x \in DOMAIN remote \/ x.tmp = <<>>
  PROVE  PlainInv'
  <1>1. Ups' = Ups /\ Downs' = Downs BY DEF Ups, Downs, Op
  <1>2. \A k \in Job : Straight(k)' = Straight(k) BY <1>1 DEF Straight
  <1> QED BY <1>1, <1>2 DEF PlainInv

LEMMA PlainSteps ==
  ASSUME TransferAssumption, FilesTyped, PlainInv, NEW j \in Job,
         \/ Transfer(j) \/ TransferDir(j) \/ MkdirRequest(j) \/ ListRequest(j)
         \/ RemoveRequest(j) \/ ChmodRequest(j) \/ RequestFails(j) \/ JobDies(j)
         \/ ShortWrite(j) \/ UpStat(j) \/ Copy(j) \/ UpVerify(j) \/ SetMode(j)
         \/ UpRemoveOld(j) \/ UpCleanUp(j) \/ DownDiscard(j) \/ Unlink(j)
         \/ UpCreate(j) \/ DownOpen(j) \/ UpRename(j) \/ UpRenameAgain(j)
         \/ DownReplace(j)
  PROVE  PlainInv' /\ work' = work /\ at' = at /\ stack' = stack
  <1>1. UNCHANGED <<work, at, stack>>
    BY DEF Transfer, TransferDir, MkdirRequest, ListRequest, RemoveRequest,
           ChmodRequest, Begins, RequestFails, JobDies, ShortWrite, UpStat, Copy,
           UpVerify, SetMode, UpRemoveOld, UpCleanUp, DownDiscard, Unlink,
           UpCreate, DownOpen, UpRename, UpRenameAgain, DownReplace, setup, walk
  <1>2. CASE UpCreate(j) \/ UpRename(j) \/ UpRenameAgain(j)
    <2>1. j \in Ups BY <1>2, OpFacts DEF UpCreate, UpRename, UpRenameAgain, Ups, Op
    <2>2. local' = local BY <1>2 DEF UpCreate, UpRename, UpRenameAgain
    <2> QED BY <1>1, <2>1, <2>2, PlainKeeps
  <1>3. CASE DownOpen(j) \/ DownReplace(j)
    <2>1. j \in Downs BY <1>3, OpFacts DEF DownOpen, DownReplace, Downs, Op
    <2>2. remote' = remote BY <1>3 DEF DownOpen, DownReplace
    <2> QED BY <1>1, <2>1, <2>2, PlainKeeps
  <1>4. CASE UpRemoveOld(j) \/ UpCleanUp(j) \/ DownDiscard(j) \/ Unlink(j)
    <2>1. /\ DOMAIN local' \subseteq DOMAIN local
          /\ DOMAIN remote' \subseteq DOMAIN remote
      BY <1>4 DEF UpRemoveOld, UpCleanUp, DownDiscard, Unlink, Without, Restrict
    <2> QED BY <1>1, <2>1, PlainKeeps
  <1>5. CASE \/ Transfer(j) \/ TransferDir(j) \/ MkdirRequest(j) \/ ListRequest(j)
             \/ RemoveRequest(j) \/ ChmodRequest(j) \/ RequestFails(j) \/ JobDies(j)
             \/ ShortWrite(j) \/ UpStat(j) \/ Copy(j) \/ UpVerify(j) \/ SetMode(j)
    <2>1. local' = local /\ remote' = remote
      BY <1>5 DEF Transfer, TransferDir, MkdirRequest, ListRequest, RemoveRequest,
           ChmodRequest, Begins, RequestFails, JobDies, ShortWrite, UpStat, Copy,
           UpVerify, SetMode, sides
    <2> QED BY <1>1, <2>1, PlainKeeps
  <1> QED BY <1>1, <1>2, <1>3, <1>4, <1>5

(* What a walk adds to its stack.                                          *)
LEMMA PlainPush ==
  ASSUME FilesTyped, PlainInv, NEW j \in Job, NEW fs, FsTyped(fs, DOMAIN data),
         Push(j, fs), work' = work, at' = at, local' = local, remote' = remote,
         Straight(j) => \A x \in DOMAIN fs : x.tmp = <<>>
  PROVE  PlainInv'
  <1> DEFINE r == [dir |-> at[j], left |-> Entries(fs, at[j])]
  <1>1. /\ \A k \in Job : Straight(k)' = Straight(k)
        /\ Ups' = Ups /\ Downs' = Downs
    BY DEF Ups, Downs, Op, Straight
  <1>2. PICK z \in Seq(Frames) :
           /\ stack' = [stack EXCEPT ![j] = z] /\ z = <<r>> \o stack[j]
    BY PushTyped
  <1>3. stack \in [Job -> Seq(Frames)] BY DEF FilesTyped, JobsTyped
  <1>4. stack'[j] = z /\ \A k \in Job \ {j} : stack'[k] = stack[k]
    BY <1>2, <1>3
  <1>5. ASSUME Straight(j), NEW n \in 1..Len(z), NEW e \in z[n].left
        PROVE  e.place.tmp = <<>>
    <2>1. stack[j] \in Seq(Frames) /\ Len(z) = 1 + Len(stack[j]) /\ Len(stack[j]) \in Nat
      BY <1>2, <1>3
    <2>2. CASE n = 1
      <3>1. z[1] = r BY <1>2, <1>3
      <3>2. e \in Entries(fs, at[j]) BY <1>5, <2>2, <3>1
      <3>3. PICK x \in Children(fs, at[j]) : e = [place |-> x, kind |-> fs[x].kind]
        BY <3>2 DEF Entries
      <3> QED BY <1>5, <3>3 DEF Children
    <2>3. CASE n # 1
      <3>1. n - 1 \in 1..Len(stack[j]) /\ z[n] = stack[j][n - 1]
        BY <1>2, <1>3, <2>1, <2>3
      <3> QED BY <1>5, <3>1 DEF PlainInv
    <2> QED BY <2>2, <2>3
  <1>6. \A k \in Job : Straight(k)' =>
         \A n \in 1..Len(stack'[k]) : \A e \in stack'[k][n].left : e.place.tmp = <<>>
    BY <1>1, <1>4, <1>5 DEF PlainInv
  <1> QED BY <1>1, <1>6 DEF PlainInv

LEMMA PlainWalk ==
  ASSUME TransferAssumption, FilesTyped, PlainInv, NEW j \in Job,
         \/ Enter(j) \/ Ensure(j) \/ MakeDir(j) \/ ListDir(j) \/ WalkEntry(j)
         \/ Leave(j) \/ RemoveDir(j)
  PROVE  PlainInv'
  <1>1. CASE Enter(j)
    <2>1. UNCHANGED <<work, at, stack, remote>> BY <1>1 DEF Enter, setup
    <2>2. ASSUME NEW x \in DOMAIN local' PROVE x \in DOMAIN local \/ x.tmp = <<>>
      <3> DEFINE all == Range(Chain(at[j].path))
      <3>1. x \in DOMAIN local \cup all BY <1>1, <2>2 DEF Enter
      <3>2. all \subseteq Plains BY JobFacts, ChainFacts DEF Places
      <3> QED BY <3>1, <3>2 DEF Plains, Plain
    <2> QED BY <2>1, <2>2, PlainKeeps
  <1>2. CASE Ensure(j)
    <2>1. UNCHANGED <<work, at, local, remote>> BY <1>2 DEF Ensure, setup, sides
    <2>2. work[j].op = "updir" BY <1>2, OpFacts DEF Ensure
    <2>3. CASE Push(j, local)
      <3>1. Straight(j) => \A x \in DOMAIN local : x.tmp = <<>>
        BY <2>2 DEF Straight, PlainInv, Downs, Op, Downloads
      <3> QED BY <2>1, <2>3, <3>1, PlainPush DEF FilesTyped, SidesTyped
    <2>4. CASE UNCHANGED stack BY <2>1, <2>4, PlainKeeps
    <2> QED BY <1>2, <2>3, <2>4 DEF Ensure
  <1>3. CASE MakeDir(j)
    <2> DEFINE x == IF pc[j] = "mkdir" THEN at[j] ELSE Head(comps[j])
    <2>1. UNCHANGED <<work, at, stack, local>> BY <1>3 DEF MakeDir, setup
    <2>2. x.tmp = <<>>
      <3>1. CASE pc[j] = "mkdir"
        BY <3>1, OpFacts DEF PlainInv, Walks
      <3>2. CASE pc[j] = "makedir"
        <4>1. comps[j] # <<>> /\ comps[j] \in Seq(Plains)
          BY <3>2, JobFacts DEF FilesTyped, StepOK
        <4>2. Head(comps[j]) \in Plains BY <4>1, PlainsStay
        <4> QED BY <3>2, <4>2 DEF Plains, Plain
      <3> QED BY <1>3, <3>1, <3>2 DEF MakeDir
    <2>3. \A y \in DOMAIN remote' : y \in DOMAIN remote \/ y = x
      BY <1>3 DEF MakeDir, Put
    <2> QED BY <2>1, <2>2, <2>3, PlainKeeps
  <1>4. CASE ListDir(j)
    <2>1. UNCHANGED <<work, at, local, remote>> BY <1>4 DEF ListDir, setup, sides
    <2>2. work[j].op \in {"downdir", "rmrec", "list"} BY <1>4, OpFacts DEF ListDir
    <2>3. CASE Push(j, remote)
      <3>1. Straight(j) => \A x \in DOMAIN remote : x.tmp = <<>>
        BY <2>2 DEF Straight, PlainInv, Ups, Op, Uploads
      <3> QED BY <2>1, <2>3, <3>1, PlainPush DEF FilesTyped, SidesTyped
    <2>4. CASE UNCHANGED stack BY <2>1, <2>4, PlainKeeps
    <2> QED BY <1>4, <2>3, <2>4 DEF ListDir
  <1>5. \A k \in Job : work' = work => Straight(k)' = Straight(k)
    BY DEF Ups, Downs, Op, Straight
  <1>6. stack \in [Job -> Seq(Frames)] /\ at \in [Job -> Places]
    BY DEF FilesTyped, JobsTyped
  <1>7. CASE WalkEntry(j)
    <2>1. UNCHANGED <<work, local, remote>> BY <1>7 DEF WalkEntry, setup, sides
    <2>2. stack[j] # <<>> /\ stack[j] \in Seq(Frames) /\ work[j].op \in Walks
      BY <1>7, SameWalk, OpFacts DEF WalkEntry, FilesTyped, StepOK, Inside, Over
    <2>3. 1 \in 1..Len(stack[j]) BY <2>2
    <2>4. PICK e \in stack[j][1].left :
            /\ stack' = [stack EXCEPT ![j][1].left = @ \ {e}]
            /\ at' = at \/ at' = [at EXCEPT ![j] = e.place]
      BY <1>7 DEF WalkEntry
    <2>5. PICK z : z = [stack[j] EXCEPT ![1].left = @ \ {e}] OBVIOUS
    <2>6. /\ Len(z) = Len(stack[j]) /\ z[1].left = stack[j][1].left \ {e}
          /\ \A n \in 2..Len(stack[j]) : z[n] = stack[j][n]
      BY <2>2, <2>5, StackFacts
    <2>7. stack' = [stack EXCEPT ![j] = z] BY <2>4, <2>5
    <2>8. stack'[j] = z /\ \A k \in Job \ {j} : stack'[k] = stack[k]
      BY <1>6, <2>7
    <2>9. \A n \in 1..Len(z) : z[n].left \subseteq stack[j][n].left
      <3>1. Len(stack[j]) \in Nat BY <2>2
      <3>2. TAKE n \in 1..Len(z)
      <3>3. n = 1 \/ n \in 2..Len(stack[j]) BY <2>6, <3>1
      <3> QED BY <2>6, <3>3
    <2>10. \A k \in Job : Straight(k) =>
           \A n \in 1..Len(stack'[k]) : \A f \in stack'[k][n].left : f.place.tmp = <<>>
      BY <2>6, <2>8, <2>9 DEF PlainInv
    <2>11. Straight(j) => e.place.tmp = <<>>
      BY <2>3, <2>4 DEF PlainInv
    <2>12. \A k \in Job : Straight(k) \/ work[k].op \notin Walks => at'[k].tmp = <<>>
      BY <1>6, <2>2, <2>4, <2>11 DEF PlainInv
    <2>13. Ups' = Ups /\ Downs' = Downs BY <2>1 DEF Ups, Downs, Op
    <2> QED BY <1>5, <2>1, <2>10, <2>12, <2>13 DEF PlainInv
  <1>8. CASE Leave(j) \/ RemoveDir(j)
    <2>1. work' = work /\ local' = local /\ DOMAIN remote' \subseteq DOMAIN remote
      BY <1>8 DEF Leave, RemoveDir, setup, sides, Without, Restrict
    <2>2. work[j].op \in Walks /\ stack[j] # <<>> /\ stack[j] \in Seq(Frames)
      BY <1>8, SameWalk, OpFacts DEF Leave, RemoveDir, FilesTyped, StepOK, Inside, Over, Walks
    <2>3. \/ stack' = stack \/ stack' = [stack EXCEPT ![j] = Tail(stack[j])]
      BY <1>8 DEF Leave, RemoveDir
    <2>4. at' = at \/ (work[j].op = "rmrec" /\ \E a : at' = [at EXCEPT ![j] = a])
      BY <1>8 DEF Leave, RemoveDir
    <2>5. work[j].op = "rmrec" => ~Straight(j)
      BY DEF Straight, Ups, Downs, Op, Uploads, Downloads
    <2>6. \A k \in Job : Straight(k) \/ work[k].op \notin Walks => at'[k].tmp = <<>>
      BY <1>6, <2>2, <2>4, <2>5 DEF PlainInv
    <2>7. PICK z : z = Tail(stack[j]) OBVIOUS
    <2>8. Len(z) = Len(stack[j]) - 1 /\ \A n \in 1..Len(z) : z[n] = stack[j][n + 1]
      BY <2>2, <2>7
    <2>9. Len(stack[j]) \in Nat BY <2>2
    <2>10. \A n \in 1..Len(z) : n + 1 \in 1..Len(stack[j]) BY <2>8, <2>9
    <2>11. stack' = stack \/ (stack'[j] = z /\ \A k \in Job \ {j} : stack'[k] = stack[k])
      BY <1>6, <2>3, <2>7
    <2>12. \A k \in Job : Straight(k) =>
           \A n \in 1..Len(stack'[k]) : \A f \in stack'[k][n].left : f.place.tmp = <<>>
      BY <2>8, <2>10, <2>11 DEF PlainInv
    <2>13. Ups' = Ups /\ Downs' = Downs BY <2>1 DEF Ups, Downs, Op
    <2> QED BY <1>5, <2>1, <2>6, <2>12, <2>13 DEF PlainInv
  <1> QED BY <1>1, <1>2, <1>3, <1>4, <1>7, <1>8

(* What is kept stays kept.                                                *)
LEMMA KeptStays ==
  ASSUME \A i \in Kept : i \in DOMAIN data' /\ data'[i] = data[i],
         \A k \in Live' : dst'[k] \notin Kept,
         \A x \in Files(local') : x.tmp # <<>> => local'[x].ino \notin Kept,
         \A x \in Files(remote') : x.tmp # <<>> => remote'[x].ino \notin Kept
  PROVE  Kept \subseteq Kept'
  BY DEF Kept, NotTemp

LEMMA KeptFacts ==
  ASSUME NEW i \in Kept
  PROVE  /\ i \in DOMAIN data /\ Whole(data[i]) /\ \A k \in Live : dst[k] # i
         /\ \A x \in Files(local) : x.tmp # <<>> => local[x].ino # i
         /\ \A x \in Files(remote) : x.tmp # <<>> => remote[x].ino # i
  BY DEF Kept, NotTemp

LEMMA LiveFacts ==
  ASSUME FilesTyped
  PROVE  /\ Live \subseteq Job /\ Live \subseteq Ups \cup Downs
         /\ Ups \cap Downs = {} /\ Ups \subseteq Job /\ Downs \subseteq Job
         /\ \A j \in Live : dst[j] \in DOMAIN data /\ src[j] \in DOMAIN data
  <1>1. \A j \in Live : work[j].op \in Uploads \cup Downloads
    BY OpFacts DEF Live, Opened
  <1>2. \A j \in Live : dst[j] \in DOMAIN data /\ src[j] \in DOMAIN data
    BY DEF Live, FilesTyped, StepOK
  <1> QED BY <1>1, <1>2 DEF Live, Ups, Downs, Op, Uploads, Downloads

(* A job that stays as it is, while what it reads and writes stays.        *)
LEMMA CopiedStays ==
  ASSUME NEW j \in Job, Copied(j), Kept \subseteq Kept',
         pc'[j] = pc[j], at'[j] = at[j], size'[j] = size[j], pos'[j] = pos[j],
         src'[j] = src[j], dst'[j] = dst[j],
         \A i \in Kept : data'[i] = data[i],
         j \in Live => data'[dst[j]] = data[dst[j]]
  PROVE  Copied(j)'
  <1>1. (j \in Live)' <=> j \in Live BY DEF Live
  <1> QED BY <1>1 DEF Copied

(* Nothing is written.                                                     *)
Quiet(j) ==
  /\ UNCHANGED <<data, work, dst, src, pos, count>>
  /\ NoNew(local, local') /\ NoNew(remote, remote')
  /\ \A k \in Job \ {j} : pc'[k] = pc[k] /\ at'[k] = at[k] /\ size'[k] = size[k]
  /\ pc'[j] \in Opened => pc[j] \in Opened /\ at'[j] = at[j]
  /\ pc'[j] \notin Lost => pc[j] \notin Lost
  /\ pc'[j] \notin Lost /\ pc[j] \in Opened => pc'[j] \in Opened

LEMMA QuietKeeps ==
  ASSUME FilesTyped, FilesInv, NEW j \in Job, Quiet(j), PlainInv',
         Kept \subseteq Kept' => Copied(j)'
  PROVE  FilesInv'
  <1>1. Live' \subseteq Live /\ \A k \in Live' : at'[k] = at[k]
    BY DEF Live, Quiet
  <1>2. Kept \subseteq Kept'
    <2>1. \A i \in Kept : i \in DOMAIN data' /\ data'[i] = data[i]
      BY KeptFacts DEF Quiet
    <2>2. \A k \in Live' : dst'[k] \notin Kept
      BY <1>1, KeptFacts DEF Quiet
    <2>3. \A x \in Files(local') : x.tmp # <<>> => local'[x].ino \notin Kept
      BY KeptFacts DEF Quiet, NoNew
    <2>4. \A x \in Files(remote') : x.tmp # <<>> => remote'[x].ino \notin Kept
      BY KeptFacts DEF Quiet, NoNew
    <2> QED BY <2>1, <2>2, <2>3, <2>4, KeptStays
  <1>3. Ups' = Ups /\ Downs' = Downs BY DEF Ups, Downs, Op, Quiet
  <1>4. \A k \in Live' : Temps'[k] = Temps[k] /\ dst'[k] = dst[k]
    BY <1>1, LiveFacts DEF Temps, Quiet
  <1>5. LocalHolds'
    <2>1. Live' \cap Downs \subseteq Live \cap Downs BY <1>1
    <2>2. \A k \in Live' \cap Downs : Temps'[k] = Temps[k] /\ dst'[k] = dst[k]
      BY <1>4
    <2>3. NoNew(local, local') BY DEF Quiet
    <2>4. Holds(local', LocalInodes, Live' \cap Downs, Temps', dst', Kept')
      BY <1>2, <2>1, <2>2, <2>3, HoldsLess DEF FilesInv, LocalHolds
    <2> QED BY <1>3, <2>4 DEF LocalHolds, LocalInodes
  <1>6. RemoteHolds'
    <2>1. Live' \cap Ups \subseteq Live \cap Ups BY <1>1
    <2>2. \A k \in Live' \cap Ups : Temps'[k] = Temps[k] /\ dst'[k] = dst[k]
      BY <1>4
    <2>3. NoNew(remote, remote') BY DEF Quiet
    <2>4. Holds(remote', RemoteInodes, Live' \cap Ups, Temps', dst', Kept')
      BY <1>2, <2>1, <2>2, <2>3, HoldsLess DEF FilesInv, RemoteHolds
    <2> QED BY <1>3, <2>4 DEF RemoteHolds, RemoteInodes
  <1>7. \A k, l \in Live' : dst'[k] = dst'[l] => k = l
    BY <1>1, <1>4 DEF FilesInv
  <1>8. ASSUME NEW k \in Job PROVE Copied(k)' /\ Fresh(k)'
    <2>1. CASE k = j
      <3>1. Copied(k)' BY <1>2, <2>1
      <3>2. Fresh(k)'
        <4>1. Fresh(k) BY DEF FilesInv
        <4>2. pc'[k] \notin Lost => pc[k] \notin Lost /\ ((k \in Live)' <=> k \in Live)
          BY <2>1 DEF Quiet, Live
        <4> QED BY <4>1, <4>2 DEF Fresh, Quiet
      <3> QED BY <3>1, <3>2
    <2>2. CASE k # j
      <3>1. /\ pc'[k] = pc[k] /\ at'[k] = at[k] /\ size'[k] = size[k]
            /\ UNCHANGED <<data, dst, src, pos, count>>
        BY <2>2 DEF Quiet
      <3>2. (k \in Live)' <=> k \in Live BY <3>1 DEF Live
      <3>3. Copied(k)' BY <1>2, <3>1, CopiedStays DEF FilesInv
      <3>4. Fresh(k)' BY <3>1, <3>2 DEF FilesInv, Fresh
      <3> QED BY <3>3, <3>4
    <2> QED BY <2>1, <2>2
  <1> QED BY <1>5, <1>6, <1>7, <1>8 DEF FilesInv

(* An editor replaces a local file.                                        *)
LEMMA EditKeeps ==
  ASSUME TransferAssumption, FilesTyped, FilesInv, NEW p \in Edited, Edit(Plain(p))
  PROVE  FilesInv'
  <1> DEFINE x == Plain(p)  i == <<"edited", x>>
  <1>1. /\ x \in Files(local) /\ x.tmp = <<>> /\ i \notin DOMAIN data
        /\ data' = Put(data, i, <<"edited">>)
        /\ local' = Put(local, x, Node("file", i))
        /\ UNCHANGED <<remote, work, pc, at, size, pos, src, dst, stack, count>>
    BY DEF Edit, Kind, Files, setup, files, walk, report
  <1>2. x \in Places /\ i \in LocalInodes
    BY PlainFacts DEF TransferAssumption, LocalInodes
  <1>3. /\ Live' = Live /\ Ups' = Ups /\ Downs' = Downs /\ Temps' = Temps
    BY <1>1 DEF Live, Ups, Downs, Op, Temps
  <1>4. /\ DOMAIN data' = DOMAIN data \cup {i} /\ data'[i] = <<"edited">>
        /\ \A n \in DOMAIN data : data'[n] = data[n]
    BY <1>1 DEF Put
  <1>5. /\ \A y \in Files(local) : local[y].ino \in DOMAIN data
        /\ \A y \in Files(remote) : remote[y].ino \in DOMAIN data
    BY DEF FilesTyped, SidesTyped, FsTyped
  <1>6. /\ Files(local') = Files(local) /\ local'[x].ino = i
        /\ \A y \in Files(local) \ {x} : local'[y].ino = local[y].ino
    BY <1>1 DEF Put, Node, Files
  <1>7. Kept \subseteq Kept'
    <2>1. \A n \in Kept : n \in DOMAIN data' /\ data'[n] = data[n]
      BY <1>4, KeptFacts
    <2>2. \A k \in Live' : dst'[k] \notin Kept BY <1>1, <1>3, KeptFacts
    <2>3. \A y \in Files(local') : y.tmp # <<>> => local'[y].ino \notin Kept
      BY <1>1, <1>6, KeptFacts
    <2>4. \A y \in Files(remote') : y.tmp # <<>> => remote'[y].ino \notin Kept
      BY <1>1, KeptFacts
    <2> QED BY <2>1, <2>2, <2>3, <2>4, KeptStays
  <1>8. i \in Kept'
    <2>1. Whole(data'[i]) BY <1>4 DEF Whole
    <2>2. \A k \in Live' : dst'[k] # i BY <1>1, <1>3, LiveFacts
    <2>3. NotTemp(local', i) BY <1>1, <1>5, <1>6 DEF NotTemp
    <2>4. NotTemp(remote', i) BY <1>1, <1>5 DEF NotTemp
    <2> QED BY <1>4, <2>1, <2>2, <2>3, <2>4 DEF Kept
  <1>9. LocalHolds'
    <2>1. \A k \in Live \cap Downs : Temps[k] # x /\ dst[k] # i
      BY <1>1, LiveFacts, TempFacts
    <2>2. \A y \in Files(local) : local[y].ino # i BY <1>1, <1>5
    <2>3. Holds(local', LocalInodes, Live \cap Downs, Temps, dst, Kept')
      BY <1>1, <1>2, <1>7, <1>8, <2>1, <2>2, HoldsReplaced DEF FilesInv, LocalHolds
    <2> QED BY <1>1, <1>3, <2>3 DEF LocalHolds, LocalInodes
  <1>10. RemoteHolds'
    <2>1. NoNew(remote, remote') BY <1>1 DEF NoNew
    <2>2. Holds(remote', RemoteInodes, Live \cap Ups, Temps, dst, Kept')
      BY <1>7, <2>1, HoldsLess DEF FilesInv, RemoteHolds
    <2> QED BY <1>1, <1>3, <2>2 DEF RemoteHolds, RemoteInodes
  <1>11. \A k, l \in Live' : dst'[k] = dst'[l] => k = l
    BY <1>1, <1>3 DEF FilesInv
  <1>12. ASSUME NEW k \in Job PROVE Copied(k)' /\ Fresh(k)'
    <2>1. \A n \in Kept : data'[n] = data[n] BY <1>4, KeptFacts
    <2>2. k \in Live => data'[dst[k]] = data[dst[k]] BY <1>4, LiveFacts
    <2>3. Copied(k)' BY <1>1, <1>7, <2>1, <2>2, CopiedStays DEF FilesInv
    <2>4. \A y \in Places, n \in Nat : <<k, y, n>> \in DOMAIN data' =>
            <<k, y, n>> \in DOMAIN data
      <3>1. \A a, b, c, d, e : <<a, b>> # <<c, d, e>> OBVIOUS
      <3> QED BY <1>4, <3>1
    <2>5. Fresh(k)' BY <1>1, <1>3, <2>4 DEF FilesInv, Fresh
    <2> QED BY <2>3, <2>5
  <1>13. PlainInv'
    <2>1. DOMAIN local' = DOMAIN local BY <1>1 DEF Put, Files
    <2>2. \A k \in Job : Straight(k)' = Straight(k) BY <1>3 DEF Straight
    <2> QED BY <1>1, <1>3, <2>1, <2>2 DEF FilesInv, PlainInv
  <1> QED BY <1>9, <1>10, <1>11, <1>12, <1>13 DEF FilesInv

LEMMA FallsLost ==
  ASSUME NEW op
  PROVE  Falls(op) \subseteq Lost /\ Lost \cap Opened = {} /\ Over \subseteq Lost
  BY DEF Falls, Lost, Over, Opened

LEMMA NoNewWays ==
  ASSUME NEW fs
  PROVE  NoNew(fs, fs) /\ \A x : NoNew(fs, Without(fs, x))
  BY DEF NoNew, Without, Restrict, Files

(* A job that does not end up with open files.                             *)
LEMMA ClosedKeeps ==
  ASSUME FilesTyped, FilesInv, PlainInv', NEW j \in Job,
         UNCHANGED <<data, work, dst, src, pos, count>>,
         NoNew(local, local'), NoNew(remote, remote'),
         \A k \in Job \ {j} : at'[k] = at[k] /\ size'[k] = size[k],
         NEW s, pc' = [pc EXCEPT ![j] = s], s \notin Opened,
         s \in Lost \/ pc[j] \notin Lost \cup Opened
  PROVE  FilesInv'
  <1>1. pc'[j] = s /\ \A k \in Job \ {j} : pc'[k] = pc[k]
    BY DEF FilesTyped, JobsTyped
  <1>2. Quiet(j) BY <1>1 DEF Quiet
  <1>3. Copied(j)' BY <1>1 DEF Copied, Live
  <1> QED BY <1>2, <1>3, QuietKeeps

LEMMA GoneKeeps ==
  ASSUME TransferAssumption, FilesTyped, FilesInv, NEW j \in Job,
         RequestFails(j) \/ JobDies(j)
  PROVE  FilesInv'
  <1>1. PlainInv' BY PlainSteps DEF FilesInv
  <1>2. UNCHANGED <<local, remote, data, work, at, size, dst, src, pos, count>>
    BY DEF RequestFails, JobDies, sides, setup, files, report
  <1>3. \E s \in Lost : pc' = [pc EXCEPT ![j] = s]
    <2>1. CASE JobDies(j) BY <2>1 DEF JobDies, Lost, Over
    <2>2. CASE RequestFails(j)
      <3>1. pc[j] \notin Over \cup {"idle", "walk"} BY <2>2 DEF RequestFails
      <3>2. PICK s : /\ pc' = [pc EXCEPT ![j] = s]
                     /\ s = IF pc[j] = "copy" /\ work[j].op \in Downloads
                            THEN "discard" ELSE OnError(pc[j])
        BY <2>2 DEF RequestFails, Downloads
      <3>3. CASE pc[j] = "copy" /\ work[j].op \in Downloads
        BY <3>2, <3>3 DEF Lost
      <3>4. CASE ~(pc[j] = "copy" /\ work[j].op \in Downloads)
        BY <3>1, <3>2, <3>4, Errors, OpFacts, FallsLost
      <3> QED BY <3>3, <3>4
    <2> QED BY <2>1, <2>2
  <1>4. PICK s \in Lost : pc' = [pc EXCEPT ![j] = s] BY <1>3
  <1>5. NoNew(local, local') /\ NoNew(remote, remote') BY <1>2, NoNewWays
  <1>6. s \notin Opened BY FallsLost
  <1> QED BY <1>1, <1>2, <1>4, <1>5, <1>6, ClosedKeeps

(* Steps of jobs that have no files open.                                  *)
LEMMA IdleKeeps ==
  ASSUME TransferAssumption, FilesTyped, FilesInv, NEW j \in Job,
         \/ Transfer(j) \/ TransferDir(j) \/ MkdirRequest(j) \/ ListRequest(j)
         \/ RemoveRequest(j) \/ ChmodRequest(j) \/ UpStat(j) \/ SetMode(j)
         \/ UpCleanUp(j) \/ DownDiscard(j) \/ Unlink(j)
  PROVE  FilesInv'
  <1>1. PlainInv' BY PlainSteps DEF FilesInv
  <1>2. CASE \/ Transfer(j) \/ TransferDir(j) \/ MkdirRequest(j) \/ ListRequest(j)
             \/ RemoveRequest(j) \/ ChmodRequest(j)
    <2>1. PICK ops, first :
            /\ Begins(j, ops, first)
            /\ first \in {"stat", "open", "enter", "mkdir", "list", "unlink", "setmode"}
      BY <1>2 DEF Transfer, TransferDir, MkdirRequest, ListRequest,
                  RemoveRequest, ChmodRequest
    <2>2. PICK s \in {first, "failed"} : pc' = [pc EXCEPT ![j] = s]
      BY <2>1 DEF Begins, Goto
    <2>3. s \notin Opened /\ pc[j] \notin Lost \cup Opened
      BY <2>1 DEF Begins, Opened, Lost, Over
    <2>4. UNCHANGED <<local, remote, data, work, at, size, dst, src, pos, count>>
      BY <2>1 DEF Begins, sides, setup, files, report
    <2>5. NoNew(local, local') /\ NoNew(remote, remote') BY <2>4, NoNewWays
    <2> QED BY <1>1, <2>2, <2>3, <2>4, <2>5, ClosedKeeps
  <1>3. CASE UpStat(j)
    <2>1. PICK s \in {"create", "failed"} : pc' = [pc EXCEPT ![j] = s]
      BY <1>3 DEF UpStat, Goto
    <2>2. s \notin Opened /\ pc[j] \notin Lost \cup Opened
      BY <1>3 DEF UpStat, Opened, Lost, Over
    <2>3. UNCHANGED <<local, remote, data, work, at, dst, src, pos, count>>
      BY <1>3 DEF UpStat, sides, setup, report
    <2>4. \A k \in Job \ {j} : size'[k] = size[k]
      BY <1>3 DEF UpStat, FilesTyped, JobsTyped
    <2>5. NoNew(local, local') /\ NoNew(remote, remote') BY <2>3, NoNewWays
    <2> QED BY <1>1, <2>1, <2>2, <2>3, <2>4, <2>5, ClosedKeeps
  <1>4. CASE SetMode(j)
    <2>1. PICK s \in {"failed", "done"} : pc' = [pc EXCEPT ![j] = s]
      BY <1>4 DEF SetMode, Goto
    <2>2. s \notin Opened /\ s \in Lost
      BY DEF Opened, Lost, Over
    <2>3. UNCHANGED <<local, remote, data, work, at, size, dst, src, pos, count>>
      BY <1>4 DEF SetMode, sides, setup, files, report
    <2>4. NoNew(local, local') /\ NoNew(remote, remote') BY <2>3, NoNewWays
    <2> QED BY <1>1, <2>1, <2>2, <2>3, <2>4, ClosedKeeps
  <1>5. CASE UpCleanUp(j) \/ DownDiscard(j)
    <2>1. pc' = [pc EXCEPT ![j] = "failed"]
      BY <1>5 DEF UpCleanUp, DownDiscard, Goto
    <2>2. "failed" \notin Opened /\ "failed" \in Lost
      BY DEF Opened, Lost, Over
    <2>3. UNCHANGED <<data, work, at, size, dst, src, pos, count>>
      BY <1>5 DEF UpCleanUp, DownDiscard, setup, files, report
    <2>4. NoNew(local, local') /\ NoNew(remote, remote')
      BY <1>5, NoNewWays DEF UpCleanUp, DownDiscard
    <2> QED BY <1>1, <2>1, <2>2, <2>3, <2>4, ClosedKeeps
  <1>6. CASE Unlink(j)
    <2>1. pc[j] = "unlink" BY <1>6 DEF Unlink
    <2>2. \E s \in {"failed", "walk", "done"} \cup Falls(work[j].op) :
             pc' = [pc EXCEPT ![j] = s]
      <3>1. CASE Goto(j, "failed") BY <3>1, GotoTyped
      <3>2. CASE Answered(j, FileDone(j))
        <4>1. PICK t \in {"walk", "done"} : t = FileDone(j) BY DEF FileDone
        <4> QED BY <2>1, <3>2, <4>1, AnsweredTyped DEF Over
      <3> QED BY <1>6, <3>1, <3>2 DEF Unlink
    <2>3. PICK s \in {"failed", "walk", "done"} \cup Falls(work[j].op) :
             pc' = [pc EXCEPT ![j] = s]
      BY <2>2
    <2>4. s \notin Opened BY FallFacts, <2>3 DEF Opened
    <2>5. pc[j] \notin Lost \cup Opened BY <2>1 DEF Lost, Over, Opened
    <2>6. UNCHANGED <<data, work, at, size, dst, src, pos, count>>
      BY <1>6 DEF Unlink, setup, files, report
    <2>7. NoNew(local, local') /\ NoNew(remote, remote')
      BY <1>6, NoNewWays DEF Unlink
    <2> QED BY <1>1, <2>3, <2>4, <2>5, <2>6, <2>7, ClosedKeeps
  <1> QED BY <1>2, <1>3, <1>4, <1>5, <1>6

LEMMA WalkCloses ==
  ASSUME TransferAssumption, FilesTyped, NEW j \in Job,
         \/ Enter(j) \/ Ensure(j) \/ MakeDir(j) \/ ListDir(j) \/ WalkEntry(j)
         \/ Leave(j) \/ RemoveDir(j)
  PROVE  /\ pc[j] \notin Lost \cup Opened
         /\ \E s : pc' = [pc EXCEPT ![j] = s] /\ s \notin Opened
         /\ \A k \in Job \ {j} : at'[k] = at[k]
  <1>1. pc[j] \notin Lost \cup Opened
    BY DEF Enter, Ensure, MakeDir, ListDir, WalkEntry, Leave, RemoveDir, Lost, Over, Opened
  <1>2. \E s : pc' = [pc EXCEPT ![j] = s] /\ s \notin Opened
    <2>1. CASE Enter(j)
      BY <2>1 DEF Enter, Goto, Opened
    <2>2. CASE Ensure(j)
      BY <2>2 DEF Ensure, Goto, Opened
    <2>3. CASE ListDir(j)
      BY <2>3 DEF ListDir, Goto, Opened
    <2>4. CASE Leave(j)
      <3>1. After(j) \notin Opened BY DEF After, Opened
      <3>2. "rmdir" \notin Opened BY DEF Opened
      <3> QED BY <2>4, <3>1, <3>2 DEF Leave, Goto
    <2>5. CASE WalkEntry(j)
      <3>1. stack[j] # <<>> /\ stack[j] \in Seq(Frames) /\ work[j].op \in Walks
        BY <2>5, SameWalk, OpFacts DEF WalkEntry, FilesTyped, StepOK, Inside, Over
      <3>2. stack[j][1] \in Frames BY <3>1, StackFacts
      <3>3. PICK e \in stack[j][1].left : \E t :
              /\ t = Treatment(work[j].op, e)
              /\ Goto(j, IF t \in {"skip", "ignore"} THEN "walk" ELSE t)
        BY <2>5 DEF WalkEntry
      <3>4. PICK t : /\ t = Treatment(work[j].op, e)
                     /\ Goto(j, IF t \in {"skip", "ignore"} THEN "walk" ELSE t)
        BY <3>3
      <3>5. e \in [place : Places, kind : NodeKinds]
        BY <3>2, <3>3 DEF Frames
      <3>6. t \notin {"skip", "ignore"} => t \notin Opened
        BY <3>1, <3>4, <3>5, TreatmentFacts
      <3>7. "walk" \notin Opened BY DEF Opened
      <3> QED BY <3>4, <3>6, <3>7 DEF Goto
    <2>6. CASE MakeDir(j)
      <3>1. pc[j] \notin Over \cup {"idle", "copy"} BY <2>6 DEF MakeDir, Over
      <3>2. PICK t \in {"setmode", "ensure"} :
              Goto(j, "failed") \/ Goto(j, "done") \/ Answered(j, t)
        BY <2>6 DEF MakeDir
      <3>3. {"failed", "done", "setmode", "ensure"} \cap Opened = {} BY DEF Opened
      <3>4. CASE Answered(j, t)
        <4>1. \/ pc' = [pc EXCEPT ![j] = t]
              \/ \E f \in Falls(work[j].op) : pc' = [pc EXCEPT ![j] = f]
          BY <3>1, <3>4, AnsweredTyped
        <4> QED BY <3>3, <4>1, FallFacts
      <3> QED BY <3>2, <3>3, <3>4 DEF Goto
    <2>7. CASE RemoveDir(j)
      <3>1. pc[j] \notin Over \cup {"idle", "copy"} BY <2>7 DEF RemoveDir, Over
      <3>2. PICK t : t = After(j) OBVIOUS
      <3>3. t \notin Opened /\ "failed" \notin Opened BY <3>2 DEF After, Opened
      <3>4. CASE Answered(j, t)
        <4>1. \/ pc' = [pc EXCEPT ![j] = t]
              \/ \E f \in Falls(work[j].op) : pc' = [pc EXCEPT ![j] = f]
          BY <3>1, <3>4, AnsweredTyped
        <4> QED BY <3>3, <4>1, FallFacts
      <3>5. CASE Goto(j, "failed") BY <3>3, <3>5 DEF Goto
      <3> QED BY <2>7, <3>2, <3>4, <3>5 DEF RemoveDir
    <2> QED BY <2>1, <2>2, <2>3, <2>4, <2>5, <2>6, <2>7
  <1>3. \A k \in Job \ {j} : at'[k] = at[k]
    <2>1. at' = at \/ \E a : at' = [at EXCEPT ![j] = a]
      BY DEF Enter, Ensure, MakeDir, ListDir, WalkEntry, Leave, RemoveDir
    <2> QED BY <2>1 DEF FilesTyped, JobsTyped
  <1> QED BY <1>1, <1>2, <1>3

LEMMA WalkKeeps ==
  ASSUME TransferAssumption, FilesTyped, FilesInv, NEW j \in Job,
         \/ Enter(j) \/ Ensure(j) \/ MakeDir(j) \/ ListDir(j) \/ WalkEntry(j)
         \/ Leave(j) \/ RemoveDir(j)
  PROVE  FilesInv'
  <1>1. PlainInv' BY PlainWalk DEF FilesInv
  <1>2. UNCHANGED <<data, work, size, dst, src, pos, count>>
    BY DEF Enter, Ensure, MakeDir, ListDir, WalkEntry, Leave, RemoveDir, sides,
           setup, files, report
  <1>3. \A k \in Job \ {j} : at'[k] = at[k] BY WalkCloses
  <1>4. NoNew(local, local')
    <2>1. CASE Enter(j)
      <3> DEFINE all == Range(Chain(at[j].path))
      <3>1. \/ local' = local
            \/ local' = [y \in DOMAIN local \cup all |->
                           IF y \in DOMAIN local THEN local[y] ELSE Node("dir", NoFile)]
        BY <2>1 DEF Enter
      <3> HIDE DEF all
      <3> QED BY <3>1 DEF NoNew, Node, Files
    <2>2. CASE ~Enter(j)
      <3>1. local' = local
        BY <2>2 DEF Ensure, MakeDir, ListDir, WalkEntry, Leave, RemoveDir, sides
      <3> QED BY <3>1, NoNewWays
    <2> QED BY <2>1, <2>2
  <1>5. NoNew(remote, remote')
    <2>1. CASE MakeDir(j)
      <3>1. \/ remote' = remote
            \/ \E x : Kind(remote, x) = "none" /\ remote' = Put(remote, x, Node("dir", NoFile))
        BY <2>1 DEF MakeDir
      <3>2. CASE remote' = remote BY <3>2, NoNewWays
      <3>3. ASSUME NEW x, Kind(remote, x) = "none",
                   remote' = Put(remote, x, Node("dir", NoFile))
            PROVE  NoNew(remote, remote')
        <4>1. Node("dir", NoFile).kind # "file" BY DEF Node
        <4>2. \A y \in Files(remote') : y # x /\ y \in Files(remote) /\ remote'[y] = remote[y]
          BY <3>3, <4>1 DEF Put, Files
        <4> QED BY <4>2 DEF NoNew
      <3> QED BY <3>1, <3>2, <3>3
    <2>2. CASE ~MakeDir(j)
      <3>1. remote' = remote \/ remote' = Without(remote, at[j])
        BY <2>2 DEF Enter, Ensure, ListDir, WalkEntry, Leave, RemoveDir, sides
      <3> QED BY <3>1, NoNewWays
    <2> QED BY <2>1, <2>2
  <1>6. pc[j] \notin Lost \cup Opened BY WalkCloses
  <1>8. PICK s : pc' = [pc EXCEPT ![j] = s] /\ s \notin Opened BY WalkCloses
  <1> QED BY <1>1, <1>2, <1>3, <1>4, <1>5, <1>6, <1>8, ClosedKeeps

(* A job goes on with what it has open.                                    *)
LEMMA OpenKeeps ==
  ASSUME FilesTyped, FilesInv, PlainInv', NEW j \in Job,
         UNCHANGED <<data, work, at, size, dst, src, pos, count>>,
         NoNew(local, local'), NoNew(remote, remote'),
         NEW s \in Opened, pc' = [pc EXCEPT ![j] = s], pc[j] \in Opened,
         at[j].tmp = <<>> =>
           /\ s \in {"copy", "verify"} => pc[j] \in {"copy", "verify"}
           /\ s = "verify" => \/ pos[j] = Len(data[src[j]])
                              \/ size[j] = Len(data[src[j]])
           /\ s \notin {"copy", "verify"} => data[dst[j]] = data[src[j]]
  PROVE  FilesInv'
  <1>1. pc'[j] = s /\ \A k \in Job \ {j} : pc'[k] = pc[k]
    BY DEF FilesTyped, JobsTyped
  <1>2. Quiet(j) BY <1>1, FallsLost DEF Quiet
  <1>3. j \in Live /\ Copied(j) BY DEF Live, FilesInv
  <1>4. Kept \subseteq Kept' => Copied(j)'
    BY <1>1, <1>3 DEF Copied
  <1> QED BY <1>2, <1>4, QuietKeeps

(* A job with open files gives up, or ends.                                *)
LEMMA FallKeeps ==
  ASSUME FilesTyped, FilesInv, PlainInv', NEW j \in Job,
         UNCHANGED <<data, work, at, size, dst, src, pos, count>>,
         NoNew(local, local'), NoNew(remote, remote'),
         \E s \in Falls(work[j].op) : pc' = [pc EXCEPT ![j] = s]
  PROVE  FilesInv'
  <1>1. PICK s \in Falls(work[j].op) : pc' = [pc EXCEPT ![j] = s] OBVIOUS
  <1>2. s \in Lost /\ s \notin Opened BY <1>1, FallsLost
  <1> QED BY <1>1, <1>2, ClosedKeeps

(* The temporary file is the one the job has open.                         *)
LEMMA OwnTemp ==
  ASSUME FilesTyped, FilesInv, NEW j \in Live
  PROVE  /\ j \in Job /\ j \in Ups \cup Downs
         /\ j \in Ups /\ Kind(remote, TmpOf(at[j], j)) = "file" =>
              remote[TmpOf(at[j], j)].ino = dst[j]
         /\ j \in Downs /\ Kind(local, TmpOf(at[j], j)) = "file" =>
              local[TmpOf(at[j], j)].ino = dst[j]
  <1>1. j \in Job /\ j \in Ups \cup Downs BY LiveFacts
  <1>2. Temps[j] = TmpOf(at[j], j) BY <1>1, TempFacts
  <1> QED BY <1>1, <1>2 DEF FilesInv, LocalHolds, RemoteHolds, Holds, Kind, Files

LEMMA CopiedWhole ==
  ASSUME FilesTyped, FilesInv, NEW j \in Live, at[j].tmp = <<>>,
         pc[j] \in {"copy", "verify"}
  PROVE  /\ pos[j] <= Len(data[src[j]]) /\ Len(data[dst[j]]) = pos[j]
         /\ Len(data[src[j]]) \in 0..2 /\ pos[j] \in 0..2
         /\ pos[j] = Len(data[src[j]]) => data[dst[j]] = data[src[j]]
  <1>1. j \in Job /\ src[j] \in DOMAIN data BY LiveFacts
  <1>2. PICK b \in Contents : b = data[src[j]] BY <1>1 DEF FilesTyped, SidesTyped
  <1>3. PICK n \in 0..2 : n = pos[j] BY <1>1, JobFacts
  <1>4. Part(data[dst[j]], b, n) BY <1>1, <1>2, <1>3 DEF FilesInv, Copied
  <1>5. Len(b) \in 0..2 BY <1>2, LenFacts
  <1>6. n \in Nat /\ n <= Len(b) BY <1>3, <1>4 DEF Part
  <1> QED BY <1>2, <1>3, <1>4, <1>5, <1>6, PartFacts DEF Part

LEMMA VerifyKeeps ==
  ASSUME TransferAssumption, FilesTyped, FilesInv, NEW j \in Job,
         UpVerify(j) \/ ShortWrite(j)
  PROVE  FilesInv'
  <1>1. PlainInv' BY PlainSteps DEF FilesInv
  <1>2. UNCHANGED <<local, remote, data, work, at, size, dst, src, pos, count>>
    BY DEF UpVerify, ShortWrite, sides, setup, files, report
  <1>3. NoNew(local, local') /\ NoNew(remote, remote') BY <1>2, NoNewWays
  <1>4. CASE UpVerify(j)
    <2> DEFINE t == TmpOf(at[j], j)
    <2>1. pc[j] = "verify" /\ j \in Live /\ j \in Ups
      BY <1>4, OpFacts DEF UpVerify, Live, Opened, Ups, Op
    <2>2. CASE Error(j)
      <3>1. \E s \in Falls(work[j].op) : pc' = [pc EXCEPT ![j] = s]
        BY <2>1, <2>2, ErrorTyped DEF Over
      <3> QED BY <1>1, <1>2, <1>3, <3>1, FallKeeps
    <2>3. CASE /\ Kind(remote, t) = "file" /\ Len(data[remote[t].ino]) = size[j]
               /\ Goto(j, "rename")
      <3>1. Len(data[dst[j]]) = size[j] BY <2>1, <2>3, OwnTemp
      <3>2. at[j].tmp = <<>> => data[dst[j]] = data[src[j]]
        BY <2>1, <3>1, CopiedWhole DEF FilesInv, Copied
      <3>3. pc' = [pc EXCEPT ![j] = "rename"] /\ "rename" \in Opened /\ pc[j] \in Opened
        BY <2>1, <2>3 DEF Goto, Opened
      <3> QED BY <1>1, <1>2, <1>3, <3>2, <3>3, OpenKeeps
    <2> QED BY <1>4, <2>2, <2>3 DEF UpVerify
  <1>5. CASE ShortWrite(j)
    <2>1. /\ pc[j] = "copy" /\ pc' = [pc EXCEPT ![j] = "verify"]
          /\ size[j] = Len(data[src[j]])
      BY <1>5 DEF ShortWrite
    <2>2. pc[j] \in Opened /\ "verify" \in Opened BY <2>1 DEF Opened
    <2> QED BY <1>1, <1>2, <1>3, <2>1, <2>2, OpenKeeps
  <1> QED BY <1>4, <1>5

LEMMA CopyEnds ==
  ASSUME TransferAssumption, FilesTyped, FilesInv, NEW j \in Job, Copy(j),
         ~(pos[j] + 1 <= Len(data[src[j]]))
  PROVE  FilesInv'
  <1>1. PlainInv' BY PlainSteps DEF FilesInv
  <1>2. UNCHANGED <<local, remote, data, work, at, size, dst, src, pos, count>>
    BY DEF Copy, setup, report
  <1>3. NoNew(local, local') /\ NoNew(remote, remote') BY <1>2, NoNewWays
  <1>4. pc[j] = "copy" /\ pc[j] \in Opened /\ j \in Live
    BY DEF Copy, Opened, Live
  <1>5. PICK s \in {"verify", "replace"} : pc' = [pc EXCEPT ![j] = s]
    BY DEF Copy, Goto
  <1>6. s \in Opened BY <1>5 DEF Opened
  <1>7. at[j].tmp = <<>> => pos[j] = Len(data[src[j]]) /\ data[dst[j]] = data[src[j]]
    BY <1>4, CopiedWhole
  <1> QED BY <1>1, <1>2, <1>3, <1>4, <1>5, <1>6, <1>7, OpenKeeps

(* The steps of a replacement that do not rename.                          *)
LEMMA ReplaceWaits ==
  ASSUME TransferAssumption, FilesTyped, FilesInv, NEW j \in Job,
         UpRename(j) \/ UpRenameAgain(j) \/ DownReplace(j) \/ UpRemoveOld(j),
         UNCHANGED <<remote, local>> \/ UpRemoveOld(j),
         count' = count
  PROVE  FilesInv'
  <1>1. PlainInv' BY PlainSteps DEF FilesInv
  <1>2. UNCHANGED <<data, work, at, size, dst, src, pos, count>>
    BY DEF UpRename, UpRenameAgain, DownReplace, UpRemoveOld, setup, files
  <1>3. NoNew(local, local') /\ NoNew(remote, remote')
    BY NoNewWays DEF UpRemoveOld
  <1>4. pc[j] \in {"rename", "again", "replace", "remove"}
    BY DEF UpRename, UpRenameAgain, DownReplace, UpRemoveOld
  <1>5. pc[j] \in Opened /\ j \in Live /\ pc[j] \notin Over \cup {"idle", "copy"}
    BY <1>4 DEF Opened, Live, Over
  <1>6. at[j].tmp = <<>> => data[dst[j]] = data[src[j]]
    BY <1>4, <1>5 DEF FilesInv, Copied
  <1>7. \/ Error(j) \/ Goto(j, "remove") \/ Answered(j, "again") \/ Counted(j)
    BY DEF UpRename, UpRenameAgain, DownReplace, UpRemoveOld
  <1>8. ~Counted(j)
    <2>1. count[j] \in Nat /\ count[j] + 1 # count[j] BY JobFacts
    <2> QED BY <2>1 DEF Counted, FilesTyped, JobsTyped
  <1>9. \/ \E s \in {"remove", "again"} : pc' = [pc EXCEPT ![j] = s]
        \/ \E s \in Falls(work[j].op) : pc' = [pc EXCEPT ![j] = s]
    BY <1>5, <1>7, <1>8, ErrorTyped, AnsweredTyped DEF Goto
  <1>10. CASE \E s \in Falls(work[j].op) : pc' = [pc EXCEPT ![j] = s]
    BY <1>1, <1>2, <1>3, <1>10, FallKeeps
  <1>11. CASE \E s \in {"remove", "again"} : pc' = [pc EXCEPT ![j] = s]
    <2>1. PICK s \in {"remove", "again"} : pc' = [pc EXCEPT ![j] = s] BY <1>11
    <2>2. s \in Opened /\ s \notin {"copy", "verify"} BY <2>1 DEF Opened
    <2> QED BY <1>1, <1>2, <1>3, <1>5, <1>6, <2>1, <2>2, OpenKeeps
  <1> QED BY <1>9, <1>10, <1>11

(* The file a transfer opens for writing is nobody else's.                 *)
NewIn(j, fs, dir, i) ==
  /\ data' = Put(data, i, <<>>) /\ DOMAIN data' = DOMAIN data \cup {i}
  /\ dst' = [dst EXCEPT ![j] = i] /\ dst'[j] = i
  /\ pos' = [pos EXCEPT ![j] = 0]
  /\ i \in DOMAIN data \/ i = <<j, Temps[j], count[j]>>
  /\ \A y \in Files(fs) : fs[y].ino = i => y = Temps[j]
  /\ i \notin Kept /\ j \notin Live
  /\ \A k \in Live : dst[k] # i /\ (k \in dir => Temps[k] # Temps[j])

LEMMA NewFile ==
  ASSUME StampsDiffer, NoDetour, FilesTyped, FilesInv, NEW j \in Job,
         pc[j] \in {"create", "open"},
         NEW fs \in {local, remote}, NEW own, NEW dir \in {Ups, Downs},
         FsTyped(fs, DOMAIN data), j \in dir,
         Holds(fs, own, Live \cap dir, Temps, dst, Kept),
         \A k \in Live \ dir : dst[k] \notin own,
         \A x \in Places, n \in Nat : <<j, x, n>> \in own,
         Creates(j, fs, at[j])
  PROVE  \E i \in own : NewIn(j, fs, dir, i)
  <1> DEFINE t == TmpOf(at[j], j)
  <1>1. t = Temps[j] /\ t \in Places /\ t.tmp # <<>> BY TempFacts
  <1>2. at[j] \in Places /\ count[j] \in Nat BY JobFacts
  <1>3. PICK i \in Inodes :
          /\ i = IF Kind(fs, TmpOf(at[j], j)) = "file" THEN fs[TmpOf(at[j], j)].ino
                                        ELSE <<j, TmpOf(at[j], j), count[j]>>
          /\ data' = Put(data, i, <<>>) /\ DOMAIN data' = DOMAIN data \cup {i}
          /\ dst' = [dst EXCEPT ![j] = i] /\ dst'[j] = i
          /\ pos' = [pos EXCEPT ![j] = 0]
    <2>1. PICK x \in Places : x = at[j] BY <1>2
    <2>2. Creates(j, fs, x) BY <2>1
    <2>3. \E i \in Inodes :
           /\ i = IF Kind(fs, TmpOf(x, j)) = "file" THEN fs[TmpOf(x, j)].ino
                                                    ELSE <<j, TmpOf(x, j), count[j]>>
           /\ data' = Put(data, i, <<>>)
           /\ dst' = [dst EXCEPT ![j] = i] /\ dst' \in [Job -> Inodes]
           /\ dst'[j] = i
           /\ pos' = [pos EXCEPT ![j] = 0] /\ pos' \in [Job -> 0..2]
           /\ DOMAIN data' = DOMAIN data \cup {i}
           /\ DOMAIN data' \subseteq Inodes
           /\ \A n \in DOMAIN data' : data'[n] \in Contents
      BY <2>2, CreatesTyped
    <2> QED BY <2>1, <2>3, Zenon
  <1>4. j \notin Live /\ pc[j] \notin Lost
    BY DEF Live, Opened, Lost, Over
  <1>5. \A k \in Live \cap dir : k \in Job /\ Temps[k] # Temps[j]
    <2>1. TAKE k \in Live \cap dir
    <2>2. k \in Job /\ k # j BY <1>4, LiveFacts
    <2>3. {j, k} \subseteq Ups \/ {j, k} \subseteq Downs OBVIOUS
    <2> QED BY <2>2, <2>3, Apart DEF FilesInv
  <1>6. CASE Kind(fs, t) = "file"
    <2>1. t \in Files(fs) /\ i = fs[t].ino BY <1>3, <1>6 DEF Kind, Files
    <2>2. i \in own /\ \A y \in Files(fs) : fs[y].ino = i => y = t
      BY <2>1 DEF Holds
    <2>3. i \in DOMAIN data BY <2>1 DEF FsTyped
    <2>4. i \notin Kept
      <3>2. CASE i \in Kept
        <4> QED BY <1>1, <2>1, <3>2, KeptFacts
      <3> QED BY <3>2
    <2>5. \A k \in Live : dst[k] # i
      <3>1. \A k \in Live \ dir : dst[k] # i BY <2>2
      <3>2. \A k \in Live \cap dir : dst[k] # i
        BY <1>1, <1>5, <2>1 DEF Holds
      <3> QED BY <3>1, <3>2
    <2> QED BY <1>1, <1>3, <1>4, <1>5, <2>2, <2>3, <2>4, <2>5 DEF NewIn
  <1>7. CASE Kind(fs, t) # "file"
    <2>1. i = <<j, t, count[j]>> BY <1>3, <1>7
    <2>2. i \in own BY <1>1, <1>2, <2>1
    <2>3. i \notin DOMAIN data
      <3>1. Fresh(j) BY DEF FilesInv
      <3>2. <<j, t, count[j]>> \in DOMAIN data => count[j] < count[j]
        BY <1>1, <1>2, <1>4, <3>1 DEF Fresh
      <3> QED BY <1>2, <2>1, <3>2
    <2>4. \A y \in Files(fs) : fs[y].ino # i BY <2>3 DEF FsTyped
    <2>5. i \notin Kept /\ \A k \in Live : dst[k] # i
      BY <2>3, KeptFacts, LiveFacts
    <2> QED BY <1>1, <1>3, <1>4, <1>5, <2>1, <2>2, <2>4, <2>5 DEF NewIn
  <1> QED BY <1>6, <1>7

(* A transfer has opened its files.                                        *)
LEMMA CreateKeeps ==
  ASSUME FilesTyped, FilesInv, NEW j \in Job, work' = work, UNCHANGED <<at, size, count>>,
         pc[j] \notin Lost, NEW i, NEW n \in DOMAIN data,
         NEW s \in {"copy"} \cup Falls(work[j].op),
         pc' = [pc EXCEPT ![j] = s], src' = [src EXCEPT ![j] = n],
         at[j].tmp = <<>> => n \in Kept,
         data' = Put(data, i, <<>>), DOMAIN data' = DOMAIN data \cup {i},
         dst' = [dst EXCEPT ![j] = i], pos' = [pos EXCEPT ![j] = 0],
         i \in DOMAIN data \/ i = <<j, Temps[j], count[j]>>,
         i \notin Kept, j \notin Live, \A k \in Live : dst[k] # i,
         \/ local' = local
         \/ local' = Put(local, Temps[j], Node("file", i)),
         \/ remote' = remote
         \/ remote' = Put(remote, Temps[j], Node("file", i))
  PROVE  /\ Kept \subseteq Kept' /\ Live' \subseteq Live \cup {j}
         /\ \A k, l \in Live' : dst'[k] = dst'[l] => k = l
         /\ \A k \in Job : Copied(k)' /\ Fresh(k)'
         /\ \A k \in Live : Temps'[k] = Temps[k] /\ dst'[k] = dst[k]
         /\ Temps'[j] = Temps[j]
  <1>1. /\ pc'[j] = s /\ src'[j] = n /\ dst'[j] = i /\ pos'[j] = 0
        /\ \A k \in Job \ {j} : /\ pc'[k] = pc[k] /\ src'[k] = src[k]
                                /\ dst'[k] = dst[k] /\ pos'[k] = pos[k]
    BY DEF FilesTyped, JobsTyped
  <1>2. Live' \subseteq Live \cup {j} BY <1>1 DEF Live
  <1>3. data'[i] = <<>> /\ \A m \in DOMAIN data \ {i} : data'[m] = data[m]
    BY DEF Put
  <1>4. Live \subseteq Job \ {j} BY LiveFacts
  <1>5. Kept \subseteq Kept'
    <2>1. \A m \in Kept : m \in DOMAIN data' /\ data'[m] = data[m]
      BY <1>3, KeptFacts
    <2>2. \A k \in Live' : dst'[k] \notin Kept
      BY <1>1, <1>2, <1>4, KeptFacts
    <2>3. \A x \in Files(local') : x.tmp # <<>> => local'[x].ino \notin Kept
      BY KeptFacts DEF Put, Node, Files
    <2>4. \A x \in Files(remote') : x.tmp # <<>> => remote'[x].ino \notin Kept
      BY KeptFacts DEF Put, Node, Files
    <2> QED BY <2>1, <2>2, <2>3, <2>4, KeptStays
  <1>6. \A k, l \in Live' : dst'[k] = dst'[l] => k = l
    BY <1>1, <1>2, <1>4 DEF FilesInv
  <1>7. \A m \in Kept : data'[m] = data[m] BY <1>3, KeptFacts
  <1>8. ASSUME NEW k \in Job \ {j} PROVE Copied(k)' /\ Fresh(k)'
    <2>1. k \in Live => data'[dst[k]] = data[dst[k]] BY <1>3, LiveFacts
    <2>2. Copied(k) /\ Fresh(k) BY DEF FilesInv
    <2>3. Copied(k)' BY <1>1, <1>5, <1>7, <2>1, <2>2, CopiedStays
    <2>4. (k \in Live)' <=> k \in Live BY <1>1 DEF Live
    <2>5. \A x \in Places, m \in Nat :
            <<k, x, m>> \in DOMAIN data' => <<k, x, m>> \in DOMAIN data
      OBVIOUS
    <2>6. Fresh(k)' BY <1>1, <2>2, <2>4, <2>5 DEF Fresh
    <2> QED BY <2>3, <2>6
  <1>9. Copied(j)'
    <2>1. SUFFICES ASSUME s \in Opened, at[j].tmp = <<>> PROVE Copied(j)'
      BY <1>1 DEF Copied, Live
    <2>2. s = "copy" BY <2>1, FallFacts
    <2>3. n \in Kept' /\ data'[n] = data[n] BY <1>5, <1>7, <2>1
    <2>4. Part(<<>>, data[n], 0)
      <3>1. PICK b \in Contents : b = data[n] BY DEF FilesTyped, SidesTyped
      <3>2. Len(b) \in 0..2 BY <3>1, LenFacts
      <3>3. <<>> = [m \in 1..0 |-> b[m]] OBVIOUS
      <3> QED BY <3>1, <3>2, <3>3 DEF Part
    <2> QED BY <1>1, <1>3, <2>2, <2>3, <2>4 DEF Copied
  <1>10. Fresh(j)'
    <2>1. SUFFICES ASSUME s \notin Lost PROVE Fresh(j)'
      BY <1>1 DEF Fresh
    <2>2. s = "copy" BY <2>1, FallsLost
    <2>3. (j \in Live)' BY <1>1, <2>2 DEF Live, Opened
    <2>4. count[j] \in Nat BY JobFacts
    <2>5. Fresh(j) BY DEF FilesInv
    <2>6. ASSUME NEW x \in Places, NEW m \in Nat, <<j, x, m>> \in DOMAIN data'
          PROVE  m <= count[j]
      <3>1. CASE <<j, x, m>> \in DOMAIN data
        <4>1. m < count[j] BY <2>5, <3>1 DEF Fresh
        <4> QED BY <2>4, <4>1
      <3>2. CASE <<j, x, m>> = <<j, Temps[j], count[j]>> BY <2>4, <3>2
      <3> QED BY <2>6, <3>1, <3>2
    <2> QED BY <2>3, <2>6 DEF Fresh
  <1> QED BY <1>1, <1>2, <1>4, <1>5, <1>6, <1>8, <1>9, <1>10 DEF Temps

LEMMA DirsApart ==
  ASSUME FilesTyped, FilesInv
  PROVE  /\ \A k \in Live \ Ups : dst[k] \notin RemoteInodes
         /\ \A k \in Live \ Downs : dst[k] \notin LocalInodes
  <1>1. \A k \in Live \cap Downs : dst[k] \in LocalInodes
    BY DEF FilesInv, LocalHolds, Holds
  <1>2. \A k \in Live \cap Ups : dst[k] \in RemoteInodes
    BY DEF FilesInv, RemoteHolds, Holds
  <1> QED BY <1>1, <1>2, SidesApart, LiveFacts

LEMMA UpCreateKeeps ==
  ASSUME TransferAssumption, StampsDiffer, NoDetour, FilesTyped, FilesInv,
         NEW j \in Job, UpCreate(j)
  PROVE  FilesInv'
  <1> DEFINE x == at[j]  t == TmpOf(x, j)
  <1>1. PlainInv' BY PlainSteps DEF FilesInv
  <1>2. /\ pc[j] = "create" /\ work[j].op \in Uploads
        /\ UNCHANGED <<local, work, at, size, count>>
    BY OpFacts DEF UpCreate, setup, report
  <1>3. j \in Ups /\ j \notin Downs /\ Ups' = Ups /\ Downs' = Downs
    BY <1>2 DEF Ups, Downs, Op, Uploads, Downloads
  <1>4. pc[j] \notin Lost \cup Opened /\ pc[j] \notin Over \cup {"idle", "copy"}
    BY <1>2 DEF Lost, Over, Opened
  <1>5. CASE UNCHANGED <<remote, data, pos, src, dst>> /\ (Error(j) \/ Goto(j, "failed"))
    <2>1. \E s \in Falls(work[j].op) : pc' = [pc EXCEPT ![j] = s]
      BY <1>4, <1>5, ErrorTyped DEF Goto, Falls
    <2>2. NoNew(local, local') /\ NoNew(remote, remote') BY <1>2, <1>5, NoNewWays
    <2> QED BY <1>1, <1>2, <1>5, <2>1, <2>2, FallKeeps
  <1>6. CASE /\ Kind(local, x) = "file" /\ Creates(j, remote, x)
             /\ src' = [src EXCEPT ![j] = local[x].ino]
             /\ remote' = Put(remote, t, Node("file", dst'[j]))
             /\ Answered(j, "copy")
    <2>1. t = Temps[j] /\ t \in Places /\ t.tmp # <<>> BY TempFacts
    <2>2. \A y \in Places, n \in Nat : <<j, y, n>> \in RemoteInodes
      BY <1>3 DEF RemoteInodes
    <2>3. FsTyped(remote, DOMAIN data) /\ FsTyped(local, DOMAIN data)
      BY DEF FilesTyped, SidesTyped
    <2>4. Holds(remote, RemoteInodes, Live \cap Ups, Temps, dst, Kept)
      BY DEF FilesInv, RemoteHolds
    <2>5. PICK i \in RemoteInodes : NewIn(j, remote, Ups, i)
      <3>1. \A k \in Live \ Ups : dst[k] \notin RemoteInodes BY DirsApart
      <3>2. Creates(j, remote, at[j]) BY <1>6
      <3>3. pc[j] \in {"create", "open"} BY <1>2
      <3> QED BY <1>3, <2>2, <2>3, <2>4, <3>1, <3>2, <3>3, NewFile
    <2>6. PICK n \in DOMAIN data :
            /\ n = local[x].ino /\ src' = [src EXCEPT ![j] = n]
            /\ at[j].tmp = <<>> => n \in Kept
      <3>1. x \in Files(local) BY <1>6 DEF Kind, Files
      <3> QED BY <1>6, <2>3, <3>1 DEF FsTyped, FilesInv, LocalHolds, Holds
    <2>7. PICK s \in {"copy"} \cup Falls(work[j].op) : pc' = [pc EXCEPT ![j] = s]
      BY <1>4, <1>6, AnsweredTyped
    <2>8. remote' = Put(remote, Temps[j], Node("file", i)) BY <1>6, <2>1, <2>5 DEF NewIn
    <2>9. /\ Kept \subseteq Kept' /\ Live' \subseteq Live \cup {j}
          /\ \A k, l \in Live' : dst'[k] = dst'[l] => k = l
          /\ \A k \in Job : Copied(k)' /\ Fresh(k)'
          /\ \A k \in Live : Temps'[k] = Temps[k] /\ dst'[k] = dst[k]
          /\ Temps'[j] = Temps[j]
      BY <1>2, <1>4, <2>5, <2>6, <2>7, <2>8, CreateKeeps DEF NewIn
    <2>10. LocalHolds'
      <3>1. Live' \cap Downs \subseteq Live \cap Downs BY <1>3, <2>9
      <3>2. NoNew(local, local') BY <1>2, NoNewWays
      <3>3. \A k \in Live' \cap Downs : Temps'[k] = Temps[k] /\ dst'[k] = dst[k]
        BY <2>9, <3>1
      <3>4. Holds(local', LocalInodes, Live' \cap Downs, Temps', dst', Kept')
        BY <2>9, <3>1, <3>2, <3>3, HoldsLess DEF FilesInv, LocalHolds
      <3> QED BY <1>3, <3>4 DEF LocalHolds, LocalInodes
    <2>11. RemoteHolds'
      <3>2. \A k \in Live \cap Ups : /\ Temps'[k] = Temps[k] /\ dst'[k] = dst[k]
                                     /\ Temps[k] # Temps[j] /\ dst[k] # i
        BY <2>5, <2>9 DEF NewIn
      <3>3. j \notin Live /\ Temps[j].tmp # <<>> BY <2>1, <2>5 DEF NewIn
      <3>4. /\ Temps'[j].tmp # <<>> /\ dst'[j] \in RemoteInodes
            /\ \A y \in Files(remote) : remote[y].ino = dst'[j] => y = Temps'[j]
            /\ remote' = Put(remote, Temps'[j], Node("file", dst'[j]))
            /\ \A k \in Live \cap Ups :
                 /\ Temps'[k] = Temps[k] /\ dst'[k] = dst[k]
                 /\ Temps[k] # Temps'[j] /\ dst[k] # dst'[j]
        BY <2>1, <2>5, <2>8, <2>9, <3>2 DEF NewIn
      <3>5. Kept \subseteq Kept' /\ j \notin Live \cap Ups BY <2>9, <3>3
      <3>6. Holds(remote', RemoteInodes, Live' \cap Ups, Temps', dst', Kept')
        BY <2>4, <2>9, <3>3, <3>4, <3>5, HoldsPut
      <3> QED BY <1>3, <3>6 DEF RemoteHolds, RemoteInodes
    <2> QED BY <1>1, <2>9, <2>10, <2>11 DEF FilesInv
  <1> QED BY <1>5, <1>6 DEF UpCreate

LEMMA DownOpenKeeps ==
  ASSUME TransferAssumption, StampsDiffer, NoDetour, FilesTyped, FilesInv,
         NEW j \in Job, DownOpen(j)
  PROVE  FilesInv'
  <1> DEFINE x == at[j]  t == TmpOf(x, j)
  <1>1. PlainInv' BY PlainSteps DEF FilesInv
  <1>2. /\ pc[j] = "open" /\ work[j].op \in Downloads
        /\ UNCHANGED <<remote, work, at, size, count>>
    BY OpFacts DEF DownOpen, setup, report
  <1>3. j \in Downs /\ j \notin Ups /\ Ups' = Ups /\ Downs' = Downs
    BY <1>2 DEF Ups, Downs, Op, Uploads, Downloads
  <1>4. pc[j] \notin Lost \cup Opened /\ pc[j] \notin Over \cup {"idle", "copy"}
    BY <1>2 DEF Lost, Over, Opened
  <1>5. CASE UNCHANGED <<local, data, pos, src, dst>> /\ Error(j)
    <2>1. \E s \in Falls(work[j].op) : pc' = [pc EXCEPT ![j] = s]
      BY <1>4, <1>5, ErrorTyped
    <2>2. NoNew(local, local') /\ NoNew(remote, remote') BY <1>2, <1>5, NoNewWays
    <2> QED BY <1>1, <1>2, <1>5, <2>1, <2>2, FallKeeps
  <1>6. CASE /\ Kind(remote, x) = "file" /\ Creates(j, local, x)
             /\ src' = [src EXCEPT ![j] = remote[x].ino]
             /\ local' = Put(local, t, Node("file", dst'[j]))
             /\ Goto(j, "copy")
    <2>1. t = Temps[j] /\ t \in Places /\ t.tmp # <<>> BY TempFacts
    <2>2. \A y \in Places, n \in Nat : <<j, y, n>> \in LocalInodes
      BY <1>3 DEF LocalInodes
    <2>3. FsTyped(remote, DOMAIN data) /\ FsTyped(local, DOMAIN data)
      BY DEF FilesTyped, SidesTyped
    <2>4. Holds(local, LocalInodes, Live \cap Downs, Temps, dst, Kept)
      BY DEF FilesInv, LocalHolds
    <2>5. PICK i \in LocalInodes : NewIn(j, local, Downs, i)
      <3>1. \A k \in Live \ Downs : dst[k] \notin LocalInodes BY DirsApart
      <3>2. Creates(j, local, at[j]) BY <1>6
      <3>3. pc[j] \in {"create", "open"} BY <1>2
      <3> QED BY <1>3, <2>2, <2>3, <2>4, <3>1, <3>2, <3>3, NewFile
    <2>6. PICK n \in DOMAIN data :
            /\ n = remote[x].ino /\ src' = [src EXCEPT ![j] = n]
            /\ at[j].tmp = <<>> => n \in Kept
      <3>1. x \in Files(remote) BY <1>6 DEF Kind, Files
      <3> QED BY <1>6, <2>3, <3>1 DEF FsTyped, FilesInv, RemoteHolds, Holds
    <2>7. PICK s \in {"copy"} \cup Falls(work[j].op) : pc' = [pc EXCEPT ![j] = s]
      BY <1>6 DEF Goto
    <2>8. local' = Put(local, Temps[j], Node("file", i)) BY <1>6, <2>1, <2>5 DEF NewIn
    <2>9. /\ Kept \subseteq Kept' /\ Live' \subseteq Live \cup {j}
          /\ \A k, l \in Live' : dst'[k] = dst'[l] => k = l
          /\ \A k \in Job : Copied(k)' /\ Fresh(k)'
          /\ \A k \in Live : Temps'[k] = Temps[k] /\ dst'[k] = dst[k]
          /\ Temps'[j] = Temps[j]
      BY <1>2, <1>4, <2>5, <2>6, <2>7, <2>8, CreateKeeps DEF NewIn
    <2>10. RemoteHolds'
      <3>1. Live' \cap Ups \subseteq Live \cap Ups BY <1>3, <2>9
      <3>2. NoNew(remote, remote') BY <1>2, NoNewWays
      <3>3. \A k \in Live' \cap Ups : Temps'[k] = Temps[k] /\ dst'[k] = dst[k]
        BY <2>9, <3>1
      <3>4. Holds(remote', RemoteInodes, Live' \cap Ups, Temps', dst', Kept')
        BY <2>9, <3>1, <3>2, <3>3, HoldsLess DEF FilesInv, RemoteHolds
      <3> QED BY <1>3, <3>4 DEF RemoteHolds, RemoteInodes
    <2>11. LocalHolds'
      <3>2. \A k \in Live \cap Downs : /\ Temps'[k] = Temps[k] /\ dst'[k] = dst[k]
                                       /\ Temps[k] # Temps[j] /\ dst[k] # i
        BY <2>5, <2>9 DEF NewIn
      <3>3. j \notin Live /\ Temps[j].tmp # <<>> BY <2>1, <2>5 DEF NewIn
      <3>4. /\ Temps'[j].tmp # <<>> /\ dst'[j] \in LocalInodes
            /\ \A y \in Files(local) : local[y].ino = dst'[j] => y = Temps'[j]
            /\ local' = Put(local, Temps'[j], Node("file", dst'[j]))
            /\ \A k \in Live \cap Downs :
                 /\ Temps'[k] = Temps[k] /\ dst'[k] = dst[k]
                 /\ Temps[k] # Temps'[j] /\ dst[k] # dst'[j]
        BY <2>1, <2>5, <2>8, <2>9, <3>2 DEF NewIn
      <3>5. Kept \subseteq Kept' /\ j \notin Live \cap Downs BY <2>9, <3>3
      <3>6. Holds(local', LocalInodes, Live' \cap Downs, Temps', dst', Kept')
        BY <2>4, <2>9, <3>3, <3>4, <3>5, HoldsPut
      <3> QED BY <1>3, <3>6 DEF LocalHolds, LocalInodes
    <2> QED BY <1>1, <2>9, <2>10, <2>11 DEF FilesInv
  <1> QED BY <1>5, <1>6 DEF DownOpen

(* One piece more is copied.                                               *)
LEMMA CopyPiece ==
  ASSUME TransferAssumption, FilesTyped, FilesInv, NEW j \in Job, Copy(j),
         pos[j] + 1 <= Len(data[src[j]])
  PROVE  FilesInv'
  <1>1. PlainInv' BY PlainSteps DEF FilesInv
  <1>2. PICK k, to, from, d :
          /\ k = pos[j] + 1 /\ from = data[src[j]] /\ d = dst[j] /\ to = data[d]
    OBVIOUS
  <1>3. /\ pc[j] = "copy" /\ data' = [data EXCEPT ![d] = Written(to, from, k)]
        /\ pos' = [pos EXCEPT ![j] = k] /\ pc' = [pc EXCEPT ![j] = "copy"]
        /\ UNCHANGED <<local, remote, work, at, size, src, dst, count>>
    BY <1>2 DEF Copy, Goto, Written, setup, report
  <1>4. pc' = pc BY <1>3 DEF FilesTyped, JobsTyped
  <1>5. j \in Live BY <1>3 DEF Live, Opened
  <1>6. Live' = Live /\ Temps' = Temps /\ Ups' = Ups /\ Downs' = Downs
    BY <1>3, <1>4 DEF Live, Temps, Ups, Downs, Op
  <1>7. /\ d \in DOMAIN data /\ src[j] \in DOMAIN data
        /\ DOMAIN data' = DOMAIN data /\ data'[d] = Written(to, from, k)
        /\ \A i \in DOMAIN data \ {d} : data'[i] = data[i]
    BY <1>2, <1>3, <1>5, LiveFacts
  <1>8. \A i \in Kept : i # d /\ i \in DOMAIN data' /\ data'[i] = data[i]
    BY <1>2, <1>5, <1>7, KeptFacts
  <1>9. Kept \subseteq Kept'
    <2>1. \A l \in Live' : dst'[l] \notin Kept BY <1>3, <1>6, KeptFacts
    <2>2. \A x \in Files(local') : x.tmp # <<>> => local'[x].ino \notin Kept
      BY <1>3, KeptFacts
    <2>3. \A x \in Files(remote') : x.tmp # <<>> => remote'[x].ino \notin Kept
      BY <1>3, KeptFacts
    <2> QED BY <1>8, <2>1, <2>2, <2>3, KeptStays
  <1>10. NoNew(local, local') /\ NoNew(remote, remote') BY <1>3, NoNewWays
  <1>11. LocalHolds'
    <2>1. Holds(local', LocalInodes, Live \cap Downs, Temps, dst, Kept')
      BY <1>9, <1>10, HoldsLess DEF FilesInv, LocalHolds
    <2> QED BY <1>3, <1>6, <2>1 DEF LocalHolds, LocalInodes
  <1>12. RemoteHolds'
    <2>1. Holds(remote', RemoteInodes, Live \cap Ups, Temps, dst, Kept')
      BY <1>9, <1>10, HoldsLess DEF FilesInv, RemoteHolds
    <2> QED BY <1>3, <1>6, <2>1 DEF RemoteHolds, RemoteInodes
  <1>13. \A l, m \in Live' : dst'[l] = dst'[m] => l = m
    BY <1>3, <1>6 DEF FilesInv
  <1>14. \A l \in Job : Fresh(l)'
    BY <1>3, <1>4, <1>6, <1>7 DEF FilesInv, Fresh
  <1>15. ASSUME NEW l \in Job \ {j} PROVE Copied(l)'
    <2>1. l \in Live => dst[l] # d BY <1>2, <1>5 DEF FilesInv
    <2>2. l \in Live => data'[dst[l]] = data[dst[l]] BY <1>7, <2>1, LiveFacts
    <2>3. pos'[l] = pos[l] BY <1>3 DEF FilesTyped, JobsTyped
    <2> QED BY <1>3, <1>4, <1>8, <1>9, <2>2, <2>3, CopiedStays DEF FilesInv
  <1>16. Copied(j)'
    <2>1. SUFFICES ASSUME at[j].tmp = <<>> PROVE Copied(j)'
      BY <1>3 DEF Copied
    <2>2. src[j] \in Kept /\ Part(to, from, pos[j])
      BY <1>2, <1>3, <1>5, <2>1 DEF FilesInv, Copied
    <2>3. data'[src[j]] = from BY <1>2, <1>8, <2>2
    <2>4. pos'[j] = k BY <1>3 DEF FilesTyped, JobsTyped
    <2>5. Part(Written(to, from, k), from, k)
      <3>1. PICK n \in 0..2 : n = pos[j] BY JobFacts
      <3>2. PICK m \in 0..2 : m = Len(from)
        BY <1>2, <1>7, LenFacts DEF FilesTyped, SidesTyped
      <3>3. k = n + 1 /\ k <= m BY <1>2, <3>1, <3>2
      <3>4. from \in Contents BY <1>2, <1>7 DEF FilesTyped, SidesTyped
      <3>5. to = [i \in 1..n |-> from[i]] /\ Len(to) = n
        <4>1. Part(to, from, n) BY <2>2, <3>1
        <4>2. n \in Nat /\ n <= Len(from) BY <3>2, <3>3
        <4> QED BY <3>4, <4>1, <4>2, PartFacts DEF Part
      <3>6. \A i \in 1..k : i = k \/ (i \in 1..n /\ i <= Len(to) /\ to[i] = from[i])
        BY <3>1, <3>3, <3>5
      <3>7. ~(Len(to) > k) BY <3>1, <3>3, <3>5
      <3>8. Written(to, from, k) = [i \in 1..k |-> from[i]]
        BY <3>6, <3>7 DEF Written
      <3> QED BY <3>2, <3>3, <3>8 DEF Part
    <2> QED BY <1>2, <1>3, <1>4, <1>7, <1>9, <2>2, <2>3, <2>4, <2>5 DEF Copied
  <1> QED BY <1>1, <1>11, <1>12, <1>13, <1>14, <1>15, <1>16 DEF FilesInv

LEMMA CopyKeeps ==
  ASSUME TransferAssumption, FilesTyped, FilesInv, NEW j \in Job, Copy(j)
  PROVE  FilesInv'
  BY CopyPiece, CopyEnds

(* The temporary file takes the place of its target.                       *)
LEMMA MoveKeeps ==
  ASSUME FilesTyped, FilesInv, NEW j \in Live,
         UNCHANGED <<data, work, at, size, pos, src, dst>>, Counted(j),
         pc[j] \in {"rename", "again", "replace"},
         NEW s \in {"walk", "done"} \cup Falls(work[j].op),
         pc' = [pc EXCEPT ![j] = s],
         \A x \in Files(local') : \/ x \in Files(local) /\ local'[x].ino = local[x].ino
                                  \/ x = at[j] /\ local'[x].ino = dst[j],
         \A x \in Files(remote') : \/ x \in Files(remote) /\ remote'[x].ino = remote[x].ino
                                   \/ x = at[j] /\ remote'[x].ino = dst[j],
         at[j].tmp = <<>> => NotTemp(local', dst[j]) /\ NotTemp(remote', dst[j])
  PROVE  /\ Kept \subseteq Kept' /\ Live' = Live \ {j} /\ Temps' = Temps
         /\ at[j].tmp = <<>> => dst[j] \in Kept'
         /\ \A k, l \in Live' : dst'[k] = dst'[l] => k = l
         /\ \A k \in Job : Copied(k)' /\ Fresh(k)'
  <1>1. j \in Job BY LiveFacts
  <1>2. s \notin Opened BY FallFacts DEF Opened
  <1>3. pc'[j] = s /\ \A k \in Job \ {j} : pc'[k] = pc[k]
    BY <1>1 DEF FilesTyped, JobsTyped
  <1>4. Live' = Live \ {j} BY <1>1, <1>2, <1>3 DEF Live
  <1>5. Temps' = Temps BY DEF Temps
  <1>6. \A i \in Kept : i # dst[j] BY KeptFacts
  <1>7. Kept \subseteq Kept'
    <2>1. \A i \in Kept : i \in DOMAIN data' /\ data'[i] = data[i] BY KeptFacts
    <2>2. \A l \in Live' : dst'[l] \notin Kept BY <1>4, KeptFacts
    <2>3. \A x \in Files(local') : x.tmp # <<>> => local'[x].ino \notin Kept
      BY <1>6, KeptFacts
    <2>4. \A x \in Files(remote') : x.tmp # <<>> => remote'[x].ino \notin Kept
      BY <1>6, KeptFacts
    <2> QED BY <2>1, <2>2, <2>3, <2>4, KeptStays
  <1>8. at[j].tmp = <<>> => dst[j] \in Kept'
    <2>1. SUFFICES ASSUME at[j].tmp = <<>> PROVE dst[j] \in Kept' OBVIOUS
    <2>2. data[dst[j]] = data[src[j]] /\ src[j] \in Kept
      BY <1>1, <2>1 DEF FilesInv, Copied
    <2>3. Whole(data[dst[j]]) BY <2>2, KeptFacts
    <2>4. \A l \in Live' : dst'[l] # dst[j] BY <1>4 DEF FilesInv
    <2>5. dst[j] \in DOMAIN data BY LiveFacts
    <2> QED BY <2>1, <2>3, <2>4, <2>5 DEF Kept
  <1>9. \A k, l \in Live' : dst'[k] = dst'[l] => k = l BY <1>4 DEF FilesInv
  <1>10. count'[j] = count[j] + 1 /\ \A k \in Job \ {j} : count'[k] = count[k]
    BY <1>1 DEF Counted, FilesTyped, JobsTyped
  <1>11. ASSUME NEW k \in Job \ {j} PROVE Copied(k)' /\ Fresh(k)'
    <2>1. Copied(k)' BY <1>3, <1>7, CopiedStays DEF FilesInv
    <2>2. (k \in Live)' <=> k \in Live BY <1>4
    <2> QED BY <1>3, <1>10, <2>1, <2>2 DEF FilesInv, Fresh
  <1>12. Copied(j)' BY <1>4 DEF Copied
  <1>13. Fresh(j)'
    <2>1. count[j] \in Nat BY <1>1, JobFacts
    <2>2. pc[j] \notin Lost BY DEF Lost, Over
    <2>3. \A x \in Places, n \in Nat : <<j, x, n>> \in DOMAIN data => n <= count[j]
      BY <1>1, <2>2 DEF FilesInv, Fresh
    <2>4. \A n \in Nat : n <= count[j] => n < count[j] + 1 BY <2>1
    <2> QED BY <1>4, <1>10, <2>3, <2>4 DEF Fresh
  <1> QED BY <1>4, <1>5, <1>7, <1>8, <1>9, <1>11, <1>12, <1>13

(* The rename of an upload, and of a download.                             *)
LEMMA UpMoves ==
  ASSUME StampsDiffer, NoDetour, FilesTyped, FilesInv, PlainInv', NEW j \in Job,
         pc[j] \in {"rename", "again"}, Kind(remote, TmpOf(at[j], j)) = "file",
         remote' = Moved(remote, TmpOf(at[j], j), at[j]), Counted(j),
         NEW s \in {"walk", "done"} \cup Falls(work[j].op),
         pc' = [pc EXCEPT ![j] = s],
         UNCHANGED <<local, data, work, at, size, pos, src, dst>>
  PROVE  FilesInv'
  <1>1. j \in Live /\ j \in Ups /\ Ups' = Ups /\ Downs' = Downs /\ j \notin Downs
    BY OpFacts DEF Live, Opened, Ups, Downs, Op, Uploads, Downloads
  <1>2. PICK t : t = Temps[j] OBVIOUS
  <1>3. /\ t = TmpOf(at[j], j) /\ t # at[j] /\ t.tmp # <<>> /\ t \in Files(remote)
        /\ remote' = Moved(remote, t, at[j])
    BY <1>2, TempFacts DEF Kind, Files
  <1>4. Holds(remote, RemoteInodes, Live \cap Ups, Temps, dst, Kept)
    BY DEF FilesInv, RemoteHolds
  <1>5. /\ remote[t].ino = dst[j]
        /\ \A x \in Files(remote) : remote[x].ino = dst[j] => x = t
    BY <1>1, <1>2, <1>3, <1>4 DEF Holds
  <1>6. /\ Files(remote') = (Files(remote) \ {t}) \cup {at[j]}
        /\ remote'[at[j]].ino = dst[j]
        /\ \A x \in Files(remote) \ {t, at[j]} : remote'[x].ino = remote[x].ino
    BY <1>3, <1>5 DEF Moved, Put, Without, Restrict, Files
  <1>7. dst[j] \in RemoteInodes BY <1>1, <1>4 DEF Holds
  <1>8. \A x \in Files(local) : local[x].ino \in LocalInodes
    BY DEF FilesInv, LocalHolds, Holds
  <1>9. NotTemp(local', dst[j])
    BY <1>7, <1>8, SidesApart DEF NotTemp
  <1>10. at[j].tmp = <<>> => NotTemp(remote', dst[j])
    BY <1>5, <1>6 DEF NotTemp
  <1>11. /\ Kept \subseteq Kept' /\ Live' = Live \ {j} /\ Temps' = Temps
         /\ at[j].tmp = <<>> => dst[j] \in Kept'
         /\ \A k, l \in Live' : dst'[k] = dst'[l] => k = l
         /\ \A k \in Job : Copied(k)' /\ Fresh(k)'
    BY <1>1, <1>6, <1>9, <1>10, MoveKeeps
  <1>12. RemoteHolds'
    <2>1. \A k \in (Live \cap Ups) \ {j} : Temps[k] # Temps[j] /\ Temps[k] # at[j]
      <3>1. TAKE k \in (Live \cap Ups) \ {j}
      <3>2. k \in Job /\ k # j BY LiveFacts
      <3>3. {j, k} \subseteq Ups BY <1>1
      <3> QED BY <3>2, <3>3, Apart DEF FilesInv
    <2>2. j \in Live \cap Ups BY <1>1
    <2>3. Holds(remote', RemoteInodes, Live' \cap Ups, Temps', dst', Kept')
      <3>1. /\ Temps[j] \in Files(remote) /\ at[j] # Temps[j]
            /\ remote' = Moved(remote, Temps[j], at[j])
        BY <1>2, <1>3
      <3>2. UNCHANGED <<Temps, dst>> BY <1>11
      <3>3. /\ Live' = Live \ {j} /\ Kept \subseteq Kept'
            /\ at[j].tmp = <<>> => dst[j] \in Kept'
        BY <1>11
      <3> QED BY <1>4, <2>1, <2>2, <3>1, <3>2, <3>3, HoldsMoved
    <2> QED BY <1>1, <2>3 DEF RemoteHolds, RemoteInodes
  <1>13. LocalHolds'
    <2>1. Live' \cap Downs \subseteq Live \cap Downs BY <1>11
    <2>2. NoNew(local, local') BY NoNewWays
    <2>3. Holds(local', LocalInodes, Live' \cap Downs, Temps, dst, Kept')
      BY <1>11, <2>1, <2>2, HoldsLess DEF FilesInv, LocalHolds
    <2> QED BY <1>1, <1>11, <2>3 DEF LocalHolds, LocalInodes
  <1> QED BY <1>11, <1>12, <1>13 DEF FilesInv

LEMMA DownMoves ==
  ASSUME StampsDiffer, NoDetour, FilesTyped, FilesInv, PlainInv', NEW j \in Job,
         pc[j] \in {"replace"}, Kind(local, TmpOf(at[j], j)) = "file",
         local' = Moved(local, TmpOf(at[j], j), at[j]), Counted(j),
         NEW s \in {"walk", "done"} \cup Falls(work[j].op),
         pc' = [pc EXCEPT ![j] = s],
         UNCHANGED <<remote, data, work, at, size, pos, src, dst>>
  PROVE  FilesInv'
  <1>1. j \in Live /\ j \in Downs /\ Downs' = Downs /\ Ups' = Ups /\ j \notin Ups
    BY OpFacts DEF Live, Opened, Downs, Ups, Op, Uploads, Downloads
  <1>2. PICK t : t = Temps[j] OBVIOUS
  <1>3. /\ t = TmpOf(at[j], j) /\ t # at[j] /\ t.tmp # <<>> /\ t \in Files(local)
        /\ local' = Moved(local, t, at[j])
    BY <1>2, TempFacts DEF Kind, Files
  <1>4. Holds(local, LocalInodes, Live \cap Downs, Temps, dst, Kept)
    BY DEF FilesInv, LocalHolds
  <1>5. /\ local[t].ino = dst[j]
        /\ \A x \in Files(local) : local[x].ino = dst[j] => x = t
    BY <1>1, <1>2, <1>3, <1>4 DEF Holds
  <1>6. /\ Files(local') = (Files(local) \ {t}) \cup {at[j]}
        /\ local'[at[j]].ino = dst[j]
        /\ \A x \in Files(local) \ {t, at[j]} : local'[x].ino = local[x].ino
    BY <1>3, <1>5 DEF Moved, Put, Without, Restrict, Files
  <1>7. dst[j] \in LocalInodes BY <1>1, <1>4 DEF Holds
  <1>8. \A x \in Files(remote) : remote[x].ino \in RemoteInodes
    BY DEF FilesInv, RemoteHolds, Holds
  <1>9. NotTemp(remote', dst[j])
    BY <1>7, <1>8, SidesApart DEF NotTemp
  <1>10. at[j].tmp = <<>> => NotTemp(local', dst[j])
    BY <1>5, <1>6 DEF NotTemp
  <1>11. /\ Kept \subseteq Kept' /\ Live' = Live \ {j} /\ Temps' = Temps
         /\ at[j].tmp = <<>> => dst[j] \in Kept'
         /\ \A k, l \in Live' : dst'[k] = dst'[l] => k = l
         /\ \A k \in Job : Copied(k)' /\ Fresh(k)'
    BY <1>1, <1>6, <1>9, <1>10, MoveKeeps
  <1>12. LocalHolds'
    <2>1. \A k \in (Live \cap Downs) \ {j} : Temps[k] # Temps[j] /\ Temps[k] # at[j]
      <3>1. TAKE k \in (Live \cap Downs) \ {j}
      <3>2. k \in Job /\ k # j BY LiveFacts
      <3>3. {j, k} \subseteq Downs BY <1>1
      <3> QED BY <3>2, <3>3, Apart DEF FilesInv
    <2>2. j \in Live \cap Downs BY <1>1
    <2>3. Holds(local', LocalInodes, Live' \cap Downs, Temps', dst', Kept')
      <3>1. /\ Temps[j] \in Files(local) /\ at[j] # Temps[j]
            /\ local' = Moved(local, Temps[j], at[j])
        BY <1>2, <1>3
      <3>2. UNCHANGED <<Temps, dst>> BY <1>11
      <3>3. /\ Live' = Live \ {j} /\ Kept \subseteq Kept'
            /\ at[j].tmp = <<>> => dst[j] \in Kept'
        BY <1>11
      <3> QED BY <1>4, <2>1, <2>2, <3>1, <3>2, <3>3, HoldsMoved
    <2> QED BY <1>1, <2>3 DEF LocalHolds, LocalInodes
  <1>13. RemoteHolds'
    <2>1. Live' \cap Ups \subseteq Live \cap Ups BY <1>11
    <2>2. NoNew(remote, remote') BY NoNewWays
    <2>3. Holds(remote', RemoteInodes, Live' \cap Ups, Temps, dst, Kept')
      BY <1>11, <2>1, <2>2, HoldsLess DEF FilesInv, RemoteHolds
    <2> QED BY <1>1, <1>11, <2>3 DEF RemoteHolds, RemoteInodes
  <1> QED BY <1>11, <1>12, <1>13 DEF FilesInv

LEMMA MovesKeep ==
  ASSUME TransferAssumption, StampsDiffer, NoDetour, FilesTyped, FilesInv,
         NEW j \in Job, UpRename(j) \/ UpRenameAgain(j) \/ DownReplace(j)
  PROVE  FilesInv'
  <1> DEFINE x == at[j]  t == TmpOf(x, j)
  <1>1. PlainInv' BY PlainSteps DEF FilesInv
  <1>2. UNCHANGED <<data, work, at, size, pos, src, dst>>
    BY DEF UpRename, UpRenameAgain, DownReplace, setup, files
  <1>3. pc[j] \in {"rename", "again", "replace"} /\ pc[j] \notin Over \cup {"idle", "copy"}
    BY DEF UpRename, UpRenameAgain, DownReplace, Over
  <1>4. CASE UNCHANGED <<remote, local, count>>
    BY <1>4, ReplaceWaits
  <1>5. CASE /\ pc[j] \in {"rename", "again"} /\ Kind(remote, t) = "file"
             /\ remote' = Moved(remote, t, x) /\ Counted(j)
             /\ Answered(j, FileDone(j)) /\ local' = local
    <2>1. PICK s \in {"walk", "done"} \cup Falls(work[j].op) : pc' = [pc EXCEPT ![j] = s]
      BY <1>3, <1>5, AnsweredTyped DEF FileDone
    <2> QED BY <1>1, <1>2, <1>5, <2>1, UpMoves
  <1>6. CASE /\ pc[j] = "replace" /\ Kind(local, t) = "file"
             /\ local' = Moved(local, t, x) /\ Counted(j)
             /\ Goto(j, FileDone(j)) /\ remote' = remote
    <2>1. PICK s \in {"walk", "done"} \cup Falls(work[j].op) : pc' = [pc EXCEPT ![j] = s]
      BY <1>6 DEF Goto, FileDone
    <2> QED BY <1>1, <1>2, <1>6, <2>1, DownMoves
  <1>7. CASE UpRename(j) BY <1>4, <1>5, <1>7 DEF UpRename
  <1>8. CASE UpRenameAgain(j) BY <1>4, <1>5, <1>8 DEF UpRenameAgain
  <1>9. CASE DownReplace(j) BY <1>4, <1>6, <1>9 DEF DownReplace
  <1> QED BY <1>7, <1>8, <1>9

(* Every step keeps the files whole.                                       *)
LEMMA FilesStep ==
  ASSUME TransferAssumption, StampsDiffer, NoDetour, FilesTyped, FilesInv,
         [TransferNext]_transferVars
  PROVE  FilesInv' /\ NoDetour'
  <1>1. work' = work => NoDetour' BY DEF NoDetour, Ups, Downs, Op
  <1>2. CASE UNCHANGED transferVars
    <2>1. UNCHANGED <<local, remote, data, work, pc, at, size, pos, src, dst, stack, count>>
      BY <1>2 DEF transferVars, sides, setup, files, walk, report
    <2>2. /\ Live' = Live /\ Temps' = Temps /\ Ups' = Ups /\ Downs' = Downs
      BY <2>1 DEF Live, Temps, Ups, Downs, Op
    <2>3. Kept' = Kept /\ LocalInodes' = LocalInodes /\ RemoteInodes' = RemoteInodes
      BY <2>1, <2>2 DEF Kept, NotTemp, LocalInodes, RemoteInodes
    <2>4. /\ PlainInv' /\ LocalHolds' /\ RemoteHolds'
      BY <2>1, <2>2, <2>3 DEF FilesInv, PlainInv, Straight, LocalHolds, RemoteHolds
    <2>5. \A j \in Job : Copied(j)' /\ Fresh(j)'
      BY <2>1, <2>2, <2>3 DEF FilesInv, Copied, Fresh
    <2> QED BY <1>1, <2>1, <2>2, <2>4, <2>5 DEF FilesInv
  <1>3. CASE \E p \in Edited : Edit(Plain(p))
    BY <1>1, <1>3, EditKeeps DEF Edit, setup
  <1>4. ASSUME NEW j \in Job, RequestFails(j) \/ JobDies(j) \/ ShortWrite(j) \/ JobStep(j)
        PROVE  FilesInv' /\ work' = work
    <2>1. CASE \/ Transfer(j) \/ TransferDir(j) \/ MkdirRequest(j) \/ ListRequest(j)
               \/ RemoveRequest(j) \/ ChmodRequest(j) \/ UpStat(j) \/ SetMode(j)
               \/ UpCleanUp(j) \/ DownDiscard(j) \/ Unlink(j)
      BY <2>1, IdleKeeps, PlainSteps DEF FilesInv
    <2>2. CASE \/ Enter(j) \/ Ensure(j) \/ MakeDir(j) \/ ListDir(j) \/ WalkEntry(j)
               \/ Leave(j) \/ RemoveDir(j)
      <3>1. work' = work
        BY <2>2 DEF Enter, Ensure, MakeDir, ListDir, WalkEntry, Leave, RemoveDir, setup
      <3> QED BY <2>2, <3>1, WalkKeeps
    <2>3. CASE RequestFails(j) \/ JobDies(j)
      BY <2>3, GoneKeeps, PlainSteps DEF FilesInv
    <2>4. CASE ShortWrite(j) \/ UpVerify(j)
      BY <2>4, VerifyKeeps, PlainSteps DEF FilesInv
    <2>5. CASE UpCreate(j) BY <2>5, UpCreateKeeps, PlainSteps DEF FilesInv
    <2>6. CASE DownOpen(j) BY <2>6, DownOpenKeeps, PlainSteps DEF FilesInv
    <2>7. CASE Copy(j) BY <2>7, CopyKeeps, PlainSteps DEF FilesInv
    <2>8. CASE UpRename(j) \/ UpRenameAgain(j) \/ DownReplace(j)
      BY <2>8, MovesKeep, PlainSteps DEF FilesInv
    <2>9. CASE UpRemoveOld(j)
      <3>1. count' = count BY <2>9 DEF UpRemoveOld, report
      <3> QED BY <2>9, <3>1, ReplaceWaits, PlainSteps DEF FilesInv
    <2> QED BY <1>4, <2>1, <2>2, <2>3, <2>4, <2>5, <2>6, <2>7, <2>8, <2>9 DEF JobStep
  <1> QED BY <1>1, <1>2, <1>3, <1>4 DEF TransferNext

(* At first nothing is open, and every file is as it was found.            *)
LEMMA FilesInit ==
  ASSUME TransferAssumption, TransferInit
  PROVE  FilesInv
  <1>1. FilesTyped BY TypedInit
  <1>2. pc = [j \in Job |-> "idle"] BY DEF TransferInit
  <1>3. Live = {} BY <1>2 DEF Live, Opened
  <1>4. /\ \A x \in DOMAIN local : x \in Places /\ x.tmp = <<>>
        /\ \A x \in DOMAIN remote : x \in Places /\ x.tmp = <<>>
        /\ \A x \in Files(local) : local[x].ino = <<"local", x>>
        /\ \A x \in Files(remote) : remote[x].ino = <<"remote", x>>
    BY InitFiles
  <1>5. PlainInv
    <2>1. \A j \in Job : at[j] = Plain(work[j].path) /\ stack[j] = <<>>
      BY DEF TransferInit
    <2>2. ASSUME NEW j \in Job PROVE at[j].tmp = <<>>
      <3>1. PICK p : at[j] = Plain(p) BY <2>1
      <3> QED BY <3>1 DEF Plain
    <2>3. \A j \in Job : 1..Len(stack[j]) = {} BY <2>1
    <2> QED BY <1>4, <2>2, <2>3 DEF PlainInv
  <1>6. Kept = DOMAIN data
    <2>1. ASSUME NEW i \in DOMAIN data PROVE Whole(data[i])
      <3>1. PICK s \in {"local", "remote"} : i[1] = s BY InitFiles
      <3>2. data[i] = <<s, s>> BY <3>1, InitFiles
      <3> QED BY <3>2 DEF Whole
    <2>2. \A i : NotTemp(local, i) /\ NotTemp(remote, i)
      BY <1>4 DEF NotTemp, Files
    <2> QED BY <1>3, <2>1, <2>2 DEF Kept
  <1>7. \A x \in Files(local) : local[x].ino \in Kept
    BY <1>1, <1>6 DEF FilesTyped, SidesTyped, FsTyped
  <1>8. \A x \in Files(remote) : remote[x].ino \in Kept
    BY <1>1, <1>6 DEF FilesTyped, SidesTyped, FsTyped
  <1>9. LocalHolds
    <2>1. ASSUME NEW x \in Files(local) PROVE local[x].ino \in LocalInodes
      <3>1. x \in Places /\ local[x].ino = <<"local", x>> BY <1>4 DEF Files
      <3>2. <<"local", x>> \in LocalInodes BY <3>1 DEF LocalInodes
      <3> QED BY <3>1, <3>2
    <2>2. \A x, y \in Files(local) : local[x].ino = local[y].ino => x = y BY <1>4
    <2> QED BY <1>3, <1>7, <2>1, <2>2 DEF LocalHolds, Holds
  <1>10. RemoteHolds
    <2>1. ASSUME NEW x \in Files(remote) PROVE remote[x].ino \in RemoteInodes
      <3>1. x \in Places /\ remote[x].ino = <<"remote", x>> BY <1>4 DEF Files
      <3>2. <<"remote", x>> \in RemoteInodes BY <3>1 DEF RemoteInodes
      <3> QED BY <3>1, <3>2
    <2>2. \A x, y \in Files(remote) : remote[x].ino = remote[y].ino => x = y BY <1>4
    <2> QED BY <1>3, <1>8, <2>1, <2>2 DEF RemoteHolds, Holds
  <1>11. ASSUME NEW j \in Job PROVE Copied(j) /\ Fresh(j)
    <2>1. Copied(j) BY <1>3 DEF Copied
    <2>2. \A a, b, c, d, e : <<a, b>> # <<c, d, e>> OBVIOUS
    <2>3. \A i \in DOMAIN data : \E s \in {"local", "remote"}, x \in Places : i = <<s, x>>
      BY InitFiles
    <2> QED BY <2>1, <2>2, <2>3 DEF Fresh
  <1> QED BY <1>3, <1>5, <1>9, <1>10, <1>11 DEF FilesInv

LEMMA WholeMeans ==
  ASSUME FilesInv
  PROVE  WholeFiles
  <1>1. \A x \in Files(local) : x.tmp = <<>> => Whole(data[local[x].ino])
    BY KeptFacts DEF FilesInv, LocalHolds, Holds
  <1>2. \A x \in Files(remote) : x.tmp = <<>> => Whole(data[remote[x].ino])
    BY KeptFacts DEF FilesInv, RemoteHolds, Holds
  <1>3. ASSUME NEW p \in Path
        PROVE  /\ Kind(local, Plain(p)) = "file" => HoldsWhole(local, Plain(p))
               /\ Kind(remote, Plain(p)) = "file" => HoldsWhole(remote, Plain(p))
    <2>1. Plain(p).tmp = <<>> BY DEF Plain
    <2> QED BY <1>1, <1>2, <2>1 DEF HoldsWhole, Kind, Files
  <1> QED BY <1>3 DEF WholeFiles

(* On both sides a file under its own name is always a complete version of *)
(* one source, whatever fails, dies, is replaced or loses an answer, and   *)
(* however many transfers run (all one way, or one each way).              *)
THEOREM WholeFilesHold ==
  StampsDiffer /\ NoDetour /\ TransferSpec => []WholeFiles
  <1> DEFINE I == FilesTyped /\ NoDetour /\ FilesInv
  <1>1. NoDetour /\ TransferInit => I
    BY TransferAssumption, TypedInit, FilesInit
  <1>2. StampsDiffer /\ I /\ [TransferNext]_transferVars => I'
    BY TransferAssumption, TypedStep, FilesStep
  <1>3. I => WholeFiles BY WholeMeans
  <1>4. CASE StampsDiffer
    <2>1. I /\ [TransferNext]_transferVars => I' BY <1>2, <1>4
    <2> HIDE DEF I
    <2> QED BY <1>1, <1>3, <2>1, PTL DEF TransferSpec
  <1>5. CASE ~StampsDiffer BY <1>5
  <1> QED BY <1>4, <1>5

-----------------------------------------------------------------------------
(* While nothing fails and nobody removes anything.                        *)
Calm == faults = 0 /\ Op({"remove", "rmrec"}) = {}
OneInv ==
  Calm =>
    /\ \A j \in Live \cap Ups : Kind(remote, Temps[j]) = "file"
    /\ \A p \in Path : Remote[p] = "file" /\ Plain(p) \notin DOMAIN remote =>
         \E j \in Job : pc[j] = "again" /\ at[j] = Plain(p)

LEMMA OneMeans ==
  ASSUME FilesTyped, FilesInv, OneInv
  PROVE  OneCopyRemains
  <1>1. SUFFICES ASSUME Calm, NEW p \in Path, Remote[p] = "file",
                        Plain(p) \notin DOMAIN remote
                 PROVE  \E j \in Job : /\ pc[j] = "again" /\ at[j] = Plain(p)
                                       /\ HoldsWhole(remote, TmpOf(at[j], j))
    BY DEF OneCopyRemains, Calm
  <1>2. PICK j \in Job : pc[j] = "again" /\ at[j] = Plain(p)
    BY <1>1 DEF OneInv
  <1>3. j \in Live /\ j \in Ups /\ at[j].tmp = <<>>
    BY <1>2, OpFacts DEF Live, Opened, Ups, Op, Plain
  <1>4. Kind(remote, TmpOf(at[j], j)) = "file"
    BY <1>1, <1>3, TempFacts DEF OneInv
  <1>5. remote[TmpOf(at[j], j)].ino = dst[j] BY <1>3, <1>4, OwnTemp
  <1>6. data[dst[j]] = data[src[j]] /\ src[j] \in Kept
    BY <1>2, <1>3 DEF FilesInv, Copied
  <1>7. Whole(data[dst[j]]) BY <1>6, KeptFacts
  <1> QED BY <1>2, <1>4, <1>5, <1>7 DEF HoldsWhole

LEMMA OneKeeps ==
  ASSUME FilesTyped, OneInv, NEW j \in Job, work' = work, Calm' => Calm,
         \A k \in Job \ {j} : pc'[k] = pc[k] /\ at'[k] = at[k],
         Calm => \A k \in (Live \cap Ups) \ {j} : Kind(remote', Temps[k]) = "file",
         Calm => ((j \in Live)' /\ j \in Ups => Kind(remote', Temps'[j]) = "file"),
         Calm' => \A p \in Path : Plain(p) \in DOMAIN remote =>
                   Plain(p) \in DOMAIN remote' \/ (pc'[j] = "again" /\ at'[j] = Plain(p)),
         Calm' => (pc[j] = "again" => at[j] \in DOMAIN remote')
  PROVE  OneInv'
  <1>1. SUFFICES ASSUME Calm' PROVE OneInv' BY DEF OneInv
  <1>2. Ups' = Ups BY DEF Ups, Op
  <1>3. \A k \in Live' \ {j} : k \in Live /\ Temps'[k] = Temps[k]
    BY DEF Live, Temps
  <1>4. \A k \in Live' \cap Ups' : Kind(remote', Temps'[k]) = "file"
    BY <1>1, <1>2, <1>3
  <1>5. ASSUME NEW p \in Path, Remote[p] = "file", Plain(p) \notin DOMAIN remote'
        PROVE  \E k \in Job : pc'[k] = "again" /\ at'[k] = Plain(p)
    <2>1. CASE Plain(p) \in DOMAIN remote BY <1>1, <1>5, <2>1
    <2>2. CASE Plain(p) \notin DOMAIN remote
      <3>1. PICK k \in Job : pc[k] = "again" /\ at[k] = Plain(p)
        BY <1>1, <1>5, <2>2 DEF OneInv
      <3>2. k # j BY <1>1, <1>5, <3>1
      <3> QED BY <3>1, <3>2
    <2> QED BY <2>1, <2>2
  <1> QED BY <1>4, <1>5 DEF OneInv

(* A step that leaves the remote side as it is.                            *)
LEMMA OneStays ==
  ASSUME FilesTyped, OneInv, NEW j \in Job, work' = work, Calm' => Calm, remote' = remote,
         \A k \in Job \ {j} : pc'[k] = pc[k] /\ at'[k] = at[k],
         (j \in Live)' /\ j \in Ups => j \in Live /\ at'[j] = at[j],
         Calm' => (pc[j] = "again" => at[j] \in DOMAIN remote')
  PROVE  OneInv'
  <1>1. (j \in Live)' /\ j \in Ups => j \in Live /\ Temps'[j] = Temps[j] BY DEF Temps
  <1> QED BY <1>1, OneKeeps DEF OneInv

(* Without failures, every request is answered.                            *)
LEMMA CalmStep ==
  ASSUME FilesTyped, NEW j \in Job, JobStep(j), work' = work
  PROVE  /\ faults' = faults \/ faults' = faults + 1
         /\ Calm' => Calm /\ faults' = faults
  <1>1. faults \in Nat BY DEF FilesTyped, JobsTyped
  <1>2. faults' = faults \/ faults' = faults + 1
    <2>1. \A s : Goto(j, s) => faults' = faults BY DEF Goto
    <2>2. \A s : Answered(j, s) => faults' = faults \/ faults' = faults + 1
      BY <2>1 DEF Answered
    <2>3. Error(j) => faults' = faults BY DEF Error, Goto
    <2>4. CASE \/ Transfer(j) \/ TransferDir(j) \/ MkdirRequest(j) \/ ListRequest(j)
               \/ RemoveRequest(j) \/ ChmodRequest(j)
      BY <2>1, <2>4 DEF Transfer, TransferDir, MkdirRequest, ListRequest,
                        RemoveRequest, ChmodRequest, Begins
    <2>5. CASE \/ UpStat(j) \/ UpCreate(j) \/ DownOpen(j) \/ Copy(j) \/ UpVerify(j)
      BY <2>1, <2>2, <2>3, <2>5 DEF UpStat, UpCreate, DownOpen, Copy, UpVerify
    <2>6. CASE \/ UpRename(j) \/ UpRemoveOld(j) \/ UpRenameAgain(j) \/ UpCleanUp(j)
               \/ DownReplace(j) \/ DownDiscard(j)
      BY <2>1, <2>2, <2>3, <2>6 DEF UpRename, UpRemoveOld, UpRenameAgain, UpCleanUp,
                                    DownReplace, DownDiscard
    <2>7. CASE \/ Enter(j) \/ Ensure(j) \/ MakeDir(j) \/ SetMode(j) \/ ListDir(j)
      BY <2>1, <2>2, <2>3, <2>7 DEF Enter, Ensure, MakeDir, SetMode, ListDir
    <2>8. CASE WalkEntry(j) \/ Leave(j) \/ Unlink(j) \/ RemoveDir(j)
      BY <2>1, <2>2, <2>3, <2>8 DEF WalkEntry, Leave, Unlink, RemoveDir
    <2> QED BY <2>4, <2>5, <2>6, <2>7, <2>8 DEF JobStep
  <1>3. Op({"remove", "rmrec"})' = Op({"remove", "rmrec"}) BY DEF Op
  <1> QED BY <1>1, <1>2, <1>3 DEF Calm

LEMMA CalmAnswer ==
  ASSUME FilesTyped, NEW j \in Job, NEW s, Answered(j, s), faults' = faults
  PROVE  pc' = [pc EXCEPT ![j] = s]
  <1>1. faults \in Nat /\ faults + 1 # faults BY DEF FilesTyped, JobsTyped
  <1> QED BY <1>1 DEF Answered, Goto

LEMMA OneQuiet ==
  ASSUME TransferAssumption, FilesTyped, FilesInv, OneInv, NEW j \in Job, JobStep(j),
         \/ Transfer(j) \/ TransferDir(j) \/ MkdirRequest(j) \/ ListRequest(j)
         \/ RemoveRequest(j) \/ ChmodRequest(j) \/ UpStat(j) \/ SetMode(j)
         \/ DownOpen(j) \/ Copy(j) \/ UpVerify(j) \/ DownReplace(j) \/ DownDiscard(j)
         \/ Enter(j) \/ Ensure(j) \/ ListDir(j) \/ WalkEntry(j) \/ Leave(j)
  PROVE  OneInv'
  <1>1. work' = work /\ remote' = remote /\ pc[j] # "again"
    BY DEF Transfer, TransferDir, MkdirRequest, ListRequest, RemoveRequest,
           ChmodRequest, Begins, UpStat, SetMode, DownOpen, Copy, UpVerify,
           DownReplace, DownDiscard, Enter, Ensure, ListDir, WalkEntry, Leave,
           sides, setup
  <1>2. Calm' => Calm BY <1>1, CalmStep
  <1>3. \A k \in Job \ {j} : pc'[k] = pc[k]
    <2>1. \A s : Goto(j, s) => \A k \in Job \ {j} : pc'[k] = pc[k]
      BY DEF Goto, FilesTyped, JobsTyped
    <2>2. Error(j) \/ \E s : Goto(j, s)
      BY DEF Transfer, TransferDir, MkdirRequest, ListRequest, RemoveRequest,
           ChmodRequest, Begins, UpStat, SetMode, DownOpen, Copy, UpVerify,
           DownReplace, DownDiscard, Enter, Ensure, ListDir, WalkEntry, Leave
    <2> QED BY <2>1, <2>2 DEF Error
  <1>4. CASE Enter(j) \/ Ensure(j) \/ ListDir(j) \/ WalkEntry(j) \/ Leave(j)
    <2>1. PICK s : pc' = [pc EXCEPT ![j] = s] /\ s \notin Opened BY <1>4, WalkCloses
    <2>2. pc'[j] = s BY <2>1 DEF FilesTyped, JobsTyped
    <2>3. ~((j \in Live)') BY <2>1, <2>2 DEF Live
    <2>4. \A k \in Job \ {j} : at'[k] = at[k] BY <1>4, WalkCloses
    <2> QED BY <1>1, <1>2, <1>3, <2>3, <2>4, OneStays
  <1>5. CASE ~(Enter(j) \/ Ensure(j) \/ ListDir(j) \/ WalkEntry(j) \/ Leave(j))
    <2>1. at' = at BY <1>5, PlainSteps DEF FilesInv
    <2>2. (j \in Live)' /\ j \in Ups => j \in Live
      <3>1. CASE DownOpen(j) \/ DownDiscard(j) \/ DownReplace(j)
        BY <3>1, OpFacts DEF DownOpen, DownDiscard, DownReplace, Ups, Op, Uploads, Downloads
      <3>2. CASE Copy(j) \/ UpVerify(j)
        BY <3>2 DEF Copy, UpVerify, Live, Opened
      <3>3. CASE UpStat(j) \/ SetMode(j)
        <4>1. PICK s \in {"create", "failed", "done"} : pc' = [pc EXCEPT ![j] = s]
          BY <3>3 DEF UpStat, SetMode, Goto
        <4>2. pc'[j] = s BY <4>1 DEF FilesTyped, JobsTyped
        <4> QED BY <4>2 DEF Live, Opened
      <3>4. CASE \/ Transfer(j) \/ TransferDir(j) \/ MkdirRequest(j) \/ ListRequest(j)
                 \/ RemoveRequest(j) \/ ChmodRequest(j)
        <4>1. PICK ops, first :
                /\ Begins(j, ops, first)
                /\ first \in {"stat", "open", "enter", "mkdir", "list", "unlink", "setmode"}
          BY <3>4 DEF Transfer, TransferDir, MkdirRequest, ListRequest,
                      RemoveRequest, ChmodRequest
        <4>2. PICK s \in {first, "failed"} : pc' = [pc EXCEPT ![j] = s]
          BY <4>1 DEF Begins, Goto
        <4>3. pc'[j] = s BY <4>2 DEF FilesTyped, JobsTyped
        <4> QED BY <4>1, <4>2, <4>3 DEF Live, Opened
      <3> QED BY <1>5, <3>1, <3>2, <3>3, <3>4
    <2> QED BY <1>1, <1>2, <1>3, <2>1, <2>2, OneStays
  <1> QED BY <1>4, <1>5

(* The temporary files of the others are elsewhere.                        *)
LEMMA OthersTemps ==
  ASSUME StampsDiffer, NoDetour, FilesTyped, FilesInv, NEW j \in Ups,
         NEW k \in (Live \cap Ups) \ {j}
  PROVE  k \in Job /\ Temps[k] # Temps[j] /\ Temps[k] # at[j]
  <1>1. j \in Job /\ k \in Job /\ {j, k} \subseteq Ups BY LiveFacts
  <1> QED BY <1>1, Apart DEF FilesInv

LEMMA OneWrites ==
  ASSUME TransferAssumption, StampsDiffer, NoDetour, FilesTyped, FilesInv, OneInv,
         NEW j \in Job, JobStep(j),
         \/ UpCreate(j) \/ UpRename(j) \/ UpRemoveOld(j) \/ UpRenameAgain(j)
         \/ UpCleanUp(j)
  PROVE  OneInv'
  <1> DEFINE x == at[j]  t == TmpOf(x, j)
  <1>1. work' = work /\ at' = at BY PlainSteps DEF FilesInv
  <1>2. Calm' => Calm /\ faults' = faults BY <1>1, CalmStep
  <1>3. j \in Ups /\ t = Temps[j] /\ t # x /\ t.tmp # <<>> /\ Temps'[j] = Temps[j]
    BY <1>1, OpFacts, TempFacts DEF UpCreate, UpRename, UpRemoveOld, UpRenameAgain,
                                    UpCleanUp, Ups, Op, Temps
  <1>4. \E s : pc' = [pc EXCEPT ![j] = s]
    BY DEF UpCreate, UpRename, UpRemoveOld, UpRenameAgain, UpCleanUp, Goto, Error,
           Answered
  <1>5. \A k \in Job \ {j} : pc'[k] = pc[k] BY <1>4 DEF FilesTyped, JobsTyped
  <1>6. \A k \in (Live \cap Ups) \ {j} : Temps[k] # t /\ Temps[k] # x
    BY <1>3, OthersTemps
  <1>7. \A p \in Path : Plain(p) # t BY <1>3 DEF Plain
  <1>8. pc[j] \notin Over \cup {"idle", "copy"}
    BY DEF UpCreate, UpRename, UpRemoveOld, UpRenameAgain, UpCleanUp, Over
  <1>9. Calm => \A k \in (Live \cap Ups) \ {j} : Kind(remote, Temps[k]) = "file"
    BY DEF OneInv
  <1>10. Error(j) => (j \in Live)' = FALSE
    <2>1. ASSUME Error(j) PROVE (j \in Live)' = FALSE
      <3>1. PICK s \in Falls(work[j].op) : pc' = [pc EXCEPT ![j] = s]
        BY <1>8, <2>1, ErrorTyped
      <3>2. pc'[j] = s BY <3>1 DEF FilesTyped, JobsTyped
      <3>3. s \notin Opened BY FallsLost
      <3> QED BY <3>2, <3>3 DEF Live
    <2> QED BY <2>1
  <1>11. CASE UpCreate(j)
    <2>1. pc[j] # "again" BY <1>11 DEF UpCreate
    <2>2. CASE remote' = Put(remote, t, Node("file", dst'[j]))
      <3>1. /\ \A y \in DOMAIN remote : y \in DOMAIN remote'
            /\ Kind(remote', t) = "file"
            /\ \A y : y # t => Kind(remote', y) = Kind(remote, y)
        BY <2>2 DEF Put, Node, Kind
      <3> QED BY <1>1, <1>2, <1>3, <1>5, <1>6, <1>9, <2>1, <3>1, OneKeeps
    <2>3. CASE remote' = remote /\ (Goto(j, "failed") \/ Error(j))
      <3>1. Goto(j, "failed") => (j \in Live)' = FALSE
        BY DEF Goto, Live, Opened, FilesTyped, JobsTyped
      <3> QED BY <1>1, <1>2, <1>5, <1>10, <2>1, <2>3, <3>1, OneStays
    <2> QED BY <1>11, <2>2, <2>3 DEF UpCreate
  <1>12. CASE UpRename(j) \/ UpRenameAgain(j)
    <2>1. j \in Live BY <1>12 DEF UpRename, UpRenameAgain, Live, Opened
    <2>2. Calm => Kind(remote, t) = "file" BY <1>3, <2>1 DEF OneInv
    <2>3. CASE remote' = Moved(remote, t, x) /\ Answered(j, FileDone(j))
      <3>1. /\ \A y \in DOMAIN remote : y # t => y \in DOMAIN remote'
            /\ \A y : y # t /\ y # x => Kind(remote', y) = Kind(remote, y)
            /\ x \in DOMAIN remote'
        BY <1>3, <2>3 DEF Moved, Put, Without, Restrict, Kind
      <3>2. ~((j \in Live)')
        <4>1. PICK s \in {"walk", "done"} \cup Falls(work[j].op) : pc' = [pc EXCEPT ![j] = s]
          BY <1>8, <2>3, AnsweredTyped DEF FileDone
        <4>2. pc'[j] = s BY <4>1 DEF FilesTyped, JobsTyped
        <4>3. s \notin Opened BY <4>1, FallFacts DEF Opened
        <4> QED BY <4>2, <4>3 DEF Live
      <3> QED BY <1>1, <1>2, <1>5, <1>6, <1>7, <1>9, <3>1, <3>2, OneKeeps
    <2>4. CASE remote' = remote
      <3>1. Calm => (pc[j] = "again" => x \in DOMAIN remote)
        <4>1. SUFFICES ASSUME Calm, UpRenameAgain(j) PROVE x \in DOMAIN remote
          BY <1>12 DEF UpRename
        <4>2. CASE Kind(remote, x) # "none" BY <4>2 DEF Kind
        <4>3. CASE Kind(remote, x) = "none"
          <5>1. remote' = Moved(remote, t, x) BY <2>2, <4>1, <4>3 DEF UpRenameAgain
          <5>2. x \in DOMAIN remote' BY <5>1 DEF Moved, Put
          <5> QED BY <2>4, <5>2
        <4> QED BY <4>2, <4>3
      <3> QED BY <1>1, <1>2, <1>5, <2>1, <2>4, <3>1, OneStays
    <2> QED BY <1>12, <2>3, <2>4 DEF UpRename, UpRenameAgain
  <1>13. CASE UpRemoveOld(j)
    <2>1. j \in Live /\ pc[j] = "remove" BY <1>13 DEF UpRemoveOld, Live, Opened
    <2>2. CASE remote' = Without(remote, x) /\ Answered(j, "again")
      <3>1. /\ \A y \in DOMAIN remote : y # x => y \in DOMAIN remote'
            /\ \A y : y # x => Kind(remote', y) = Kind(remote, y)
        BY <2>2 DEF Without, Restrict, Kind
      <3>2. Calm' => pc'[j] = "again"
        BY <1>2, <2>2, CalmAnswer DEF FilesTyped, JobsTyped
      <3>3. Calm => Kind(remote', Temps'[j]) = "file"
        BY <1>3, <2>1, <3>1 DEF OneInv
      <3>4. Calm' => \A p \in Path : Plain(p) \in DOMAIN remote =>
              Plain(p) \in DOMAIN remote' \/ (pc'[j] = "again" /\ at'[j] = Plain(p))
        BY <1>1, <3>1, <3>2
      <3> QED BY <1>1, <1>2, <1>5, <1>6, <1>9, <2>1, <3>1, <3>3, <3>4, OneKeeps
    <2>3. CASE remote' = remote
      BY <1>1, <1>2, <1>5, <2>1, <2>3, OneStays
    <2> QED BY <1>13, <2>2, <2>3 DEF UpRemoveOld
  <1>14. CASE UpCleanUp(j)
    <2>1. /\ pc[j] = "cleanup" /\ remote' = Without(remote, t)
          /\ pc' = [pc EXCEPT ![j] = "failed"]
      BY <1>14 DEF UpCleanUp, Goto
    <2>2. /\ \A y \in DOMAIN remote : y # t => y \in DOMAIN remote'
          /\ \A y : y # t => Kind(remote', y) = Kind(remote, y)
      BY <2>1 DEF Without, Restrict, Kind
    <2>3. ~((j \in Live)')
      BY <2>1 DEF Live, Opened, FilesTyped, JobsTyped
    <2> QED BY <1>1, <1>2, <1>5, <1>6, <1>7, <1>9, <2>1, <2>2, <2>3, OneKeeps
  <1> QED BY <1>11, <1>12, <1>13, <1>14

LEMMA OneStep ==
  ASSUME TransferAssumption, StampsDiffer, NoDetour, FilesTyped, FilesInv, OneInv,
         [TransferNext]_transferVars
  PROVE  OneInv'
  <1>1. faults \in Nat BY DEF FilesTyped, JobsTyped
  <1>2. CASE UNCHANGED transferVars
    BY <1>2 DEF transferVars, sides, setup, OneInv, Calm, Live, Ups, Op, Temps
  <1>3. CASE \E p \in Edited : Edit(Plain(p))
    <2>1. UNCHANGED <<remote, work, pc, at, faults>> BY <1>3 DEF Edit, setup
    <2> QED BY <2>1 DEF OneInv, Calm, Live, Ups, Op, Temps
  <1>4. ASSUME NEW j \in Job, RequestFails(j) \/ JobDies(j) \/ ShortWrite(j)
        PROVE  OneInv'
    <2>1. faults' = faults + 1 BY <1>4 DEF RequestFails, JobDies, ShortWrite
    <2> QED BY <1>1, <2>1 DEF OneInv, Calm
  <1>5. ASSUME NEW j \in Job, JobStep(j)
        PROVE  OneInv'
    <2>1. CASE MakeDir(j)
      <3> DEFINE x == IF pc[j] = "mkdir" THEN at[j] ELSE Head(comps[j])
      <3>1. work' = work /\ at' = at /\ pc[j] # "again" BY <2>1 DEF MakeDir, setup
      <3>2. PICK s : pc' = [pc EXCEPT ![j] = s] /\ s \notin Opened BY <2>1, WalkCloses
      <3>3. pc'[j] = s /\ \A k \in Job \ {j} : pc'[k] = pc[k]
        BY <3>2 DEF FilesTyped, JobsTyped
      <3>4. ~((j \in Live)') BY <3>2, <3>3 DEF Live
      <3>5. /\ \A y \in DOMAIN remote : y \in DOMAIN remote'
            /\ \A y \in DOMAIN remote : Kind(remote', y) = Kind(remote, y)
        <4>1. CASE remote' = remote BY <4>1 DEF Kind
        <4>2. CASE Kind(remote, x) = "none" /\ remote' = Put(remote, x, Node("dir", NoFile))
          <5>1. x \notin DOMAIN remote
            BY <4>2 DEF Kind, FilesTyped, SidesTyped, FsTyped
          <5> HIDE DEF x
          <5> QED BY <4>2, <5>1 DEF Put, Kind
        <4> QED BY <2>1, <4>1, <4>2 DEF MakeDir
      <3>6. Calm => \A k \in (Live \cap Ups) \ {j} : Kind(remote', Temps[k]) = "file"
        BY <3>5 DEF OneInv, Kind
      <3> QED BY <1>5, <3>1, <3>3, <3>4, <3>5, <3>6, CalmStep, OneKeeps
    <2>2. CASE Unlink(j) \/ RemoveDir(j)
      <3>1. j \in Op({"remove", "rmrec"}) BY <2>2, OpFacts DEF Unlink, RemoveDir, Op
      <3>2. work' = work BY <2>2 DEF Unlink, RemoveDir, setup
      <3> QED BY <3>1, <3>2 DEF OneInv, Calm, Op
    <2>3. CASE \/ UpCreate(j) \/ UpRename(j) \/ UpRemoveOld(j) \/ UpRenameAgain(j)
               \/ UpCleanUp(j)
      BY <1>5, <2>3, OneWrites
    <2>4. CASE ~(MakeDir(j) \/ Unlink(j) \/ RemoveDir(j) \/ UpCreate(j) \/ UpRename(j)
                 \/ UpRemoveOld(j) \/ UpRenameAgain(j) \/ UpCleanUp(j))
      BY <1>5, <2>4, OneQuiet DEF JobStep
    <2> QED BY <2>1, <2>2, <2>3, <2>4
  <1> QED BY <1>2, <1>3, <1>4, <1>5 DEF TransferNext

(* While no request fails and nobody removes anything, a remote file that  *)
(* existed is there, or an upload of it holds the whole new content under  *)
(* its temporary name and is about to rename it (replace_remote_file).     *)
THEOREM OneCopyHolds ==
  StampsDiffer /\ NoDetour /\ TransferSpec => []OneCopyRemains
  <1> DEFINE I == FilesTyped /\ NoDetour /\ FilesInv /\ OneInv
  <1>1. NoDetour /\ TransferInit => I
    <2>1. ASSUME TransferInit PROVE OneInv
      <3>1. Live = {} BY <2>1 DEF TransferInit, Live, Opened
      <3>2. \A p \in Path : Remote[p] = "file" => Plain(p) \in DOMAIN remote
        <4>1. DOMAIN remote = {Plain(p) : p \in {q \in Path : Remote[q] # "none"}}
          BY <2>1, InitFacts DEF Found
        <4> QED BY <4>1
      <3> QED BY <3>1, <3>2 DEF OneInv
    <2> QED BY <2>1, TransferAssumption, TypedInit, FilesInit
  <1>2. StampsDiffer /\ I /\ [TransferNext]_transferVars => I'
    BY TransferAssumption, TypedStep, FilesStep, OneStep
  <1>3. I => OneCopyRemains BY OneMeans
  <1>4. CASE StampsDiffer
    <2>1. I /\ [TransferNext]_transferVars => I' BY <1>2, <1>4
    <2> HIDE DEF I
    <2> QED BY <1>1, <1>3, <2>1, PTL DEF TransferSpec
  <1>5. CASE ~StampsDiffer BY <1>5
  <1> QED BY <1>4, <1>5
=============================================================================
