---------------------------- MODULE ControlPlane ----------------------------
(***************************************************************************)
(* The human control plane: every MCP server listens on a local endpoint   *)
(* and says so in a discovery file (src/transport/control), and the CLI    *)
(* finds a server by these files, proves that it has read the file, and    *)
(* lists the sessions or approves one (src/bin/termbridge.rs).             *)
(*                                                                         *)
(* Servers start, end and crash; a crashed one leaves its file and its     *)
(* socket, and the system gives its pid to another process.  A token is    *)
(* the server that drew it; the name of a discovery file, 24 bits of pid   *)
(* and clock, is taken to be its server's own.  Each server has one        *)
(* session name, sess_1, whose session may be replaced by a reconnect.     *)
(***************************************************************************)
EXTENDS Integers, Sequences, FiniteSets

CONSTANTS
  Servers,   \* runs of termbridge-mcp, numbered as they start
  Pids,      \* process ids, which are used again
  Strangers, \* those that unrelated processes of this user get, too
             \* (kill on those of others fails: they count as dead)
  Suffixes,  \* the random end of an endpoint's name
  Calls,     \* runs of the CLI
  Kinds,     \* what is called: functions from calls to [cmd, named], with
             \* cmd "session-list" or "session-approve", named: --instance
  MaxGen     \* bound: sessions behind one name

ASSUME ControlAssumption == /\ MaxGen \in Nat /\ Servers \subseteq Nat
                            /\ Strangers \subseteq Pids

VARIABLES
  windows, \* named pipes instead of sockets?
  server,  \* server -> [pc, pid, suffix, listening]
  session, \* server -> [gen, open, approved]: the session named sess_1
  file,    \* server -> its discovery file: "none", "torn", "whole"
  sockets, \* endpoints whose socket file exists
  foreign, \* pids of unrelated processes
  call     \* call -> [pc, kind, want, left, found, info, peer, gen]
vars == <<windows, server, session, file, sockets, foreign, call>>

NoSession == [gen |-> 0, open |-> FALSE, approved |-> FALSE]
NoServer == [pc |-> "off", pid |-> 0, suffix |-> 0, listening |-> FALSE]
Endpoint(i) == <<server[i].pid, server[i].suffix>>
Started == {i \in Servers : server[i].pc \notin {"off", "gone"}}
PidsInUse == {server[i].pid : i \in Started} \cup foreign
Ended == {"listed", "approved", "failed"}
Connected == {"queued", "hello", "asked", "set"}

(* "want" is the text given to --instance, as the set of endpoints whose   *)
(* name it occurs in: every one if none is given.                          *)
NewCall(kind) ==
  [pc |-> "idle", kind |-> kind, want |-> {}, left |-> {},
   found |-> <<>>, info |-> {}, peer |-> {}, gen |-> 0]
AnyText == Pids \X Suffixes

TypeOK ==
  /\ \A i \in Servers :
       /\ server[i].pc \in {"off", "bind", "create", "write",
                            "running", "bare", "gone"}
       /\ file[i] \in {"none", "torn", "whole"}
  /\ \A k \in Calls :
       call[k].pc \in {"idle", "scan", "sweep", "connect"} \cup Connected \cup Ended

Init ==
  /\ windows \in BOOLEAN
  /\ server = [i \in Servers |-> NoServer]
  /\ session = [i \in Servers |-> NoSession]
  /\ file = [i \in Servers |-> "none"]
  /\ sockets = {} /\ foreign = {}
  /\ \E kind \in Kinds : call = [k \in Calls |-> NewCall(kind[k])]
-----------------------------------------------------------------------------
(* Processes that have nothing to do with TermBridge come and go; what     *)
(* matters is that they take the pid of a server that has left its file.   *)
Foreign(pid) ==
  /\ \/ pid \in foreign /\ foreign' = foreign \ {pid}
     \/ /\ pid \notin PidsInUse
        /\ \E i \in Servers : file[i] = "whole" /\ server[i].pid = pid
        /\ foreign' = foreign \cup {pid}
  /\ UNCHANGED <<windows, server, session, file, sockets, call>>

To(i, pc) == server' = [server EXCEPT ![i].pc = pc]
Bare(i) == server' = [server EXCEPT ![i].pc = "bare", ![i].listening = FALSE]
OnlyServer == UNCHANGED <<windows, session, foreign, call>>

(* generate_token and generate_endpoint. *)
Launch(i) ==
  /\ server[i].pc = "off" /\ OnlyServer /\ UNCHANGED <<file, sockets>>
  /\ \A j \in Servers : j < i => server[j].pc # "off"
  /\ \E pid \in Pids \ PidsInUse, suffix \in Suffixes :
       server' = [server EXCEPT ![i] =
         [pc |-> "bind", pid |-> pid, suffix |-> suffix, listening |-> FALSE]]

(* A socket nobody answers on is removed. *)
Listening(e) == {j \in Started : server[j].listening /\ Endpoint(j) = e}
Probe(i) == IF Listening(Endpoint(i)) = {} THEN sockets \ {Endpoint(i)} ELSE sockets

Listens(i) ==
  server' = [server EXCEPT ![i].pc = "create", ![i].listening = TRUE]
(* Bind and protect the socket; whatever fails, the MCP server goes on     *)
(* without its control plane.  (The name holds the pid, so that nothing    *)
(* comes between the probe and this.)                                      *)
Bind(i) ==
  /\ ~windows /\ server[i].pc = "bind" /\ OnlyServer /\ UNCHANGED file
  /\ \/ Bare(i) /\ sockets' = Probe(i)
     \/ /\ Endpoint(i) \notin Probe(i)
        /\ sockets' = Probe(i) \cup {Endpoint(i)}
        /\ Listens(i) \/ Bare(i)
(* The first pipe of that name, or none. *)
BindPipe(i) ==
  /\ windows /\ server[i].pc = "bind" /\ OnlyServer /\ UNCHANGED <<file, sockets>>
  /\ Bare(i) \/ (Listening(Endpoint(i)) = {} /\ Listens(i))

(* InstanceRegistry::register: the file is created, then written. *)
Create(i) ==
  /\ server[i].pc = "create" /\ OnlyServer /\ UNCHANGED sockets
  /\ \/ Bare(i) /\ UNCHANGED file
     \/ To(i, "write") /\ file' = [file EXCEPT ![i] = "torn"]
Write(i) ==
  /\ server[i].pc = "write" /\ OnlyServer /\ UNCHANGED sockets
  /\ \/ Bare(i) /\ UNCHANGED file
     \/ /\ To(i, "running")
        /\ file' = [file EXCEPT ![i] = IF @ = "none" THEN "none" ELSE "whole"]

(* The MCP client closes stdio: the registry's drop removes the file; the  *)
(* socket stays.  A crash removes nothing.                                 *)
Gone(i) == /\ server' = [server EXCEPT ![i].pc = "gone", ![i].listening = FALSE]
           /\ session' = [session EXCEPT ![i] = NoSession]
           /\ UNCHANGED <<windows, foreign, call, sockets>>
Exit(i) ==
  /\ server[i].pc \in {"running", "bare"} /\ Gone(i)
  /\ file' = IF server[i].pc = "running" THEN [file EXCEPT ![i] = "none"] ELSE file
Crash(i) ==
  /\ i \in Started /\ Gone(i) /\ UNCHANGED file

(* The agent opens and closes the session; a reconnect closes it and puts  *)
(* a new object, which nobody has approved, under its name.  (Those of a   *)
(* server without a control plane are out of its sight.)                   *)
NewSession(i) ==
  /\ server[i].pc = "running" /\ session[i].gen < MaxGen /\ ~session[i].open
  /\ session' = [session EXCEPT ![i] =
                   [gen |-> @.gen + 1, open |-> TRUE, approved |-> FALSE]]
  /\ UNCHANGED <<windows, server, file, sockets, foreign, call>>
CloseSession(i) ==
  /\ server[i].pc = "running" /\ session[i].open
  /\ session' = [session EXCEPT ![i].open = FALSE, ![i].approved = FALSE]
  /\ UNCHANGED <<windows, server, file, sockets, foreign, call>>
-----------------------------------------------------------------------------
(* The CLI.  The user has read the list, which shows eight characters of   *)
(* an endpoint's last name, then all of it, and gives some of that or none.*)
Step(k, r) == call' = [call EXCEPT ![k] = r]
CallTo(k, pc) == call' = [call EXCEPT ![k].pc = pc]
Ends(k, pc) == Step(k, [NewCall(call[k].kind) EXCEPT !.pc = pc])
OnlyCall == UNCHANGED <<windows, server, session, file, sockets, foreign>>

Start(k) ==
  /\ call[k].pc = "idle" /\ OnlyCall
  /\ \E text \in SUBSET AnyText :
       /\ IF call[k].kind.named
          THEN \E i \in Servers : server[i].pc = "running" /\ Endpoint(i) \in text
          ELSE text = AnyText
       /\ Step(k, [call[k] EXCEPT !.pc = "scan", !.want = text,
                                  !.left = {i \in Servers : file[i] # "none"}])

CleanUnreadable(k, i) ==   \* mutant: a file that does not parse is stale
  /\ call[k].pc = "scan" /\ i \in call[k].left /\ OnlyCall
  /\ LET r == [call[k] EXCEPT !.left = @ \ {i}]
     IN  Step(k, IF file[i] = "none" THEN r
                 ELSE IF file[i] = "whole" /\ server[i].pid \in PidsInUse
                 THEN [r EXCEPT !.found = Append(@, i)]
                 ELSE [r EXCEPT !.pc = "sweep", !.peer = {i}])

(* list_instances reads the files one after the other.  Those that cannot  *)
(* be read are passed over, those whose process lives are kept ...         *)
Look(k, i) ==
  /\ call[k].pc = "scan" /\ i \in call[k].left /\ OnlyCall
  /\ LET r == [call[k] EXCEPT !.left = @ \ {i}]
     IN  Step(k, IF file[i] # "whole" THEN r
                 ELSE IF server[i].pid \in PidsInUse THEN [r EXCEPT !.found = Append(@, i)]
                 ELSE [r EXCEPT !.pc = "sweep", !.peer = {i}])
(* ... and the others are removed. *)
Sweep(k) ==
  /\ call[k].pc = "sweep"
  /\ Step(k, [call[k] EXCEPT !.pc = "scan", !.peer = {}])
  /\ file' = [i \in Servers |-> IF i \in call[k].peer THEN "none" ELSE file[i]]
  /\ UNCHANGED <<windows, server, session, sockets, foreign>>

(* The first of those found whose endpoint contains the text.              *)
Named(k) == {n \in DOMAIN call[k].found :
               Endpoint(call[k].found[n]) \in call[k].want}
Pick(k) ==
  /\ call[k].pc = "scan" /\ call[k].left = {} /\ OnlyCall
  /\ \/ Named(k) = {} /\ Ends(k, "failed")
     \/ \E n \in Named(k) :
          /\ \A m \in Named(k) : n <= m
          /\ Step(k, [call[k] EXCEPT !.pc = "connect", !.found = <<>>,
                                     !.info = {call[k].found[n]}])

(* Connect to the endpoint in the file: to whoever listens there now. *)
Reaches(k) == UNION {Listening(Endpoint(i)) : i \in call[k].info}
Dial(k) ==
  IF Reaches(k) = {} THEN Ends(k, "failed")
  ELSE Step(k, [call[k] EXCEPT !.pc = "queued", !.peer = Reaches(k)])
Connect(k) == ~windows /\ call[k].pc = "connect" /\ OnlyCall /\ Dial(k)
(* A pipe serves one client; until the server has made the next one the    *)
(* others try again for two seconds.                                       *)
Busy(k) == \E l \in Calls \ {k} : call[l].pc = "queued" /\ call[l].peer = Reaches(k)
ConnectPipe(k) ==
  /\ windows /\ call[k].pc = "connect" /\ OnlyCall
  /\ IF Busy(k) THEN Ends(k, "failed") ELSE Dial(k)

(* The server is gone, or has stopped listening before it accepted. *)
HangUp(k) ==
  /\ call[k].pc \in Connected /\ Ends(k, "failed") /\ OnlyCall
  /\ \E i \in call[k].peer :
       server[i].pc = "gone" \/ (call[k].pc = "queued" /\ ~server[i].listening)
(* What it makes of the answer to its HELLO: it gives up, or asks. *)
Rejected(k) == Ends(k, "failed")
Ask(k) == CallTo(k, "asked")
-----------------------------------------------------------------------------
(* The server's end of connection k. *)
Serves(i, k, pc) ==
  i \in Started /\ call[k].peer = {i} /\ call[k].pc = pc

Accept(i, k) ==
  /\ ~windows /\ Serves(i, k, "queued") /\ server[i].listening
  /\ CallTo(k, "hello") /\ OnlyCall
(* The next pipe is made first; if that fails the server listens no more.  *)
AcceptPipe(i, k) ==
  /\ windows /\ Serves(i, k, "queued") /\ server[i].listening
  /\ UNCHANGED <<windows, session, file, sockets, foreign>>
  /\ \/ CallTo(k, "hello") /\ UNCHANGED server
     \/ Ends(k, "failed") /\ server' = [server EXCEPT ![i].listening = FALSE]

AnyToken(i, k) ==   \* mutant: any HELLO will do
  Serves(i, k, "hello") /\ Ask(k) /\ OnlyCall
HelloSilent(i, k) ==   \* mutant: a wrong token is not answered
  /\ Serves(i, k, "hello") /\ call[k].info = {i} /\ Ask(k) /\ OnlyCall

(* The token must be this server's own; a wrong one is answered, too. *)
Hello(i, k) ==
  /\ Serves(i, k, "hello") /\ OnlyCall
  /\ IF call[k].info = {i} THEN Ask(k) ELSE Rejected(k)

(* dispatch: session.list; or set_approval_mode, which looks the session   *)
(* up (one that a reconnect has just closed is found, too) ...             *)
Dispatch(i, k) ==
  /\ Serves(i, k, "asked") /\ OnlyCall
  /\ \/ call[k].kind.cmd = "session-list" /\ Ends(k, "listed")
     \/ call[k].kind.cmd = "session-approve" /\ ~session[i].open /\ Ends(k, "failed")
     \/ /\ call[k].kind.cmd = "session-approve" /\ session[i].gen > 0
        /\ Step(k, [call[k] EXCEPT !.pc = "set", !.gen = session[i].gen])
(* ... and approves the object it found. *)
Set(i, k) ==
  /\ Serves(i, k, "set") /\ CallTo(k, "approved")
  /\ session' = IF session[i].open /\ session[i].gen = call[k].gen
                THEN [session EXCEPT ![i].approved = TRUE] ELSE session
  /\ UNCHANGED <<windows, server, file, sockets, foreign>>

Cli(k) == \/ \E i \in Servers : Look(k, i)
          \/ Sweep(k) \/ Pick(k) \/ Connect(k) \/ ConnectPipe(k)
          \/ HangUp(k)
Serve(i, k) == Accept(i, k) \/ AcceptPipe(i, k) \/ Hello(i, k) \/ Dispatch(i, k) \/ Set(i, k)
Life(i) == \/ Launch(i) \/ Bind(i) \/ BindPipe(i) \/ Create(i) \/ Write(i)
           \/ Exit(i) \/ Crash(i) \/ NewSession(i) \/ CloseSession(i)
Next == \/ \E pid \in Strangers : Foreign(pid)
        \/ \E i \in Servers : Life(i) \/ \E k \in Calls : Serve(i, k)
        \/ \E k \in Calls : Start(k) \/ Cli(k)

(* A CLI that runs goes on, and so do the tasks of a server that lives.    *)
Fairness ==
  \A k \in Calls : WF_vars(Cli(k) \/ \E i \in Servers : Serve(i, k))
Spec == Init /\ [][Next]_vars /\ Fairness
-----------------------------------------------------------------------------
(* A server whose control plane runs can be found: no CLI that tidies up   *)
(* after dead servers, at whatever moment it reads the directory, removes  *)
(* the file of a living one.                                               *)
RunningIsListed == \A i \in Servers : server[i].pc = "running" => file[i] = "whole"

(* What the discovery directory says of the running servers holds.         *)
ListingHolds == TypeOK /\ RunningIsListed

(* A session is approved only by a call that has read the discovery file   *)
(* of its very server, which fits the text the call was given, and found   *)
(* this very session: a stale file never leads to the server that took     *)
(* over pid, name and socket, and an approval does not pass to the session *)
(* that a reconnect puts in the place of the one the server has looked up. *)
(* (Who replaces it before that is not noticed: the call has a name only.) *)
ApprovalWasGiven ==
  \A i \in Servers : session[i].approved =>
    \E k \in Calls : /\ call[k].pc = "approved" /\ call[k].info = {i}
                     /\ call[k].gen = session[i].gen
                     /\ Endpoint(i) \in call[k].want

(* The CLI never hangs: whatever becomes of the server it has found, its   *)
(* call ends.                                                              *)
CallEnds == \A k \in Calls : call[k].pc = "scan" ~> call[k].pc \in Ended
=============================================================================
