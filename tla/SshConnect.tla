----------------------------- MODULE SshConnect -----------------------------
(***************************************************************************)
(* How TermBridge comes by an SSH connection: connect_session, directly or *)
(* through a chain of bastions, the host key check with trust on first     *)
(* use, authentication by agent and identity files or by password, then a  *)
(* shell (SshProvider::open) or one command (SshProvider::exec)            *)
(* (src/infrastructure/ssh.rs).                                            *)
(*                                                                         *)
(* A host that has fallen silent (the peer is gone, its TCP connection is  *)
(* not) never answers: only a step inside with_timeout comes back from it. *)
(* Timers may fire at any time, as on a slow network.                      *)
(***************************************************************************)
EXTENDS Integers, Sequences, FiniteSets, SequencesExt

CONSTANTS
  Attempts, Hosts, NoHost,
  Via,        \* host -> its proxyjump: a host, NoHost, or "a,b" (a list of
              \* jumps, which parse_proxy_jump refuses)
  MaxDepth,   \* MAX_PROXY_DEPTH
  Strict,     \* host -> "no", "yes", "ask" or "accept-new"
  Keys, Alg,  \* host keys, and the algorithm of each
  Known,      \* the known_hosts files to start from: sequences of sets of
              \* <<host, key>>, with Damage in a file that cannot be read
  Presented,  \* host -> key: what the hosts present to start with
  Agent, Files,  \* sequences of the agent's identities and of the identity
              \* files ("unreadable" for one that is no key)
  Good,       \* host -> the identities it accepts
  MaxTries,   \* after so many tries the server hangs up
  Scripts,    \* what a command sends back: sequences of "data", "exit 0",
              \* "exit 1", "eof", "close"
  Calls,      \* the connections asked for: <<kind, host>>
  Shaky, MaxSilent, MaxRekeys   \* bounds on what befalls which hosts

Damage == <<"damaged", "damaged">>
Ends == {"eof", "close"}
Has(script, msgs) == \E i \in DOMAIN script : script[i] \in msgs

ASSUME ConnectAssumption ==
  /\ MaxDepth \in Nat /\ MaxTries \in Nat /\ MaxSilent \in Nat /\ MaxRekeys \in Nat
  /\ Via \in [Hosts -> Hosts \cup {NoHost, "a,b"}] /\ Shaky \subseteq Hosts
  /\ Calls \subseteq {"open", "password", "exec", "stream"} \X Hosts

(* A file that cannot be read is told from every record.                   *)
ASSUME KeyAssumption ==
  /\ Known \subseteq Seq(SUBSET ((Hosts \X Keys) \cup {Damage}))
  /\ Presented \subseteq [Hosts -> Keys] /\ Damage \notin Hosts \X Keys

ASSUME IdentityAssumption ==
  Agent \in Seq(ToSet(Agent)) /\ Files \in Seq(ToSet(Files))

(* A channel is ended by its server, which sends no data after that        *)
(* (RFC 4254, 5.3).                                                        *)
ASSUME ScriptAssumption ==
  /\ Scripts \subseteq Seq({"data", "exit 0", "exit 1"} \cup Ends)
  /\ \A s \in Scripts :
       /\ Has(s, Ends)
       /\ \A i, j \in DOMAIN s : i < j /\ s[i] \in Ends => s[j] # "data"

VARIABLES
  known,    \* the known_hosts files
  present,  \* host -> the key it presents
  silent,   \* the hosts that have fallen silent
  rekeys,   \* how often a host has changed its key
  att       \* attempt -> what connect_session holds
connectVars == <<known, present, silent, rekeys, att>>

NoKey == "no key"
Idle == [pc |-> "new", kind |-> "open", chain |-> <<>>, hop |-> 0,
         key |-> NoKey, prior |-> {}, tries |-> 0, script |-> <<>>,
         lost |-> FALSE, code |-> "none", error |-> "none"]

Ended == {"up", "done", "failed"}
Connecting == {"dial", "key", "learn", "agent", "files"}
TypeOK ==
  /\ silent \subseteq Hosts /\ rekeys \in 0..MaxRekeys
  /\ \A h \in Hosts : present[h] \in Keys
  /\ \A a \in Attempts :
       att[a].pc \in Ended \cup Connecting \cup
         {"new", "resolve", "password", "tunnel", "channel", "shell", "exec"}
-----------------------------------------------------------------------------
(* Host keys. *)
Readable == {f \in DOMAIN known : Damage \notin known[f]}
OnRecord(h) == {e[2] : e \in {x \in UNION {known[f] : f \in Readable} :
                                 x[1] = h}}

(* check_known_hosts_path: a file with another key of this algorithm for   *)
(* the host reports a change, even if the right key stands next to it.     *)
InFile(f, h, key) ==
  LET mine == {e[2] : e \in {x \in known[f] : x[1] = h}} IN
  IF \E k \in mine : k # key /\ Alg[k] = Alg[key] THEN "changed"
  ELSE IF key \in mine THEN "match" ELSE "absent"

FirstOf(h, key) ==   \* mutant: a changed key is as good as an unknown one
  IF \E f \in Readable : InFile(f, h, key) = "match" THEN "match" ELSE "absent"

(* The files in order; a match or a change ends the search, a file that    *)
(* cannot be read is passed over.                                          *)
LookUp(h, key) ==
  LET hits == {f \in Readable : InFile(f, h, key) # "absent"}
      first == {f \in hits : \A g \in hits : f <= g}
  IN IF hits = {} THEN "absent"
     ELSE IF \E f \in first : InFile(f, h, key) = "match" THEN "match"
     ELSE "changed"

Verdict(h, key) ==
  IF Strict[h] = "no" THEN "accept"
  ELSE IF known = <<>> THEN "reject"
  ELSE CASE LookUp(h, key) = "match" -> "accept"
         [] LookUp(h, key) = "changed" -> "reject"
         [] OTHER -> IF Strict[h] = "accept-new" THEN "learn" ELSE "reject"
-----------------------------------------------------------------------------
Become(a, r) == att' = [att EXCEPT ![a] = r]
Go(a, pc) == Become(a, [att[a] EXCEPT !.pc = pc])
At(a, pc) == att[a].pc = pc
Target(a) == att[a].chain[att[a].hop]
(* An error ends it all; what remains is where it struck. *)
Fail(a, error) ==
  Become(a, [Idle EXCEPT !.pc = "failed", !.error = error, !.kind = att[a].kind,
                         !.chain = IF att[a].hop > 0 THEN <<Target(a)>> ELSE <<>>,
                         !.hop = 1])

(* Nothing comes back from a hop behind a silent host: chain is the target *)
(* first, the outermost bastion last.                                      *)
Mute(a) == \E i \in DOMAIN att[a].chain :
             i >= att[a].hop /\ att[a].chain[i] \in silent

Start(a, kind, h) ==
  /\ At(a, "new")
  /\ Become(a, [Idle EXCEPT !.pc = "resolve", !.kind = kind, !.chain = <<h>>])
  /\ UNCHANGED <<known, present, silent, rekeys>>

(* parse_proxy_jump takes one jump, not a list. *)
Refused(via) == via = "a,b"
(* resolve: ssh -G may fail, time out, or print what makes no host. *)
ResolveFails(a) == Fail(a, "ConnectFailed")

(* connect_session calls itself for the bastion before it connects. With a *)
(* password there is no jump.                                              *)
Descend(a) ==
  LET chain == att[a].chain
      via == Via[Last(chain)]
  IN
  /\ At(a, "resolve") /\ via # NoHost
  /\ IF att[a].kind = "password" \/ Len(chain) > MaxDepth \/ Refused(via)
     THEN Fail(a, "InvalidArgument")
     ELSE \/ ResolveFails(a)
          \/ Become(a, [att[a] EXCEPT !.chain = Append(chain, via)])
  /\ UNCHANGED <<known, present, silent, rekeys>>

Outermost(a) ==
  /\ At(a, "resolve") /\ Via[Last(att[a].chain)] = NoHost
  /\ Become(a, [att[a] EXCEPT !.pc = "dial", !.hop = Len(att[a].chain)])
  /\ UNCHANGED <<known, present, silent, rekeys>>

(* client::connect, or connect_stream in the tunnel; the server presents   *)
(* the key it has now.                                                     *)
Dial(a) ==
  /\ At(a, "dial") /\ ~Mute(a)
  /\ \/ Fail(a, "ConnectFailed")
     \/ Become(a, [att[a] EXCEPT !.pc = "key", !.key = present[Target(a)],
                                 !.prior = OnRecord(Target(a))])
  /\ UNCHANGED <<known, present, silent, rekeys>>

(* Where a connection that has a trusted key goes on. *)
Authenticate(a) == IF att[a].kind = "password" THEN "password" ELSE "agent"

(* check_server_key *)
CheckKey(a) ==
  LET verdict == Verdict(Target(a), att[a].key) IN
  /\ At(a, "key")
  /\ CASE verdict = "accept" -> Go(a, Authenticate(a))
       [] verdict = "learn" -> Go(a, "learn")
       [] OTHER -> Fail(a, "HostKeyRejected")
  /\ UNCHANGED <<known, present, silent, rekeys>>

LearnNothing(a) ==   \* mutant: a new key is accepted and not written down
  /\ At(a, "learn") /\ Go(a, Authenticate(a))
  /\ UNCHANGED <<known, present, silent, rekeys>>

(* add_host_key_to_known_hosts appends to the first file; without the      *)
(* record the connection is refused.                                       *)
Learn(a) ==
  /\ At(a, "learn")
  /\ \/ /\ Fail(a, "HostKeyRejected") /\ UNCHANGED known
     \/ /\ known' = [known EXCEPT ![1] = @ \cup {<<Target(a), att[a].key>>}]
        /\ Go(a, Authenticate(a))
  /\ UNCHANGED <<present, silent, rekeys>>
-----------------------------------------------------------------------------
(* The hop is authenticated: on to the next one, or to the session.        *)
Authenticated(a) ==
  LET r == [att[a] EXCEPT !.tries = 0, !.key = NoKey, !.prior = {}] IN
  Become(a, IF r.hop > 1 THEN [r EXCEPT !.pc = "tunnel", !.hop = @ - 1]
                         ELSE [r EXCEPT !.pc = "channel"])

Accepts(a, identity) ==
  att[a].tries < MaxTries /\ identity \in Good[Target(a)]

AgentStops(a) ==   \* mutant: an identity that is refused ends the search
  /\ At(a, "agent") /\ ~Mute(a)
  /\ IF att[a].tries < Len(Agent) /\ Accepts(a, Agent[att[a].tries + 1])
     THEN Authenticated(a) ELSE Fail(a, "AuthFailed")
  /\ UNCHANGED <<known, present, silent, rekeys>>

(* agent_auth_loop: one identity after the other; a refusal or an error    *)
(* leads to the next one, the last one to the identity files.              *)
TryAgent(a) ==
  /\ At(a, "agent") /\ ~Mute(a)
  /\ IF att[a].tries = Len(Agent) THEN Go(a, "files")
     ELSE IF Accepts(a, Agent[att[a].tries + 1]) THEN Authenticated(a)
     ELSE Become(a, [att[a] EXCEPT !.tries = @ + 1])
  /\ UNCHANGED <<known, present, silent, rekeys>>

(* authenticate_with_identity_files; a file that is no key costs no try at *)
(* the server, here it is counted with the others.                         *)
TryFiles(a) ==
  LET n == att[a].tries - Len(Agent) + 1 IN
  /\ At(a, "files") /\ ~Mute(a)
  /\ IF n > Len(Files) THEN Fail(a, "AuthFailed")
     ELSE IF Accepts(a, Files[n]) THEN Authenticated(a)
     ELSE Become(a, [att[a] EXCEPT !.tries = @ + 1])
  /\ UNCHANGED <<known, present, silent, rekeys>>

(* authenticate_with_password, outside every timeout. *)
Password(a) ==
  /\ At(a, "password") /\ ~Mute(a)
  /\ Fail(a, "AuthFailed") \/ Fail(a, "ChannelError") \/ Authenticated(a)
  /\ UNCHANGED <<known, present, silent, rekeys>>

(* channel_open_direct_tcpip: hop is the host behind, the answer comes     *)
(* from the bastion.                                                       *)
Tunnel(a) ==
  /\ At(a, "tunnel")
  /\ \A i \in DOMAIN att[a].chain :
       i > att[a].hop => att[a].chain[i] \notin silent
  /\ Fail(a, "ConnectFailed") \/ Go(a, "dial")
  /\ UNCHANGED <<known, present, silent, rekeys>>

(* channel_open_session, then request_pty and request_shell, or exec. *)
Channel(a) ==
  /\ At(a, "channel") /\ ~Mute(a)
  /\ \/ Fail(a, "ChannelError")
     \/ /\ att[a].kind \in {"open", "password"} /\ Go(a, "shell")
     \/ /\ att[a].kind = "exec"
        /\ \E s \in Scripts :
             Become(a, [att[a] EXCEPT !.pc = "exec", !.script = s])
  /\ UNCHANGED <<known, present, silent, rekeys>>
(* exec_stream gives the channel's two halves to the caller, who keeps the *)
(* connection up with them; its bastions need no handle.                   *)
Stream(a) ==
  /\ At(a, "channel") /\ att[a].kind = "stream" /\ ~Mute(a) /\ Go(a, "done")
  /\ UNCHANGED <<known, present, silent, rekeys>>
(* Requests are sent without waiting for their answer. *)
Shell(a) ==
  /\ At(a, "shell")
  /\ Fail(a, "ChannelError") \/ Go(a, "up")
  /\ UNCHANGED <<known, present, silent, rekeys>>

(* What a command that stopped sending amounts to: no exit status counts   *)
(* as success.                                                             *)
Result(code) == IF code = "exit 1" THEN "ChannelError" ELSE "none"

(* One message of the collecting loop: the record after it.                *)
StopAtExit(r, msg) ==   \* mutant: the exit status ends the loop
  CASE msg = "data" -> r
    [] OTHER -> [r EXCEPT !.pc = IF Result(msg) = "none" THEN "done" ELSE "failed",
                          !.code = msg, !.error = Result(msg)]

Collect(r, msg) ==
  CASE msg = "data" -> r
    [] msg \in {"exit 0", "exit 1"} -> [r EXCEPT !.code = msg]
    [] OTHER -> [r EXCEPT !.pc = IF Result(r.code) = "none" THEN "done"
                                                            ELSE "failed",
                          !.error = Result(r.code)]

(* The connection may also be lost, which ends the loop like a close.      *)
Receive(a) ==
  /\ At(a, "exec") /\ ~Mute(a)
  /\ \/ /\ att[a].script # <<>>
        /\ LET r == Collect(att[a], Head(att[a].script)) IN
           Become(a, [r EXCEPT !.script = Tail(@)])
     \/ Become(a, [Collect(att[a], "close") EXCEPT !.lost = TRUE])
  /\ UNCHANGED <<known, present, silent, rekeys>>

OnlyDial(a) == At(a, "dial")   \* mutant: only the connect has a timeout

(* The steps inside with_timeout: CONNECT_TIMEOUT from the dial to the end *)
(* of key authentication, CHANNEL_OPEN_TIMEOUT and EXEC_TIMEOUT.           *)
Timed(a) ==
  \/ att[a].pc \in Connecting
  \/ att[a].kind \in {"exec", "stream"} /\ att[a].pc \in {"channel", "exec"}
TimeOut(a) ==
  /\ Timed(a)
  /\ Fail(a, IF att[a].pc \in Connecting THEN "ConnectFailed" ELSE "ChannelError")
  /\ UNCHANGED <<known, present, silent, rekeys>>
-----------------------------------------------------------------------------
FallSilent(h) ==
  /\ Cardinality(silent) < MaxSilent /\ h \notin silent
  /\ silent' = silent \cup {h}
  /\ UNCHANGED <<known, present, rekeys, att>>
Rekey(h) ==
  /\ rekeys < MaxRekeys /\ rekeys' = rekeys + 1
  /\ \E k \in Keys \ {present[h]} : present' = [present EXCEPT ![h] = k]
  /\ UNCHANGED <<known, silent, att>>

ConnectInit ==
  /\ known \in Known /\ present \in Presented
  /\ silent = {} /\ rekeys = 0 /\ att = [a \in Attempts |-> Idle]

Work(a) == \/ Descend(a) \/ Outermost(a) \/ Dial(a) \/ CheckKey(a) \/ Learn(a)
           \/ TryAgent(a) \/ TryFiles(a) \/ Password(a) \/ Tunnel(a)
           \/ Channel(a) \/ Stream(a) \/ Shell(a) \/ Receive(a) \/ TimeOut(a)
Begin(a) == \E c \in Calls : Start(a, c[1], c[2])
Hazard == \E h \in Shaky : FallSilent(h) \/ Rekey(h)
ConnectNext == Hazard \/ (\E a \in Attempts : Begin(a) \/ Work(a))

(* Tasks run when they can, and timers fire. *)
ConnectSpec == /\ ConnectInit /\ [][ConnectNext]_connectVars
               /\ \A a \in Attempts : WF_connectVars(Work(a))
-----------------------------------------------------------------------------
Trusted(a) == att[a].pc \in {"agent", "files", "password"}

(* A host's key is settled by what is on record: whoever gets past the     *)
(* check of a host that is checked holds a recorded key, and not one of a  *)
(* kind for which another key had been on record when it dialled.  Two     *)
(* first connections at the same time may still record two keys.           *)
KeysBind ==
  \A a \in Attempts :
    Trusted(a) /\ Strict[Target(a)] # "no" /\ 1 \in Readable =>
      LET key == att[a].key IN
      /\ key \in OnRecord(Target(a))
      /\ \/ key \in att[a].prior
         \/ \A k \in att[a].prior : Alg[k] # Alg[key]

(* Authentication fails only if no identity the client could offer before  *)
(* the server hung up is good there.                                       *)
GoodKeyFound ==
  \A a \in Attempts :
    At(a, "failed") /\ att[a].error = "AuthFailed" /\ att[a].kind # "password" =>
      \A n \in 1..MaxTries :
        n <= Len(Agent) + Len(Files) => (Agent \o Files)[n] \notin Good[Target(a)]

(* Of a command that is done and whose connection was not lost on the way, *)
(* all output has been collected, in whatever order the server sends the   *)
(* output, the exit status and the end.                                    *)
OutputWhole ==
  \A a \in Attempts :
    At(a, "done") =>
      \/ ~Has(att[a].script, {"data"})
      \/ Has(att[a].script, Ends) /\ att[a].lost

(* Every attempt comes to an end, whichever host falls silent and however  *)
(* the jumps are configured, unless it waits for one of the answers that   *)
(* have no timeout.                                                        *)
ConnectEnds ==
  \A a \in Attempts :
    At(a, "resolve") ~>
      \/ att[a].pc \in Ended
      \/ att[a].pc \in {"tunnel", "password"}
      \/ At(a, "channel") /\ att[a].kind \in {"open", "password"}
=============================================================================
