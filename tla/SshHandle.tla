------------------------------ MODULE SshHandle ------------------------------
(***************************************************************************)
(* The terminal of an SSH connection, SshTerminalHandle (ssh.rs), from the *)
(* shell SshConnect ends with: the keepalive task, SFTP channels and       *)
(* commands that share the session lock with it, reading and writing the   *)
(* PTY, close and drop.                                                    *)
(*                                                                         *)
(* The lock is tokio's: whoever asks first is served first, and a task     *)
(* that is aborted or timed out leaves the queue.                          *)
(***************************************************************************)
EXTENDS SshConnect

CONSTANTS Jobs,      \* open_sftp_provider and exec calls, once each
          MaxMisses  \* KEEPALIVE_MAX_MISSES

ASSUME HandleAssumption == MaxMisses \in Nat \ {0} /\ "none" \notin Attempts

VARIABLES
  term,     \* the attempt the terminal comes from, or "none"
  lock,     \* the session mutex: its owner first, then those who wait
  session,  \* "held" by the handle, or "taken"
  link,     \* the target's connection: "up" or "cut"
  linked,   \* the bastions still connected, 1 the outermost
  bastions, \* bastion_sessions: "some" or "taken"
  ka,       \* keepalive_loop: [pc, misses]
  pings,    \* how many of its last pings in a row went unanswered
  jobs,     \* what each job does
  reader,   \* read: "waiting" or "ended"
  writer,   \* write or send_control: "idle", "writing", "done" or "failed"
  closer    \* close: "idle", "eof", "take", "bastions", "closed", "dropped"
handleVars == <<term, lock, session, link, linked, bastions, ka, pings, jobs,
                reader, writer, closer>>
vars == <<connectVars, handleVars>>

HandleTypeOK ==
  /\ TypeOK
  /\ session \in {"held", "taken"} /\ link \in {"up", "cut"}
  /\ ka.pc \in {"off", "sleep", "want", "ping", "give up", "disconnect", "ended"}
  /\ \A j \in Jobs : jobs[j] \in {"new", "want", "open", "exec", "done", "failed"}
  /\ reader \in {"waiting", "ended"} /\ closer \in
       {"idle", "eof", "take", "bastions", "closed", "dropped"}

Init ==
  /\ ConnectInit /\ term = "none" /\ lock = <<>> /\ session = "held"
  /\ link = "up" /\ linked = {} /\ bastions = "some"
  /\ ka = [pc |-> "off", misses |-> 0] /\ pings = 0
  /\ jobs = [j \in Jobs |-> "new"] /\ reader = "waiting" /\ writer = "idle"
  /\ closer = "idle"
-----------------------------------------------------------------------------
Open == term # "none" /\ closer # "dropped"
Answers == link = "up" /\ ~Mute(term)
Owns(p) == lock # <<>> /\ Head(lock) = p
Without(p) == SelectSeq(lock, LAMBDA q : q # p)
Queue(p) == lock' = Append(lock, p)
Release == lock' = Tail(lock)

(* SshTerminalHandle::new.  From here on this terminal alone is looked at: *)
(* the other attempts are over and, like the known_hosts files, which      *)
(* nothing reads any more, put out of sight (a bound).                     *)
Establish(a) ==
  /\ term = "none" /\ At(a, "up")
  /\ \A b \in Attempts : att[b].pc \in Ended \cup {"new"}
  /\ att' = [b \in Attempts |-> IF b = a THEN att[a] ELSE Idle]
  /\ known' = <<>> /\ rekeys' = 0 /\ UNCHANGED <<present, silent>>
  /\ term' = a /\ linked' = 1..(Len(att[a].chain) - 1)
  /\ bastions' = (IF Len(att[a].chain) = 1 THEN "taken" ELSE "some")
  /\ ka' = [pc |-> "sleep", misses |-> 0]
  /\ UNCHANGED <<lock, session, link, pings, jobs, reader, writer, closer>>
-----------------------------------------------------------------------------
(* keepalive_loop *)
KaStays == UNCHANGED <<connectVars, term, linked, bastions, jobs, reader,
                       writer, closer>>
KaWake ==   \* KEEPALIVE_INTERVAL_SECS have passed
  /\ ka.pc = "sleep" /\ ka' = [ka EXCEPT !.pc = "want"] /\ Queue("ka")
  /\ KaStays /\ UNCHANGED <<session, link, pings>>
KaLocked ==
  /\ ka.pc = "want" /\ Owns("ka")
  /\ IF session = "held"
     THEN ka' = [ka EXCEPT !.pc = "ping"] /\ UNCHANGED lock
     ELSE ka' = [ka EXCEPT !.pc = "ended"] /\ Release
  /\ KaStays /\ UNCHANGED <<session, link, pings>>
PongKeepsCount ==   \* mutant: an answer does not reset the count
  /\ ka.pc = "ping" /\ Answers
  /\ ka' = [ka EXCEPT !.pc = "sleep"] /\ pings' = 0 /\ Release
  /\ KaStays /\ UNCHANGED <<session, link>>
Pong ==
  /\ ka.pc = "ping" /\ Answers
  /\ ka' = [pc |-> "sleep", misses |-> 0] /\ pings' = 0 /\ Release
  /\ KaStays /\ UNCHANGED <<session, link>>
(* The ping's own timeout, or an error; the last miss asks for the lock    *)
(* again to take the session.                                              *)
Miss ==
  LET n == ka.misses + 1 IN
  /\ ka.pc = "ping" /\ pings' = IF pings = MaxMisses THEN pings ELSE pings + 1
  /\ ka' = [pc |-> IF n >= MaxMisses THEN "give up" ELSE "sleep", misses |-> n]
  /\ lock' = (IF n >= MaxMisses THEN Append(Tail(lock), "ka") ELSE Tail(lock))
  /\ KaStays /\ UNCHANGED <<session, link>>
KaTake ==
  /\ ka.pc = "give up" /\ Owns("ka")
  /\ IF session = "held"
     THEN /\ session' = "taken" /\ ka' = [ka EXCEPT !.pc = "disconnect"]
          /\ UNCHANGED lock
     ELSE /\ ka' = [ka EXCEPT !.pc = "ended"] /\ Release /\ UNCHANGED session
  /\ KaStays /\ UNCHANGED <<link, pings>>
KaDisconnect ==   \* still under the lock
  /\ ka.pc = "disconnect" /\ ka' = [ka EXCEPT !.pc = "ended"]
  /\ link' = "cut" /\ Release
  /\ KaStays /\ UNCHANGED <<session, pings>>
Keepalive == KaWake \/ KaLocked \/ Pong \/ Miss \/ KaTake \/ KaDisconnect
-----------------------------------------------------------------------------
(* open_sftp_provider and exec, which need a channel of their own.         *)
JobStays == UNCHANGED <<connectVars, term, session, link, linked, bastions, ka,
                        pings, reader, writer, closer>>
Job(j, pc) == jobs' = [jobs EXCEPT ![j] = pc]
Ask(j) ==
  /\ Open /\ closer # "closed" /\ jobs[j] = "new" /\ Job(j, "want") /\ Queue(j)
  /\ JobStays
Locked(j) ==
  /\ jobs[j] = "want" /\ Owns(j)
  /\ IF session = "held" THEN Job(j, "open") /\ UNCHANGED lock
                         ELSE Job(j, "failed") /\ Release
  /\ JobStays
(* The channel is open, and the lock free: an SFTP channel goes to the     *)
(* transfer, exec collects.                                                *)
Opened(j) ==
  /\ jobs[j] = "open" /\ Answers /\ Release
  /\ Job(j, "exec") \/ Job(j, "done") \/ Job(j, "failed")
  /\ JobStays
WaitsForAnswer(j) ==   \* mutant: no timeout while the lock is held
  /\ jobs[j] = "open" /\ link = "cut" /\ Release /\ Job(j, "failed")
  /\ JobStays
(* SFTP_OPEN_TIMEOUT, CHANNEL_OPEN_TIMEOUT, or the connection is gone.     *)
OpenFails(j) ==
  /\ jobs[j] = "open" /\ Release /\ Job(j, "failed") /\ JobStays
(* The command ends, or its channel does: without a timeout of its own.    *)
ExecEnds(j) ==
  /\ jobs[j] = "exec" /\ (Answers \/ link = "cut")
  /\ Job(j, "done") \/ (Answers /\ Job(j, "failed"))
  /\ JobStays /\ UNCHANGED lock
Work2(j) == Locked(j) \/ Opened(j) \/ OpenFails(j) \/ ExecEnds(j)
-----------------------------------------------------------------------------
PtyStays == UNCHANGED <<connectVars, term, lock, session, link, linked,
                        bastions, ka, pings, jobs, closer>>
(* read ends when the shell does, or the connection.                       *)
ReadEnds ==
  /\ Open /\ reader = "waiting" /\ (Answers \/ link = "cut")
  /\ reader' = "ended" /\ PtyStays /\ UNCHANGED writer
Write ==
  /\ Open /\ closer # "closed" /\ writer = "idle" /\ writer' = "writing"
  /\ PtyStays /\ UNCHANGED reader
(* The window may still be open on a silent connection; else               *)
(* PTY_WRITE_TIMEOUT ends the wait.                                        *)
WriteEnds ==
  /\ writer = "writing"
  /\ \/ link = "up" /\ writer' = "done"
     \/ writer' = "failed"
  /\ PtyStays /\ UNCHANGED reader

CloseStays == UNCHANGED <<connectVars, term, pings, jobs, reader, writer>>
(* close aborts the keepalive wherever it is: if it was about to           *)
(* disconnect, the session it had taken goes with it.                      *)
Close ==
  /\ Open /\ closer = "idle" /\ closer' = "eof"
  /\ ka' = [ka EXCEPT !.pc = "ended"] /\ lock' = Without("ka")
  /\ CloseStays /\ UNCHANGED <<session, link, linked, bastions>>
CloseEof ==
  /\ closer = "eof" /\ closer' = "take" /\ Queue("close")
  /\ CloseStays /\ UNCHANGED <<session, link, linked, bastions, ka>>
CloseTake ==
  /\ closer = "take" /\ Owns("close") /\ closer' = "bastions" /\ Release
  /\ session' = "taken" /\ link' = (IF session = "held" THEN "cut" ELSE link)
  /\ bastions' = "taken"
  /\ CloseStays /\ UNCHANGED <<linked, ka>>

OutermostNext == CHOOSE i \in linked : \A k \in linked : i <= k  \* mutant: not reversed
NextBastion == CHOOSE i \in linked : \A k \in linked : i >= k

(* The bastions one by one, the innermost first. *)
CloseBastion ==
  /\ closer = "bastions"
  /\ IF linked = {} THEN closer' = "closed" /\ UNCHANGED linked
                    ELSE linked' = linked \ {NextBastion} /\ UNCHANGED closer
  /\ CloseStays /\ UNCHANGED <<lock, session, link, bastions, ka>>

(* The handle is dropped when nobody uses it but a read, which is dropped  *)
(* too; what it held goes with it.                                         *)
Drop ==
  /\ Open /\ closer \in {"idle", "closed"} /\ writer # "writing"
  /\ \A j \in Jobs : jobs[j] \in {"new", "done", "failed"}
  /\ closer' = "dropped" /\ link' = "cut" /\ linked' = {} /\ session' = "taken"
  /\ bastions' = "taken" /\ ka' = [ka EXCEPT !.pc = "ended"] /\ lock' = <<>>
  /\ reader' = "ended" /\ UNCHANGED <<connectVars, term, pings, jobs, writer>>
Closing == CloseEof \/ CloseTake \/ CloseBastion

HandleNext ==
  \/ \E a \in Attempts : Establish(a)
  \/ Keepalive \/ ReadEnds \/ Write \/ WriteEnds \/ Close \/ Closing \/ Drop
  \/ \E j \in Jobs : Ask(j) \/ Work2(j)
Next == \/ HandleNext
        \/ /\ term = "none" /\ ConnectNext /\ UNCHANGED handleVars
        \/ /\ term # "none" /\ (\E h \in Shaky : FallSilent(h))
           /\ UNCHANGED handleVars

(* Tasks run when they can and timers fire; nobody has to close.           *)
Spec ==
  /\ Init /\ [][Next]_vars
  /\ \A a \in Attempts : WF_vars(Work(a) /\ UNCHANGED handleVars)
                         /\ WF_vars(Establish(a))
  /\ WF_vars(Keepalive) /\ WF_vars(ReadEnds) /\ WF_vars(WriteEnds)
  /\ WF_vars(Closing) /\ \A j \in Jobs : WF_vars(Work2(j))
-----------------------------------------------------------------------------
(* The keepalive cuts a connection only after MaxMisses pings in a row     *)
(* without an answer, however long the lock made it wait in between.       *)
CutOnSilence == ka.pc = "disconnect" => pings = MaxMisses

(* Bastions are let go from the inside out, so that each goodbye still     *)
(* finds its way.                                                          *)
InnermostFirst == \A i \in linked : \A k \in 1..i : k \in linked

(* No connection is made to a host that is not known, and none is given up *)
(* that could be had.                                                      *)
RightHost == HandleTypeOK /\ KeysBind /\ GoodKeyFound

(* Nothing that a connection still had to give is cut off.                 *)
NotCutShort == OutputWhole /\ CutOnSilence /\ InnermostFirst

(* A connection that has fallen silent does not hold a session for ever:   *)
(* although the keepalive, file transfers, commands and close wait for one *)
(* lock, every one of them comes back, and reading ends.  Only a close     *)
(* that overtakes the keepalive leaves a read or a running command behind: *)
(* the aborted task may drop the session it took without the goodbye that  *)
(* ends them (the command has no timeout of its own).                      *)
SilenceEnds ==
  (Open /\ link = "up" /\ Mute(term)) ~>
    /\ writer # "writing" /\ closer \in {"idle", "closed", "dropped"}
    /\ reader = "ended" \/ closer = "closed"
    /\ \A j \in Jobs : \/ jobs[j] \in {"new", "done", "failed"}
                       \/ jobs[j] = "exec" /\ closer = "closed"

(* However hosts fall silent, connecting and what is done with the         *)
(* connection come to an end.                                              *)
NothingHangs == ConnectEnds /\ SilenceEnds
=============================================================================
