--------------------------- MODULE SessionManager ---------------------------
(***************************************************************************)
(* The client's registry of sessions (src/src/application/sessions.rs) and *)
(* the session it holds (src/src/domain/session.rs): MCP calls running     *)
(* concurrently on a multi-threaded runtime, the idle reaper, and the PTY  *)
(* read task of each session.                                              *)
(*                                                                         *)
(* Identifiers come from a counter and are never reused, except that a     *)
(* reconnect puts a new session under the old one's.  Nothing relates two  *)
(* identifiers, so the model has one, and numbers the sessions that were   *)
(* made for it.  A call takes the map's and the session's locks one after  *)
(* the other and awaits the network in between: each of these is a step.   *)
(* A session nothing refers to any more is dropped (Arc), which aborts its *)
(* read task and lets its connection go.                                   *)
(***************************************************************************)
EXTENDS Integers

CONSTANTS
  Caller,     \* tasks serving tool calls
  Reaper,     \* the idle reaper
  MaxMade     \* bound: sessions made under the identifier

ASSUME ManagerAssumption == Reaper \notin Caller /\ MaxMade \in Nat \ {0}

Actor == Caller \cup {Reaper}
Made == 1 .. MaxMade

VARIABLES
  map,        \* the session in the map, 0 if there is none
  made,       \* how many were made
  kind,       \* what it runs on: "interactive" or "persistent"
  state,      \* SessionState
  handle,     \* its terminal: "open", or "closed" once that was asked for
  readTask,   \* its PTY read task
  idle,       \* it had no activity for IDLE_TIMEOUT_SECS
  call,       \* Actor -> the call in progress
  raced       \* history: a reconnect overlapped another call or the reaper

sess == <<made, kind, state, handle, readTask, idle>>
vars == <<map, made, kind, state, handle, readTask, idle, call, raced>>

NoCall == [op |-> "none", pc |-> "idle", ref |-> 0]
Op == {"none", "open", "send", "resize", "read", "close", "detach",
       "reconnect", "reap"}
Pc == {"idle", "open", "insert", "check", "cleanup", "remove", "detach",
       "detaching", "recheck", "take", "close", "closing", "release", "closed"}
CallRec == [op : Op, pc : Pc, ref : 0 .. MaxMade]

TypeOK ==
  /\ map \in 0 .. made /\ made \in 0 .. MaxMade
  /\ kind \in [Made -> {"none", "interactive", "persistent"}]
  /\ state \in [Made -> {"none", "ready", "closing", "closed", "lost"}]
  /\ handle \in [Made -> {"none", "open", "closed"}]
  /\ readTask \in [Made -> {"none", "running", "ended"}]
  /\ idle \in [Made -> BOOLEAN]
  /\ call \in [Actor -> CallRec]
  /\ raced \in BOOLEAN

Init ==
  /\ map = 0 /\ made = 0
  /\ kind = [i \in Made |-> "none"] /\ state = [i \in Made |-> "none"]
  /\ handle = [i \in Made |-> "none"] /\ readTask = [i \in Made |-> "none"]
  /\ idle = [i \in Made |-> FALSE]
  /\ call = [a \in Actor |-> NoCall]
  /\ raced = FALSE

At(a, pc) == call[a].pc = pc
Ref(a) == call[a].ref
GoTo(a, pc) == call' = [call EXCEPT ![a].pc = pc]
Return(a) == call' = [call EXCEPT ![a] = NoCall]
Same == UNCHANGED raced

(* A call begins, holding session r.                                       *)
Begin(a, op, pc, r) ==
  /\ At(a, "idle")
  /\ call' = [call EXCEPT ![a] = [op |-> op, pc |-> pc, ref |-> r]]
  /\ raced' = (raced \/ \E b \in Actor \ {a} :
                 ~At(b, "idle") /\ "reconnect" \in {op, call[b].op})
-----------------------------------------------------------------------------
(* The session's own tasks, and time.                                      *)

Referenced(i) == map = i \/ \E a \in Actor : Ref(a) = i

ReadEndsAlways(i) ==   \* mutant: the state is not looked at
  /\ readTask[i] = "running" /\ Referenced(i)
  /\ readTask' = [readTask EXCEPT ![i] = "ended"]
  /\ state' = [state EXCEPT ![i] = "lost"]
  /\ UNCHANGED <<map, made, kind, handle, idle, call>> /\ Same

(* End of file or an error.  Only a ready session becomes lost.            *)
ReadEnds(i) ==
  /\ readTask[i] = "running" /\ Referenced(i)
  /\ readTask' = [readTask EXCEPT ![i] = "ended"]
  /\ state' = [state EXCEPT ![i] = IF @ = "ready" THEN "lost" ELSE @]
  /\ UNCHANGED <<map, made, kind, handle, idle, call>> /\ Same

TimePasses(i) ==
  /\ i <= made /\ idle' = [idle EXCEPT ![i] = TRUE]
  /\ UNCHANGED <<map, made, kind, state, handle, readTask, call>> /\ Same
-----------------------------------------------------------------------------
(* open_session and attach_remote_session: the provider opens a terminal,  *)
(* a session is made around it and inserted.                               *)

Open(a) ==
  /\ a \in Caller /\ made = 0 /\ \A b \in Actor : call[b].op # "open"
  /\ Begin(a, "open", "open", 0)
  /\ UNCHANGED <<map, sess>>

OpenFails(a) ==
  /\ At(a, "open")
  /\ Return(a) /\ UNCHANGED <<map, sess>> /\ Same

(* A reconnect always asks for an interactive terminal.                    *)
Establish(a, k) ==
  LET i == made + 1 IN
  /\ At(a, "open") /\ i \in Made
  /\ call[a].op = "reconnect" => k = "interactive"
  /\ made' = i
  /\ kind' = [kind EXCEPT ![i] = k] /\ state' = [state EXCEPT ![i] = "ready"]
  /\ handle' = [handle EXCEPT ![i] = "open"]
  /\ readTask' = [readTask EXCEPT ![i] = "running"]
  /\ call' = [call EXCEPT ![a].pc = "insert", ![a].ref = i]
  /\ UNCHANGED <<map, idle>> /\ Same

InsertNext(a) ==   \* mutant: the next session's number is used
  /\ At(a, "insert")
  /\ map' = made + 1 /\ Return(a)
  /\ UNCHANGED sess /\ Same

Insert(a) ==
  /\ At(a, "insert")
  /\ map' = Ref(a) /\ Return(a)
  /\ UNCHANGED sess /\ Same
-----------------------------------------------------------------------------
(* Calls that look the session up.  An unknown identifier is an error that *)
(* changes nothing.                                                        *)

Get(a, op) ==
  /\ a \in Caller /\ map # 0 /\ op \in Op \ {"none", "open", "close", "reap"}
  /\ Begin(a, op, "check", map)
  /\ UNCHANGED <<map, sess>>

(* send_input, send_control and resize need a ready session; read_output   *)
(* one that is not closed.  All but resize count as activity.  A refusal   *)
(* is followed by a cleanup, and so is that of a terminal whose connection *)
(* to the daemon is gone; whatever else the terminal answers is not.       *)
Accepts(op, s) == IF op = "read" THEN s # "closed" ELSE s = "ready"

Use(a) ==
  /\ At(a, "check") /\ call[a].op \in {"send", "resize", "read"}
  /\ IF Accepts(call[a].op, state[Ref(a)])
     THEN /\ idle' = [idle EXCEPT ![Ref(a)] = @ /\ call[a].op = "resize"]
          /\ Return(a) \/ (call[a].op # "read" /\ GoTo(a, "cleanup"))
     ELSE GoTo(a, "cleanup") /\ UNCHANGED idle
  /\ UNCHANGED <<map, made, kind, state, handle, readTask>> /\ Same

(* Mutant: a lost session is cleaned up too, as it was before ADR-0010.    *)
CleanupDetached(a) ==
  /\ At(a, "cleanup")
  /\ IF state[Ref(a)] \in {"closed", "lost"} THEN GoTo(a, "remove")
     ELSE Return(a)
  /\ UNCHANGED <<map, sess>> /\ Same

(* cleanup_detached_session: looks at the session it was refused by, and   *)
(* then removes whatever the map holds.                                    *)
Cleanup(a) ==
  /\ At(a, "cleanup")
  /\ IF state[Ref(a)] = "closed" THEN GoTo(a, "remove") ELSE Return(a)
  /\ UNCHANGED <<map, sess>> /\ Same

Remove(a) ==
  /\ At(a, "remove")
  /\ map' = 0 /\ Return(a)
  /\ UNCHANGED sess /\ Same

(* detach_session: only a persistent session can be detached, and it stays *)
(* in the map until the daemon agreed.  The handle's closed flag goes up   *)
(* before the daemon is asked, and answers a second detach by itself.      *)
DetachCheck(a) ==
  /\ At(a, "check") /\ call[a].op = "detach"
  /\ IF kind[Ref(a)] = "persistent" THEN GoTo(a, "detach") ELSE Return(a)
  /\ UNCHANGED <<map, sess>> /\ Same

DetachFlag(a) ==
  /\ At(a, "detach")
  /\ GoTo(a, IF handle[Ref(a)] = "closed" THEN "remove" ELSE "detaching")
  /\ handle' = [handle EXCEPT ![Ref(a)] = "closed"]
  /\ UNCHANGED <<map, made, kind, state, readTask, idle>> /\ Same

DetachAnswer(a) ==
  /\ At(a, "detaching")
  /\ GoTo(a, "remove") \/ Return(a)
  /\ UNCHANGED <<map, sess>> /\ Same

(* reconnect_session goes on only for a lost session, and closes it.       *)
ReconnectCheck(a) ==
  /\ At(a, "check") /\ call[a].op = "reconnect"
  /\ IF state[Ref(a)] = "lost" THEN GoTo(a, "close") ELSE Return(a)
  /\ UNCHANGED <<map, sess>> /\ Same
-----------------------------------------------------------------------------
(* close_session takes the session out of the map; if there is none, it    *)
(* has nothing to do and returns Ok.                                       *)

Take(a) ==
  /\ a \in Caller /\ map # 0
  /\ Begin(a, "close", "close", map)
  /\ map' = 0 /\ UNCHANGED sess

(* The reaper collects the idle sessions, looks at each again, and takes   *)
(* what the map then holds.                                                *)
Collect ==
  /\ map # 0 /\ idle[map]
  /\ Begin(Reaper, "reap", "recheck", 0)
  /\ UNCHANGED <<map, sess>>

Recheck ==
  /\ At(Reaper, "recheck")
  /\ IF map # 0 /\ idle[map] THEN GoTo(Reaper, "take") ELSE Return(Reaper)
  /\ UNCHANGED <<map, sess>> /\ Same

ReaperTake ==
  /\ At(Reaper, "take")
  /\ IF map # 0
     THEN call' = [call EXCEPT ![Reaper].pc = "close", ![Reaper].ref = map]
     ELSE Return(Reaper)
  /\ map' = 0 /\ UNCHANGED sess /\ Same
-----------------------------------------------------------------------------
(* Session::close, for close_session, the reaper and a reconnect.          *)

AfterClose(a) ==
  /\ IF call[a].op = "reconnect"
     THEN call' = [call EXCEPT ![a].pc = "open", ![a].ref = 0]
     ELSE Return(a)
  /\ UNCHANGED raced

CloseCheck(a) ==
  /\ At(a, "close")
  /\ IF state[Ref(a)] = "closed" THEN AfterClose(a)
     ELSE GoTo(a, "closing") /\ Same
  /\ UNCHANGED <<map, sess>>

SetClosingLate(a) ==   \* mutant: closing is not marked first
  /\ At(a, "closing")
  /\ readTask' = [readTask EXCEPT ![Ref(a)] = "ended"]
  /\ GoTo(a, "release")
  /\ UNCHANGED <<map, made, kind, state, handle, idle>> /\ Same

SetClosedAtOnce(a) ==   \* mutant: it is closed before its terminal is
  /\ At(a, "closing")
  /\ state' = [state EXCEPT ![Ref(a)] = "closed"]
  /\ GoTo(a, "release")
  /\ UNCHANGED <<map, made, kind, handle, readTask, idle>> /\ Same

SetClosing(a) ==
  /\ At(a, "closing")
  /\ state' = [state EXCEPT ![Ref(a)] = "closing"]
  /\ GoTo(a, "release")
  /\ UNCHANGED <<map, made, kind, handle, readTask, idle>> /\ Same

ReleaseOrFail(a) ==   \* mutant: an error of the terminal's close returns
  /\ At(a, "release")
  /\ readTask' = [readTask EXCEPT ![Ref(a)] = "ended"]
  /\ handle' = [handle EXCEPT ![Ref(a)] = "closed"]
  /\ GoTo(a, "closed") \/ Return(a)
  /\ UNCHANGED <<map, made, kind, state, idle>> /\ Same

(* The read task is aborted and the terminal closed; whether that worked   *)
(* makes no difference to the session.                                     *)
Release(a) ==
  /\ At(a, "release")
  /\ readTask' = [readTask EXCEPT ![Ref(a)] = "ended"]
  /\ handle' = [handle EXCEPT ![Ref(a)] = "closed"]
  /\ GoTo(a, "closed")
  /\ UNCHANGED <<map, made, kind, state, idle>> /\ Same

SetClosed(a) ==
  /\ At(a, "closed")
  /\ state' = [state EXCEPT ![Ref(a)] = "closed"]
  /\ AfterClose(a)
  /\ UNCHANGED <<map, made, kind, handle, readTask, idle>>

CloseStep(a) == CloseCheck(a) \/ SetClosing(a) \/ Release(a) \/ SetClosed(a)

Next ==
  \/ \E i \in Made : ReadEnds(i) \/ TimePasses(i)
  \/ Collect \/ Recheck \/ ReaperTake
  \/ \E a \in Actor :
       \/ Open(a) \/ OpenFails(a)
       \/ \E k \in {"interactive", "persistent"} : Establish(a, k)
       \/ Insert(a)
       \/ \E op \in Op : Get(a, op)
       \/ Use(a) \/ Cleanup(a) \/ Remove(a)
       \/ DetachCheck(a) \/ DetachFlag(a) \/ DetachAnswer(a)
       \/ ReconnectCheck(a)
       \/ Take(a)
       \/ CloseStep(a)

(* A close that was begun is carried through: the tasks run, and closing a *)
(* terminal is best effort or has a time limit.                            *)
Fairness == \A a \in Actor : WF_vars(CloseStep(a))

Spec == Init /\ [][Next]_vars /\ Fairness
-----------------------------------------------------------------------------
(* A session that is being closed is never ready or lost again, although   *)
(* its read task sees the terminal end, and although two closers (a        *)
(* reconnect and a close or the reaper) run Session::close on it at once.  *)
ClosingIsFinal ==
  [][\A i \in Made : state[i] \in {"closing", "closed"}
                       => state'[i] \in {"closing", "closed"}]_vars

(* A closed session holds no connection and no read task, whichever of its *)
(* closers was first to say so.                                            *)
ClosedMeansReleased ==
  \A i \in Made : state[i] = "closed" =>
    handle[i] = "closed" /\ readTask[i] = "ended"

(* A session that calls itself ready is being read: it cannot be one whose *)
(* end nobody would notice.                                                *)
ReadyMeansRead == \A i \in Made : state[i] = "ready" => readTask[i] = "running"

(* What a session says of itself is true of its terminal: both of these.   *)
StateIsTrue == TypeOK /\ ClosedMeansReleased /\ ReadyMeansRead

(* As long as no reconnect overlaps another call or the reaper, a ready or *)
(* lost session stays in the map until somebody closes or detaches it: it  *)
(* is not dropped by a failed call (ADR-0010), nor by a detach that is     *)
(* refused (P1-8).                                                         *)
Ending(a) == call[a].pc \in {"insert", "close", "closing"}
KeptUntilEnded ==
  ~raced => \A i \in Made :
    state[i] \in {"ready", "lost"} /\ handle[i] = "open" =>
      map = i \/ \E a \in Actor : Ending(a) /\ Ref(a) = i

(* Whatever is taken out of the map to be closed is closed, also when its  *)
(* terminal fails to close, and when a second closer is at work.           *)
CloseCompletes ==
  \A i \in Made :
    (\E a \in Actor : Ref(a) = i /\ call[a].pc \in {"close", "closing"})
      ~> state[i] = "closed"
=============================================================================
