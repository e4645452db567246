------------------------ MODULE SessionManagerProofs ------------------------
(***************************************************************************)
(* Proofs about SessionManager for any number of callers and of sessions:  *)
(* what Session::close guarantees when several closers run it at once,     *)
(* while the read task and other calls look at the same session, and that  *)
(* the map keeps a session until somebody ends it.                         *)
(***************************************************************************)
EXTENDS SessionManager, TLAPS

Released(i) == handle[i] = "closed" /\ readTask[i] = "ended"
IsClosing(i) == state[i] \in {"closing", "closed"}

(* A closer that has marked its session finds it marked; one that has      *)
(* released it finds it released.                                          *)
CloserInv(a) ==
  /\ At(a, "release") => IsClosing(Ref(a))
  /\ At(a, "closed") => IsClosing(Ref(a)) /\ Released(Ref(a))

HoldsMade(a) ==
  /\ Ref(a) <= made
  /\ call[a].pc \notin {"idle", "open", "recheck", "take"} => Ref(a) \in Made

SessionInv(i) ==
  /\ state[i] = "closed" => Released(i)
  /\ state[i] = "ready" => readTask[i] = "running"
  /\ i > made => state[i] = "none" /\ readTask[i] = "none"

CloseInv ==
  /\ TypeOK
  /\ \A a \in Actor : HoldsMade(a) /\ CloserInv(a)
  /\ \A i \in Made : SessionInv(i)

LEMMA CallTyped ==
  ASSUME TypeOK, NEW a \in Actor
  PROVE  call[a] \in CallRec /\ Ref(a) \in 0 .. MaxMade
         /\ call \in [Actor -> CallRec] /\ made \in 0 .. MaxMade
  BY DEF TypeOK, CallRec, Ref

(* What the steps of a call leave of the call.                             *)
LEMMA CallMoves ==
  ASSUME TypeOK, NEW a \in Actor, NEW r \in CallRec,
         call' = [call EXCEPT ![a] = r]
  PROVE  /\ call' \in [Actor -> CallRec] /\ call'[a] = r
         /\ \A b \in Actor : b # a => call'[b] = call[b]
  BY DEF TypeOK

LEMMA PcRecords ==
  ASSUME NEW r \in CallRec, NEW pc \in Pc
  PROVE  /\ [r EXCEPT !.pc = pc] \in CallRec
         /\ [r EXCEPT !.pc = pc].pc = pc /\ [r EXCEPT !.pc = pc].ref = r.ref
  BY DEF CallRec

LEMMA NoCallRecord ==
  NoCall \in CallRec /\ NoCall.pc = "idle" /\ NoCall.ref = 0
  BY ManagerAssumption DEF NoCall, CallRec, Op, Pc

(* A step that moves the call of a to pc, holding i, and its session's     *)
(* fields only as they may move, keeps the invariant.                      *)
Moves(a, pc, i) ==
  /\ call' \in [Actor -> CallRec]
  /\ \A b \in Actor : b # a => call'[b] = call[b]
  /\ call'[a].pc = pc /\ call'[a].ref = i

LEMMA MovesByGoTo ==
  ASSUME TypeOK, NEW a \in Actor, NEW pc \in Pc, GoTo(a, pc)
  PROVE  Moves(a, pc, Ref(a))
  <1>1. PICK r \in CallRec : r = call[a] BY CallTyped
  <1>2. PICK q \in CallRec : /\ q = [r EXCEPT !.pc = pc]
                             /\ q.pc = pc /\ q.ref = r.ref
    BY PcRecords
  <1>3. call' = [call EXCEPT ![a] = q] BY <1>1, <1>2 DEF GoTo
  <1> QED BY <1>1, <1>2, <1>3, CallMoves DEF Moves, Ref

LEMMA MovesByReturn ==
  ASSUME TypeOK, NEW a \in Actor, Return(a)
  PROVE  Moves(a, "idle", 0)
  BY CallMoves, NoCallRecord DEF Return, Moves

LEMMA MovesByBegin ==
  ASSUME TypeOK, NEW a \in Actor, NEW i \in 0 .. MaxMade, NEW pc \in Pc,
         NEW op \in Op,
         Begin(a, op, pc, i)
  PROVE  Moves(a, pc, i)
  <1>1. PICK r : r = [op |-> op, pc |-> pc, ref |-> i] OBVIOUS
  <1>2. r \in CallRec /\ r.pc = pc /\ r.ref = i
    BY <1>1 DEF CallRec
  <1> QED BY <1>1, <1>2, CallMoves DEF Begin, Moves

LEMMA MovesTo ==
  ASSUME TypeOK, NEW a \in Actor, NEW i \in 0 .. MaxMade, NEW pc \in Pc,
         call' = [call EXCEPT ![a].pc = pc, ![a].ref = i]
  PROVE  Moves(a, pc, i)
  <1>1. PICK r \in CallRec : r = call[a] BY CallTyped
  <1>2. PICK q : q = [r EXCEPT !.pc = pc, !.ref = i] OBVIOUS
  <1>3. q \in CallRec /\ q.pc = pc /\ q.ref = i
    BY <1>2 DEF CallRec
  <1>4. call' = [call EXCEPT ![a] = q] BY <1>1, <1>2
  <1> QED BY <1>3, <1>4, CallMoves DEF Moves
-----------------------------------------------------------------------------
(* What a session has once been is not undone.                             *)
Onward(i) ==
  /\ IsClosing(i) => IsClosing(i)'
  /\ Released(i) => Released(i)'

SessionsOnward ==
  /\ made' \in 0 .. MaxMade /\ made <= made'
  /\ \A i \in Made : Onward(i) /\ SessionInv(i)'

LEMMA SameSessions ==
  ASSUME CloseInv, UNCHANGED <<made, state, handle, readTask>>
  PROVE  SessionsOnward
  BY DEF SessionsOnward, Onward, CloseInv, TypeOK, IsClosing, Released,
         SessionInv

(* The calls of other actors are not disturbed.                            *)
LEMMA OneActorMoves ==
  ASSUME CloseInv, TypeOK', SessionsOnward, NEW a \in Actor,
         \A b \in Actor : b # a => call'[b] = call[b],
         HoldsMade(a)', CloserInv(a)'
  PROVE  CloseInv'
  <1>1. ASSUME NEW b \in Actor, b # a PROVE HoldsMade(b)' /\ CloserInv(b)'
    <2>1. PICK r \in CallRec : r = call[b] /\ r = call'[b]
      BY <1>1, CallTyped DEF CloseInv
    <2>2. r.ref \in 0 .. MaxMade BY DEF CallRec
    <2>3. HoldsMade(b) /\ CloserInv(b) BY DEF CloseInv
    <2>4. made \in 0 .. MaxMade /\ made' \in 0 .. MaxMade /\ made <= made'
      BY DEF SessionsOnward, CloseInv, TypeOK
    <2>5. HoldsMade(b)'
      BY <2>1, <2>2, <2>3, <2>4, ManagerAssumption DEF HoldsMade, Ref
    <2>6. ASSUME r.pc \in {"release", "closed"}
          PROVE  /\ state'[r.ref] \in {"closing", "closed"}
                 /\ r.pc = "closed" => /\ handle'[r.ref] = "closed"
                                       /\ readTask'[r.ref] = "ended"
      <3>1. r.ref \in Made BY <2>1, <2>3, <2>6 DEF HoldsMade, Ref
      <3>2. Onward(r.ref) BY <3>1 DEF SessionsOnward
      <3>3. IsClosing(r.ref) /\ (r.pc = "closed" => Released(r.ref))
        BY <2>1, <2>3, <2>6 DEF CloserInv, At, Ref
      <3> QED BY <3>2, <3>3 DEF Onward, IsClosing, Released
    <2>7. CloserInv(b)'
      BY <2>1, <2>6 DEF CloserInv, At, Ref, IsClosing, Released
    <2> QED BY <2>5, <2>7
  <1>2. \A b \in Actor : HoldsMade(b)' /\ CloserInv(b)' BY <1>1
  <1> QED BY <1>2 DEF CloseInv, SessionsOnward

(* Steps of a that touch nothing of the session but its idleness.          *)
LEMMA QuietStep ==
  ASSUME CloseInv, NEW a \in Actor, NEW pc, NEW i \in 0 .. MaxMade,
         Moves(a, pc, i),
         UNCHANGED <<made, kind, state, handle, readTask>>,
         map' \in 0 .. made, idle' \in [Made -> BOOLEAN],
         raced' \in BOOLEAN,
         pc \notin {"release", "closed"}, i <= made,
         pc \notin {"idle", "open", "recheck", "take"} => i # 0
  PROVE  CloseInv'
  <1>1. TypeOK' BY DEF CloseInv, TypeOK, Moves
  <1>2. SessionsOnward BY SameSessions
  <1>3. HoldsMade(a)'
    BY ManagerAssumption DEF Moves, HoldsMade, Ref, CloseInv, TypeOK, Made
  <1>4. CloserInv(a)' BY DEF Moves, CloserInv, At
  <1> QED BY <1>1, <1>2, <1>3, <1>4, OneActorMoves DEF Moves
-----------------------------------------------------------------------------
(* A call is where a call can be, and holds a session that was made.       *)
LEMMA CallFacts ==
  ASSUME CloseInv, NEW a \in Actor
  PROVE  /\ Ref(a) \in 0 .. MaxMade /\ Ref(a) <= made
         /\ call[a].pc \notin {"idle", "open", "recheck", "take"}
              => Ref(a) \in Made /\ Ref(a) # 0
         /\ TypeOK
  BY CallTyped DEF CloseInv, HoldsMade, Made

LEMMA BeginStep ==
  ASSUME CloseInv, NEW a \in Actor, NEW pc \in Pc \ {"release", "closed"},
         NEW op \in Op, NEW i \in 0 .. made, Begin(a, op, pc, i),
         map' \in 0 .. made, UNCHANGED sess,
         pc \notin {"open", "recheck"} => i # 0
  PROVE  CloseInv'
  <1>0. made \in 0 .. MaxMade BY DEF CloseInv, TypeOK
  <1>1. i \in 0 .. MaxMade /\ i <= made BY <1>0, ManagerAssumption
  <1>2. Moves(a, pc, i) BY <1>1, MovesByBegin DEF CloseInv
  <1>3. raced' \in BOOLEAN
    BY DEF Begin, CloseInv, TypeOK
  <1>4. CASE pc = "idle" \/ pc = "take" \/ pc \in {"open", "recheck"}
    BY <1>1, <1>2, <1>3, <1>4, QuietStep DEF sess, CloseInv, TypeOK
  <1>5. CASE pc \notin {"idle", "take", "open", "recheck"}
    BY <1>1, <1>2, <1>3, <1>5, QuietStep DEF sess, CloseInv, TypeOK
  <1> QED BY <1>4, <1>5

(* A step that goes on to pc with the same session, or returns.            *)
LEMMA GoOnStep ==
  ASSUME CloseInv, NEW a \in Actor, NEW pc \in Pc \ {"release", "closed"},
         call[a].pc \notin {"idle", "open", "recheck", "take"}
           \/ pc \in {"idle", "open", "recheck", "take"},
         GoTo(a, pc) \/ Return(a),
         UNCHANGED <<made, kind, state, handle, readTask>>,
         map' \in 0 .. made, idle' \in [Made -> BOOLEAN],
         raced' \in BOOLEAN
  PROVE  CloseInv'
  <1>0. 0 \in 0 .. MaxMade /\ 0 <= made
    BY ManagerAssumption DEF CloseInv, TypeOK
  <1>1. CASE GoTo(a, pc)
    <2>1. Moves(a, pc, Ref(a)) BY <1>1, CallFacts, MovesByGoTo
    <2> QED BY <2>1, CallFacts, QuietStep
  <1>2. CASE Return(a)
    <2>1. Moves(a, "idle", 0) BY <1>2, CallFacts, MovesByReturn
    <2> QED BY <1>0, <2>1, QuietStep
  <1> QED BY <1>1, <1>2

(* Looking a session up, and what follows.                                 *)
LEMMA CallStepKeeps ==
  ASSUME CloseInv, NEW a \in Actor,
         \/ OpenFails(a) \/ Insert(a) \/ Use(a) \/ Cleanup(a)
         \/ Remove(a) \/ DetachCheck(a) \/ DetachAnswer(a)
         \/ ReconnectCheck(a)
  PROVE  CloseInv'
  <1>0. /\ map \in 0 .. made /\ 0 \in 0 .. made /\ idle \in [Made -> BOOLEAN]
        /\ raced \in BOOLEAN
    BY DEF CloseInv, TypeOK
  <1>1. CASE OpenFails(a) \/ Remove(a)
    BY <1>0, <1>1, GoOnStep DEF OpenFails, Remove, sess, Same, Pc
  <1>2. CASE Insert(a)
    <2>1. map' \in 0 .. made BY <1>2, CallFacts DEF Insert, At, CloseInv, TypeOK
    <2> QED BY <1>0, <1>2, <2>1, GoOnStep DEF Insert, sess, Same, Pc
  <1>3. CASE Use(a)
    <2>1. idle' \in [Made -> BOOLEAN] BY <1>0, <1>3 DEF Use
    <2>2. GoTo(a, "cleanup") \/ Return(a) BY <1>3 DEF Use
    <2>3. call[a].pc = "check" BY <1>3 DEF Use, At
    <2> QED BY <1>0, <1>3, <2>1, <2>2, <2>3, GoOnStep DEF Use, Same, Pc
  <1>4. CASE Cleanup(a)
    <2>1. GoTo(a, "remove") \/ Return(a) BY <1>4 DEF Cleanup
    <2>2. call[a].pc = "cleanup" BY <1>4 DEF Cleanup, At
    <2> QED BY <1>0, <1>4, <2>1, <2>2, GoOnStep DEF Cleanup, sess, Same, Pc
  <1>5. CASE DetachCheck(a)
    <2>1. GoTo(a, "detach") \/ Return(a) BY <1>5 DEF DetachCheck
    <2>2. call[a].pc = "check" BY <1>5 DEF DetachCheck, At
    <2> QED BY <1>0, <1>5, <2>1, <2>2, GoOnStep DEF DetachCheck, sess, Same, Pc
  <1>6. CASE DetachAnswer(a)
    <2>1. GoTo(a, "remove") \/ Return(a) BY <1>6 DEF DetachAnswer
    <2>2. call[a].pc = "detaching" BY <1>6 DEF DetachAnswer, At
    <2> QED BY <1>0, <1>6, <2>1, <2>2, GoOnStep DEF DetachAnswer, sess, Same, Pc
  <1>7. CASE ReconnectCheck(a)
    <2>1. GoTo(a, "close") \/ Return(a) BY <1>7 DEF ReconnectCheck
    <2>2. call[a].pc = "check" BY <1>7 DEF ReconnectCheck, At
    <2> QED BY <1>0, <1>7, <2>1, <2>2, GoOnStep
            DEF ReconnectCheck, sess, Same, Pc
  <1> QED BY <1>1, <1>2, <1>3, <1>4, <1>5, <1>6, <1>7

(* The steps that begin a call, and the reaper's.                          *)
LEMMA StartKeeps ==
  ASSUME CloseInv, NEW a \in Actor,
         \/ Open(a) \/ Take(a) \/ Collect \/ Recheck \/ ReaperTake
         \/ \E op \in Op : Get(a, op)
  PROVE  CloseInv'
  <1>0. /\ map \in 0 .. made /\ 0 \in 0 .. made /\ idle \in [Made -> BOOLEAN]
        /\ raced \in BOOLEAN /\ Reaper \in Actor
    BY DEF CloseInv, TypeOK, Actor
  <1>1. CASE Open(a) BY <1>0, <1>1, BeginStep DEF Open, Pc, Op
  <1>2. CASE Take(a) BY <1>0, <1>2, BeginStep DEF Take, Pc, Op
  <1>3. CASE Collect BY <1>0, <1>3, BeginStep DEF Collect, Pc, Op
  <1>4. CASE Recheck
    <2>1. GoTo(Reaper, "take") \/ Return(Reaper) BY <1>4 DEF Recheck
    <2> QED BY <1>0, <1>4, <2>1, GoOnStep DEF Recheck, sess, Same, Pc
  <1>5. CASE ReaperTake
    <2>1. CASE map # 0
      <3>0. made \in 0 .. MaxMade BY DEF CloseInv, TypeOK
      <3>1. map \in 0 .. MaxMade BY <1>0, <3>0, ManagerAssumption
      <3>2. Moves(Reaper, "close", map)
        BY <1>0, <1>5, <2>1, <3>1, MovesTo DEF ReaperTake, CloseInv, Pc
      <3> QED BY <1>0, <1>5, <2>1, <3>1, <3>2, QuietStep
              DEF ReaperTake, sess, Same
    <2>2. CASE map = 0
      BY <1>0, <1>5, <2>2, GoOnStep DEF ReaperTake, sess, Same, Pc
    <2> QED BY <2>1, <2>2
  <1>6. ASSUME NEW op \in Op, Get(a, op)
        PROVE  CloseInv'
    BY <1>0, <1>6, BeginStep DEF Get, Pc, Op
  <1> QED BY <1>1, <1>2, <1>3, <1>4, <1>5, <1>6
-----------------------------------------------------------------------------
(* A step that moves a call and one session, neither of them back.         *)
LEMMA SessionStep ==
  ASSUME CloseInv, NEW a \in Actor, NEW pc, NEW i \in 0 .. MaxMade,
         Moves(a, pc, i), TypeOK', SessionsOnward, i <= made',
         pc \notin {"idle", "open", "recheck", "take"} => i # 0,
         pc = "release" => IsClosing(i)',
         pc = "closed" => IsClosing(i)' /\ Released(i)'
  PROVE  CloseInv'
  <1>1. HoldsMade(a)'
    BY ManagerAssumption DEF Moves, HoldsMade, Ref, Made
  <1>2. CloserInv(a)'
    BY DEF Moves, CloserInv, At, Ref, IsClosing, Released
  <1> QED BY <1>1, <1>2, OneActorMoves DEF Moves

(* A new session is ready and read.                                        *)
LEMMA EstablishKeeps ==
  ASSUME CloseInv, NEW a \in Actor, NEW k \in {"interactive", "persistent"},
         Establish(a, k)
  PROVE  CloseInv' /\ SessionsOnward
  <1> DEFINE i == made + 1
  <1>1. i \in Made /\ made \in 0 .. MaxMade /\ i \in 0 .. MaxMade
    BY ManagerAssumption DEF Establish, CloseInv, TypeOK, Made
  <1>2. Moves(a, "insert", i)
    BY <1>1, MovesTo DEF Establish, CloseInv, Pc
  <1>3. TypeOK'
    BY <1>1, <1>2, ManagerAssumption
    DEF Establish, CloseInv, TypeOK, Moves, Same
  <1>4. SessionsOnward
    <2>1. made' = i /\ made' \in 0 .. MaxMade /\ made <= made'
      BY <1>1 DEF Establish
    <2>2. ASSUME NEW j \in Made PROVE Onward(j) /\ SessionInv(j)'
      <3>1. CASE j = i
        <4>1. state[j] = "none" /\ readTask[j] = "none"
          BY <1>1, <3>1 DEF CloseInv, SessionInv
        <4>2. state'[j] = "ready" /\ readTask'[j] = "running"
          BY <3>1, <1>1 DEF Establish, CloseInv, TypeOK
        <4> QED BY <1>1, <2>1, <3>1, <4>1, <4>2
                DEF Onward, SessionInv, IsClosing, Released
      <3>2. CASE j # i
        <4>1. /\ state'[j] = state[j] /\ readTask'[j] = readTask[j]
              /\ handle'[j] = handle[j]
          BY <3>2, <1>1 DEF Establish, CloseInv, TypeOK
        <4>2. SessionInv(j) /\ j \in Nat BY DEF CloseInv, Made
        <4>3. j > made' => j > made BY <1>1, <2>1, <4>2
        <4> QED BY <4>1, <4>2, <4>3
                DEF Onward, SessionInv, IsClosing, Released
      <3> QED BY <3>1, <3>2
    <2> QED BY <2>1, <2>2 DEF SessionsOnward
  <1>5. i <= made' /\ i # 0 BY <1>1 DEF Establish
  <1> QED BY <1>1, <1>2, <1>3, <1>4, <1>5, SessionStep

(* A step that changes one session of those made.                          *)
LEMMA OneSession ==
  ASSUME CloseInv, TypeOK', NEW i \in Made, i <= made, made' = made,
         \A j \in Made : j # i => /\ state'[j] = state[j]
                                  /\ handle'[j] = handle[j]
                                  /\ readTask'[j] = readTask[j],
         Onward(i), state'[i] = "closed" => Released(i)',
         state'[i] = "ready" => readTask'[i] = "running"
  PROVE  SessionsOnward
  <1>1. made \in 0 .. MaxMade BY DEF CloseInv, TypeOK
  <1>2. ASSUME NEW j \in Made PROVE Onward(j) /\ SessionInv(j)'
    <2>1. CASE j = i BY <1>1, <2>1 DEF SessionInv, Made
    <2>2. CASE j # i
      BY <2>2 DEF CloseInv, SessionInv, Onward, IsClosing, Released
    <2> QED BY <2>1, <2>2
  <1> QED BY <1>1, <1>2, ManagerAssumption DEF SessionsOnward
-----------------------------------------------------------------------------
(* The steps of Session::close and the flag of a detach.  None of them     *)
(* takes a mark or a release back.                                         *)
LEMMA MarkKeeps ==
  ASSUME CloseInv, NEW a \in Actor, SetClosing(a) \/ Release(a)
  PROVE  CloseInv' /\ SessionsOnward
  <1>1. Ref(a) \in Made /\ Ref(a) # 0 /\ Ref(a) <= made
        /\ Ref(a) \in 0 .. MaxMade /\ TypeOK
    BY CallFacts DEF SetClosing, Release, At
  <1>2. PICK i : i = Ref(a) OBVIOUS
  <1>3. CASE SetClosing(a)
    <2>1. Moves(a, "release", i) BY <1>1, <1>2, <1>3, MovesByGoTo
          DEF SetClosing, Pc
    <2>2. TypeOK' BY <1>1, <1>2, <1>3, <2>1
          DEF SetClosing, TypeOK, Moves, Same
    <2>3. state'[i] = "closing" BY <1>1, <1>2, <1>3 DEF SetClosing, TypeOK
    <2>4. SessionsOnward
      BY <1>1, <1>2, <1>3, <2>2, <2>3, OneSession
      DEF SetClosing, TypeOK, Onward, IsClosing, Released
    <2> QED BY <1>1, <1>2, <1>3, <2>1, <2>2, <2>3, <2>4, SessionStep
            DEF SetClosing, IsClosing
  <1>4. CASE Release(a)
    <2>1. Moves(a, "closed", i) BY <1>1, <1>2, <1>4, MovesByGoTo
          DEF Release, Pc
    <2>2. TypeOK' BY <1>1, <1>2, <1>4, <2>1
          DEF Release, TypeOK, Moves, Same
    <2>3. handle'[i] = "closed" /\ readTask'[i] = "ended" /\ state' = state
      BY <1>1, <1>2, <1>4 DEF Release, TypeOK
    <2>4. IsClosing(i) BY <1>2, <1>4 DEF CloseInv, CloserInv, Release
    <2>5. Onward(i) /\ Released(i)' /\ IsClosing(i)'
      BY <2>3, <2>4 DEF Onward, IsClosing, Released
    <2>6. state'[i] # "ready" BY <2>5 DEF IsClosing
    <2>7. SessionsOnward
      BY <1>1, <1>2, <1>4, <2>2, <2>5, <2>6, OneSession
      DEF Release, TypeOK
    <2> QED BY <1>1, <1>2, <1>4, <2>1, <2>2, <2>5, <2>7, SessionStep
            DEF Release
  <1> QED BY <1>3, <1>4

LEMMA DetachFlagKeeps ==
  ASSUME CloseInv, NEW a \in Actor, DetachFlag(a)
  PROVE  CloseInv' /\ SessionsOnward
  <1>1. Ref(a) \in Made /\ Ref(a) # 0 /\ Ref(a) <= made
        /\ Ref(a) \in 0 .. MaxMade /\ TypeOK
    BY CallFacts DEF DetachFlag, At
  <1>2. PICK i : i = Ref(a) OBVIOUS
  <1>3. PICK pc \in {"remove", "detaching"} : GoTo(a, pc)
    BY DEF DetachFlag
  <1>4. Moves(a, pc, i) BY <1>1, <1>2, <1>3, MovesByGoTo DEF Pc
  <1>5. TypeOK' BY <1>1, <1>2, <1>4 DEF DetachFlag, TypeOK, Moves, Same
  <1>6. handle'[i] = "closed" /\ state' = state /\ readTask' = readTask
    BY <1>1, <1>2 DEF DetachFlag, TypeOK
  <1>7. Onward(i) BY <1>6 DEF Onward, IsClosing, Released
  <1>8. /\ state'[i] = "closed" => Released(i)'
        /\ state'[i] = "ready" => readTask'[i] = "running"
    BY <1>1, <1>2, <1>6 DEF CloseInv, SessionInv, Released
  <1>9. SessionsOnward
    BY <1>1, <1>2, <1>5, <1>7, <1>8, OneSession DEF DetachFlag, TypeOK
  <1> QED BY <1>1, <1>2, <1>4, <1>5, <1>9, SessionStep DEF DetachFlag

(* The end of Session::close: a reconnect goes on to open, others return.  *)
LEMMA AfterCloseMoves ==
  ASSUME TypeOK, NEW a \in Actor, AfterClose(a)
  PROVE  /\ raced' \in BOOLEAN
         /\ \E pc \in {"open", "idle"} : Moves(a, pc, 0)
  <1>1. raced' \in BOOLEAN
    BY DEF AfterClose, TypeOK
  <1>2. CASE call[a].op = "reconnect"
    <2>1. call' = [call EXCEPT ![a].pc = "open", ![a].ref = 0]
      BY <1>2 DEF AfterClose
    <2>2. 0 \in 0 .. MaxMade BY ManagerAssumption
    <2>3. Moves(a, "open", 0) BY <2>1, <2>2, MovesTo DEF Pc
    <2> QED BY <1>1, <2>3
  <1>3. CASE call[a].op # "reconnect"
    BY <1>1, <1>3, MovesByReturn DEF AfterClose
  <1> QED BY <1>1, <1>2, <1>3

LEMMA SetClosedKeeps ==
  ASSUME CloseInv, NEW a \in Actor, SetClosed(a)
  PROVE  CloseInv' /\ SessionsOnward
  <1>1. Ref(a) \in Made /\ Ref(a) <= made /\ TypeOK
    BY CallFacts DEF SetClosed, At
  <1>2. PICK i : i = Ref(a) OBVIOUS
  <1>3. PICK pc \in {"open", "idle"} : Moves(a, pc, 0)
    BY <1>1, AfterCloseMoves DEF SetClosed
  <1>4. TypeOK'
    BY <1>1, <1>2, <1>3, AfterCloseMoves DEF SetClosed, TypeOK, Moves
  <1>5. /\ state'[i] = "closed" /\ handle' = handle
        /\ readTask' = readTask /\ Released(i)
    BY <1>1, <1>2 DEF SetClosed, TypeOK, CloseInv, CloserInv
  <1>6. Onward(i) /\ Released(i)' BY <1>5 DEF Onward, IsClosing, Released
  <1>7. SessionsOnward
    BY <1>1, <1>2, <1>4, <1>5, <1>6, OneSession DEF SetClosed, TypeOK
  <1>8. made' \in 0 .. MaxMade /\ 0 <= made' /\ 0 \in 0 .. MaxMade
    BY <1>7, ManagerAssumption DEF SessionsOnward
  <1> QED BY <1>3, <1>4, <1>7, <1>8, SessionStep

LEMMA CloseCheckKeeps ==
  ASSUME CloseInv, NEW a \in Actor, CloseCheck(a)
  PROVE  CloseInv'
  <1>1. /\ map \in 0 .. made /\ idle \in [Made -> BOOLEAN] /\ TypeOK
        /\ raced \in BOOLEAN /\ made \in 0 .. MaxMade
    BY DEF CloseInv, TypeOK
  <1>2. CASE state[Ref(a)] = "closed"
    <2>1. AfterClose(a) BY <1>2 DEF CloseCheck
    <2>2. PICK pc \in {"open", "idle"} : Moves(a, pc, 0)
      BY <1>1, <2>1, AfterCloseMoves
    <2>3. 0 \in 0 .. MaxMade /\ 0 <= made BY <1>1, ManagerAssumption
    <2> QED BY <1>1, <2>1, <2>2, <2>3, AfterCloseMoves, QuietStep
            DEF CloseCheck, sess
  <1>3. CASE state[Ref(a)] # "closed"
    <2>1. call[a].pc = "close" /\ GoTo(a, "closing") /\ Same
      BY <1>3 DEF CloseCheck, At
    <2> QED BY <1>1, <2>1, GoOnStep DEF CloseCheck, sess, Same, Pc
  <1> QED BY <1>2, <1>3

(* Steps of no call: the read task's, the clock's and a close of nothing.  *)
LEMMA NoCallStep ==
  ASSUME CloseInv, TypeOK', SessionsOnward, call' = call
  PROVE  CloseInv'
  <1>1. Reaper \in Actor BY DEF Actor
  <1>2. PICK a \in Actor : a = Reaper BY <1>1
  <1>3. PICK r \in CallRec : r = call[a] /\ r = call'[a]
    BY CallTyped DEF CloseInv
  <1>4. r.ref \in 0 .. MaxMade /\ made \in 0 .. MaxMade
        /\ made' \in 0 .. MaxMade /\ made <= made'
    BY DEF CallRec, SessionsOnward, CloseInv, TypeOK
  <1>5. HoldsMade(a)'
    BY <1>3, <1>4, ManagerAssumption DEF CloseInv, HoldsMade, Ref
  <1>6. ASSUME r.pc \in {"release", "closed"}
        PROVE  IsClosing(r.ref)' /\ (r.pc = "closed" => Released(r.ref)')
    <2>1. r.ref \in Made BY <1>3, <1>6 DEF CloseInv, HoldsMade, Ref
    <2>2. Onward(r.ref) BY <2>1 DEF SessionsOnward
    <2>3. IsClosing(r.ref) /\ (r.pc = "closed" => Released(r.ref))
      BY <1>3, <1>6 DEF CloseInv, CloserInv, At, Ref
    <2> QED BY <2>2, <2>3 DEF Onward
  <1>7. CloserInv(a)'
    BY <1>3, <1>6 DEF CloserInv, At, Ref, IsClosing, Released
  <1> QED BY <1>5, <1>7, OneActorMoves

LEMMA BackgroundKeeps ==
  ASSUME CloseInv, NEW i \in Made, ReadEnds(i) \/ TimePasses(i)
  PROVE  CloseInv' /\ SessionsOnward
  <1>1. TypeOK'
    BY DEF CloseInv, TypeOK, ReadEnds, TimePasses, Same
  <1>2. call' = call BY DEF ReadEnds, TimePasses
  <1>3. CASE ReadEnds(i)
    <2>1. made \in 0 .. MaxMade /\ i \in Nat
      BY DEF CloseInv, TypeOK, Made
    <2>2. i <= made
      BY <1>3, <2>1, ManagerAssumption DEF ReadEnds, CloseInv, SessionInv
    <2>3. /\ state'[i] = IF state[i] = "ready" THEN "lost" ELSE state[i]
          /\ readTask'[i] = "ended" /\ handle' = handle /\ made' = made
          /\ readTask[i] = "running"
      BY <1>3 DEF ReadEnds, CloseInv, TypeOK
    <2>4. state[i] # "closed"
      BY <2>3 DEF CloseInv, SessionInv, Released
    <2>5. Onward(i) BY <2>3 DEF Onward, IsClosing, Released
    <2> QED BY <1>1, <1>2, <1>3, <2>2, <2>3, <2>4, <2>5, OneSession, NoCallStep
            DEF ReadEnds, CloseInv, TypeOK
  <1>4. CASE TimePasses(i)
    BY <1>1, <1>2, <1>4, SameSessions, NoCallStep DEF TimePasses
  <1> QED BY <1>3, <1>4
-----------------------------------------------------------------------------
LEMMA StepKeeps ==
  ASSUME CloseInv, [Next]_vars
  PROVE  CloseInv' /\ SessionsOnward
  <1>1. CASE UNCHANGED vars
    <2>1. TypeOK' BY <1>1 DEF CloseInv, TypeOK, vars
    <2> QED BY <1>1, <2>1, SameSessions, NoCallStep DEF vars
  <1>2. CASE Collect \/ Recheck \/ ReaperTake
    <2>1. PICK a \in Actor : a = Reaper BY DEF Actor
    <2>2. CloseInv' BY <1>2, <2>1, StartKeeps
    <2> QED BY <1>2, <2>2, SameSessions
            DEF Collect, Recheck, ReaperTake, sess
  <1>3. ASSUME NEW i \in Made, ReadEnds(i) \/ TimePasses(i)
        PROVE  CloseInv' /\ SessionsOnward
    BY <1>3, BackgroundKeeps
  <1>4. ASSUME NEW a \in Actor,
               \/ Open(a) \/ Take(a)
               \/ \E op \in Op : Get(a, op)
        PROVE  CloseInv' /\ SessionsOnward
    <2>1. CloseInv' BY <1>4, StartKeeps
    <2> QED BY <1>4, <2>1, SameSessions DEF Open, Take, Get, sess
  <1>5. ASSUME NEW a \in Actor,
               \/ OpenFails(a) \/ Insert(a) \/ Use(a) \/ Cleanup(a)
               \/ Remove(a) \/ DetachCheck(a) \/ DetachAnswer(a)
               \/ ReconnectCheck(a)
        PROVE  CloseInv' /\ SessionsOnward
    <2>1. CloseInv' BY <1>5, CallStepKeeps
    <2> QED BY <1>5, <2>1, SameSessions
            DEF OpenFails, Insert, Use, Cleanup, Remove, DetachCheck,
                DetachAnswer, ReconnectCheck, sess
  <1>6. ASSUME NEW a \in Actor, CloseCheck(a)
        PROVE  CloseInv' /\ SessionsOnward
    <2>1. CloseInv' BY <1>6, CloseCheckKeeps
    <2> QED BY <1>6, <2>1, SameSessions DEF CloseCheck, sess
  <1>7. ASSUME NEW a \in Actor,
               \/ SetClosing(a) \/ Release(a) \/ SetClosed(a)
               \/ DetachFlag(a)
               \/ \E k \in {"interactive", "persistent"} : Establish(a, k)
        PROVE  CloseInv' /\ SessionsOnward
    BY <1>7, MarkKeeps, SetClosedKeeps, DetachFlagKeeps, EstablishKeeps
  <1> QED BY <1>1, <1>2, <1>3, <1>4, <1>5, <1>6, <1>7 DEF Next, CloseStep

(* The invariant: every reachable state has it, whatever the callers, the  *)
(* reaper and the read tasks do.                                           *)
THEOREM ManagerInvariant == Spec => []CloseInv
  <1>1. Init => CloseInv
    <2> SUFFICES ASSUME Init PROVE CloseInv OBVIOUS
    <2>1. TypeOK
      <3>1. map \in 0 .. made /\ made \in 0 .. MaxMade
        BY ManagerAssumption DEF Init
      <3>2. call \in [Actor -> CallRec] BY NoCallRecord DEF Init
      <3> QED BY <3>1, <3>2 DEF Init, TypeOK
    <2>2. \A a \in Actor : call[a] = NoCall BY DEF Init
    <2>3. \A a \in Actor : HoldsMade(a) /\ CloserInv(a)
      BY <2>2, NoCallRecord DEF HoldsMade, CloserInv, At, Ref, Init
    <2>4. \A i \in Made : SessionInv(i) BY DEF Init, SessionInv
    <2> QED BY <2>1, <2>3, <2>4 DEF CloseInv
  <1>2. CloseInv /\ [Next]_vars => CloseInv' BY StepKeeps
  <1> QED BY <1>1, <1>2, PTL DEF Spec

(* A closed session holds no connection and no read task.                  *)
THEOREM ClosedIsReleased == Spec => []ClosedMeansReleased
  <1>1. CloseInv => ClosedMeansReleased
    BY DEF CloseInv, SessionInv, Released, ClosedMeansReleased
  <1> QED BY <1>1, ManagerInvariant, PTL

(* A session that calls itself ready is being read.                        *)
THEOREM ReadyIsRead == Spec => []ReadyMeansRead
  <1>1. CloseInv => ReadyMeansRead BY DEF CloseInv, SessionInv, ReadyMeansRead
  <1> QED BY <1>1, ManagerInvariant, PTL

(* A session's state is true of its terminal and its read task.            *)
THEOREM StatesAreTrue == Spec => []StateIsTrue
  <1>1. CloseInv => TypeOK BY DEF CloseInv
  <1>2. TypeOK /\ ClosedMeansReleased /\ ReadyMeansRead => StateIsTrue
    BY DEF StateIsTrue
  <1> QED BY <1>1, <1>2, ManagerInvariant, ClosedIsReleased, ReadyIsRead, PTL

(* No interleaving of two closers, the read task and the other calls takes *)
(* a session that is being closed back to ready or lost.                   *)
THEOREM ClosingStays == Spec => ClosingIsFinal
  <1>1. CloseInv /\ [Next]_vars =>
          [\A i \in Made : state[i] \in {"closing", "closed"}
                           => state'[i] \in {"closing", "closed"}]_vars
    BY StepKeeps DEF SessionsOnward, Onward, IsClosing
  <1> QED BY <1>1, ManagerInvariant, PTL DEF Spec, ClosingIsFinal
-----------------------------------------------------------------------------
(* A session that was neither closed nor detached stays in the map.        *)

(* Its state and its terminal say that it goes on.                         *)
Alive(i) == state[i] \in {"ready", "lost"} /\ handle[i] = "open"

(* Where a call of each kind can be.                                       *)
PcOf(op) ==
  CASE op = "none" -> {"idle"}
    [] op = "open" -> {"open", "insert"}
    [] op \in {"send", "resize", "read"} -> {"check", "cleanup", "remove"}
    [] op = "detach" -> {"check", "detach", "detaching", "remove"}
    [] op = "reconnect" -> {"check", "close", "closing", "release", "closed",
                            "open", "insert"}
    [] op = "close" -> {"close", "closing", "release", "closed"}
    [] op = "reap" -> {"recheck", "take", "close", "closing", "release",
                       "closed"}

(* What a call knows of the map while no reconnect has overlapped another  *)
(* call.  An open is the first of its kind and nobody has seen a session   *)
(* yet.  A call that has looked a session up finds that one in the map, or *)
(* none, and removes it only when it has ended.  A reconnect is alone, so  *)
(* that what it puts its session in the place of is what it has closed.    *)
KeptCall(a) ==
  /\ call[a].pc \in PcOf(call[a].op)
  /\ call[a].op = "open" =>
       /\ map = 0 /\ (At(a, "open") => made = 0)
       /\ \A b \in Actor \ {a} : Ref(b) = 0 /\ call[b].op # "open"
  /\ call[a].op \in {"send", "resize", "read", "detach"} => map \in {0, Ref(a)}
  /\ call[a].pc \in {"remove", "detaching"} => ~Alive(Ref(a))
  /\ call[a].op = "reconnect" =>
       /\ \A b \in Actor \ {a} : call[b].op = "none"
       /\ IF call[a].pc \in {"open", "insert"}
          THEN map # 0 => ~Alive(map)
          ELSE map = Ref(a)

Leaving(a, i) == Ending(a) /\ Ref(a) = i
KeptSession(i) == Alive(i) => map = i \/ \E a \in Actor : Leaving(a, i)

Kept == (\A a \in Actor : KeptCall(a)) /\ (\A i \in Made : KeptSession(i))
KeptInv == ~raced => Kept

(* The kind of a call stays until it returns.                              *)
LEMMA OpStays ==
  ASSUME TypeOK, NEW a \in Actor
  PROVE  /\ \A pc \in Pc : GoTo(a, pc) => call'[a].op = call[a].op
         /\ \A pc \in Pc, i \in 0 .. MaxMade :
              call' = [call EXCEPT ![a].pc = pc, ![a].ref = i]
                => call'[a].op = call[a].op
         /\ Return(a) => call'[a].op = "none"
         /\ \A op \in Op, pc \in Pc, i \in 0 .. MaxMade :
              Begin(a, op, pc, i) => call'[a].op = op
  BY DEF TypeOK, CallRec, GoTo, Return, NoCall, Begin

(* No session comes to life, and the map at most loses its own.            *)
Wanes ==
  /\ \A i \in Made : Alive(i)' => Alive(i)
  /\ map' \in {0, map} /\ made' = made

(* A step of a that only takes away leaves every other call as it was.     *)
LEMMA OthersKept ==
  ASSUME CloseInv, Kept, NEW a \in Actor, Wanes,
         call[a].op # "none" \/ \A b \in Actor : call[b].op # "reconnect",
         Ref(a)' \in {0, Ref(a), map},
         \/ call'[a].op # "open" \/ call[a].op = "open"
         \/ \A c \in Actor : call[c].op # "open",
         NEW b \in Actor, b # a,
         \A c \in Actor : c # a => call'[c] = call[c]
  PROVE  KeptCall(b)'
  <1>1. KeptCall(b) /\ HoldsMade(b) BY DEF Kept, CloseInv
  <1>2. call'[b] = call[b] /\ Ref(b)' = Ref(b) /\ Ref(b) \in 0 .. MaxMade
    BY CallTyped DEF CloseInv, Ref
  <1>3. call[b].op # "reconnect"
    BY <1>1 DEF KeptCall
  <1>4. call[b].pc \in {"remove", "detaching"} => ~Alive(Ref(b))'
    BY <1>1, <1>2 DEF KeptCall, HoldsMade, Wanes
  <1>5. ASSUME call[b].op = "open"
        PROVE  /\ map' = 0 /\ (At(b, "open") => made' = 0)
               /\ \A c \in Actor \ {b} : Ref(c)' = 0 /\ call'[c].op # "open"
    <2>1. map = 0 /\ (At(b, "open") => made = 0)
          /\ \A c \in Actor \ {b} : Ref(c) = 0 /\ call[c].op # "open"
      BY <1>1, <1>5 DEF KeptCall
    <2>2. map' = 0 /\ (At(b, "open") => made' = 0) BY <2>1 DEF Wanes
    <2>3. Ref(a)' = 0 /\ call'[a].op # "open" BY <1>5, <2>1
    <2>4. ASSUME NEW c \in Actor \ {b}
          PROVE  Ref(c)' = 0 /\ call'[c].op # "open"
      <3>1. CASE c = a BY <2>3, <3>1
      <3>2. CASE c # a BY <2>1, <3>2 DEF Ref
      <3> QED BY <3>1, <3>2
    <2> QED BY <2>2, <2>4
  <1>6. map \in {0, Ref(b)} => map' \in {0, Ref(b)} BY DEF Wanes
  <1> QED BY <1>1, <1>2, <1>3, <1>4, <1>5, <1>6 DEF KeptCall, At

(* A session is lost to the map only by the step of the one that moves.    *)
LEMMA SessionsKept ==
  ASSUME Kept, NEW a \in Actor,
         \A b \in Actor : b # a => call'[b] = call[b],
         NEW i \in Made, Alive(i)' => Alive(i),
         Alive(i)' /\ (map = i \/ Leaving(a, i)) => map' = i \/ Leaving(a, i)',
         \A b \in Actor : ~Leaving(b, i) \/ b = a \/ Leaving(b, i)'
  PROVE  KeptSession(i)'
  BY DEF Kept, KeptSession

LEMMA StaysLeaving ==
  ASSUME NEW a \in Actor, NEW i, \A b \in Actor : b # a => call'[b] = call[b]
  PROVE  \A b \in Actor : ~Leaving(b, i) \/ b = a \/ Leaving(b, i)'
  BY DEF Leaving, Ending, Ref
LEMMA WanesKeeps ==
  ASSUME CloseInv, Kept, NEW a \in Actor, Wanes,
         call[a].op # "none" \/ \A b \in Actor : call[b].op # "reconnect",
         Ref(a)' \in {0, Ref(a), map},
         \/ call'[a].op # "open" \/ call[a].op = "open"
         \/ \A c \in Actor : call[c].op # "open",
         \A b \in Actor : b # a => call'[b] = call[b],
         KeptCall(a)',
         \A i \in Made : Alive(i)' /\ (map = i \/ Leaving(a, i))
                           => map' = i \/ Leaving(a, i)'
  PROVE  Kept'
  <1>1. \A b \in Actor : KeptCall(b)' BY OthersKept
  <1>2. \A i \in Made : KeptSession(i)'
    BY SessionsKept, StaysLeaving DEF Wanes
  <1> QED BY <1>1, <1>2 DEF Kept

(* The call of a, of kind op, is now at pc and holds i.                    *)
Does(a, op, pc, i) == Moves(a, pc, i) /\ call'[a].op = op

LEMMA DoesGoTo ==
  ASSUME TypeOK, NEW a \in Actor, NEW pc \in Pc, GoTo(a, pc)
  PROVE  Does(a, call[a].op, pc, Ref(a))
  BY MovesByGoTo, OpStays DEF Does

LEMMA DoesReturn ==
  ASSUME TypeOK, NEW a \in Actor, Return(a)
  PROVE  Does(a, "none", "idle", 0)
  BY MovesByReturn, OpStays DEF Does

LEMMA DoesBegin ==
  ASSUME TypeOK, NEW a \in Actor, NEW i \in 0 .. MaxMade, NEW pc \in Pc,
         NEW op \in Op, Begin(a, op, pc, i)
  PROVE  Does(a, op, pc, i)
  BY MovesByBegin, OpStays DEF Does

LEMMA DoesMoveTo ==
  ASSUME TypeOK, NEW a \in Actor, NEW i \in 0 .. MaxMade, NEW pc \in Pc,
         call' = [call EXCEPT ![a].pc = pc, ![a].ref = i]
  PROVE  Does(a, call[a].op, pc, i)
  BY MovesTo, OpStays DEF Does

(* A call that returns is known nothing of, and one that goes on with what *)
(* it holds keeps what it knows if that holds where it arrives.            *)
LEMMA ReturnKept ==
  ASSUME NEW a \in Actor, Does(a, "none", "idle", 0)
  PROVE  KeptCall(a)'
  BY DEF Does, Moves, KeptCall, PcOf

LEMMA GoOnKept ==
  ASSUME CloseInv, Kept, NEW a \in Actor, NEW pc, Wanes,
         Does(a, call[a].op, pc, Ref(a)),
         call[a].op # "open", pc \in PcOf(call[a].op),
         pc \in {"remove", "detaching"} => ~Alive(Ref(a))',
         call[a].op = "reconnect" =>
           map' = map /\ pc \notin {"open", "insert"}
             /\ call[a].pc \notin {"open", "insert"}
  PROVE  KeptCall(a)'
  <1>1. KeptCall(a) BY DEF Kept
  <1>2. /\ call'[a].op = call[a].op /\ call'[a].pc = pc /\ Ref(a)' = Ref(a)
        /\ \A b \in Actor \ {a} : call'[b] = call[b]
    BY DEF Does, Moves, Ref
  <1>3. map \in {0, Ref(a)} => map' \in {0, Ref(a)} BY DEF Wanes
  <1> QED BY <1>1, <1>2, <1>3 DEF KeptCall

LEMMA PcOfKinds ==
  /\ PcOf("none") = {"idle"} /\ PcOf("open") = {"open", "insert"}
  /\ \A op \in {"send", "resize", "read"} :
       PcOf(op) = {"check", "cleanup", "remove"}
  /\ PcOf("detach") = {"check", "detach", "detaching", "remove"}
  /\ PcOf("reconnect") = {"check", "close", "closing", "release", "closed",
                          "open", "insert"}
  /\ PcOf("close") = {"close", "closing", "release", "closed"}
  /\ PcOf("reap") = {"recheck", "take", "close", "closing", "release", "closed"}
  BY DEF PcOf

(* The place where a call is tells what kinds it may be of.                *)
LEMMA KindsAt ==
  ASSUME CloseInv, Kept, NEW a \in Actor
  PROVE  /\ At(a, "idle") <=> call[a].op = "none"
         /\ At(a, "open") \/ At(a, "insert") => call[a].op \in {"open", "reconnect"}
         /\ At(a, "cleanup") => call[a].op \in {"send", "resize", "read"}
         /\ At(a, "remove") => call[a].op \in {"send", "resize", "read", "detach"}
         /\ At(a, "detach") \/ At(a, "detaching") => call[a].op = "detach"
         /\ At(a, "check") =>
              call[a].op \in {"send", "resize", "read", "detach", "reconnect"}
         /\ \A pc \in {"close", "closing", "release", "closed"} :
              At(a, pc) => call[a].op \in {"close", "reap", "reconnect"}
         /\ At(a, "recheck") \/ At(a, "take") => call[a].op = "reap"
  <1>1. call[a].pc \in PcOf(call[a].op) BY DEF Kept, KeptCall
  <1>2. call[a].op \in Op BY DEF CloseInv, TypeOK, CallRec
  <1> QED BY <1>1, <1>2, PcOfKinds DEF Op, At

LEMMA QuietWanes ==
  ASSUME UNCHANGED <<state, handle, made>>, map' \in {0, map}
  PROVE  Wanes
  BY DEF Wanes, Alive
-----------------------------------------------------------------------------
LEMMA ReturnsKeep ==
  ASSUME CloseInv, Kept, NEW a \in Actor, Return(a),
         UNCHANGED <<map, state, handle, made>>,
         \A i \in Made : Leaving(a, i) => ~Alive(i), call[a].op # "none"
  PROVE  Kept'
  <1>1. Does(a, "none", "idle", 0) BY DoesReturn DEF CloseInv
  <1>2. KeptCall(a)' BY <1>1, ReturnKept
  <1>3. Wanes BY QuietWanes
  <1>4. \A i \in Made : Alive(i)' /\ (map = i \/ Leaving(a, i)) => map' = i
    BY <1>3 DEF Wanes
  <1>5. Ref(a)' = 0 /\ call'[a].op = "none"
        /\ \A b \in Actor : b # a => call'[b] = call[b]
    BY <1>1 DEF Does, Moves, Ref
  <1> QED BY <1>2, <1>3, <1>4, <1>5, WanesKeeps

(* A call goes from one place to another and nothing else happens.         *)
LEMMA GoesOnKeeps ==
  ASSUME CloseInv, Kept, NEW a \in Actor, NEW pc \in Pc, GoTo(a, pc),
         UNCHANGED <<map, state, handle, made>>,
         call[a].op \notin {"none", "open"}, pc \in PcOf(call[a].op),
         Ending(a) => pc \in {"close", "closing"},
         pc \in {"remove", "detaching"} => ~Alive(Ref(a)),
         call[a].op = "reconnect" =>
           pc \notin {"open", "insert"} /\ call[a].pc \notin {"open", "insert"}
  PROVE  Kept'
  <1>1. Does(a, call[a].op, pc, Ref(a)) BY DoesGoTo DEF CloseInv
  <1>2. Wanes BY QuietWanes
  <1>3. ~Alive(Ref(a)) => ~Alive(Ref(a))'
    BY <1>1 DEF Alive, Does, Moves, Ref
  <1>4. KeptCall(a)' BY <1>1, <1>2, <1>3, GoOnKept
  <1>5. Ref(a)' = Ref(a) /\ call'[a].op = call[a].op /\ call'[a].pc = pc
        /\ \A b \in Actor : b # a => call'[b] = call[b]
    BY <1>1 DEF Does, Moves, Ref
  <1>6. \A i \in Made : Alive(i)' /\ (map = i \/ Leaving(a, i))
                          => map' = i \/ Leaving(a, i)'
    BY <1>5 DEF Leaving, Ending
  <1> QED BY <1>2, <1>4, <1>5, <1>6, WanesKeeps
-----------------------------------------------------------------------------
(* Calls that begin: where a reconnect is involved, nothing else is.       *)
LEMMA BeginKeeps ==
  ASSUME CloseInv, Kept, ~raced', NEW a \in Actor, NEW op \in Op,
         NEW pc \in Pc, NEW i \in {0, map}, Begin(a, op, pc, i),
         UNCHANGED sess, map' \in {0, map}, pc \in PcOf(op),
         pc \notin {"remove", "detaching", "insert"},
         op \notin {"open", "none"} \/ \A b \in Actor : call[b].op # "open",
         op = "open" => map = 0 /\ made = 0 /\ map' = 0,
         op \in {"send", "resize", "read", "detach", "reconnect"} =>
           i = map /\ map' = map /\ pc = "check",
         map' = map \/ (pc = "close" /\ i = map)
  PROVE  Kept'
  <1>0. TypeOK /\ map \in 0 .. MaxMade /\ i \in 0 .. MaxMade
    BY ManagerAssumption DEF CloseInv, TypeOK
  <1>1. Does(a, op, pc, i) BY <1>0, DoesBegin
  <1>2. Wanes BY QuietWanes DEF sess
  <1>3. /\ Ref(a)' = i /\ call'[a].op = op /\ call'[a].pc = pc
        /\ \A b \in Actor : b # a => call'[b] = call[b]
    BY <1>1 DEF Does, Moves, Ref
  <1>4. call[a].op = "none" BY KindsAt DEF Begin
  <1>5. ASSUME NEW b \in Actor \ {a}, call[b].op # "none"
        PROVE  op # "reconnect" /\ call[b].op # "reconnect"
    <2>1. ~At(b, "idle") BY <1>5, KindsAt
    <2> QED BY <2>1 DEF Begin
  <1>6. \A b \in Actor : call[b].op # "reconnect" BY <1>4, <1>5
  <1>7. ASSUME op = "open"
        PROVE  \A b \in Actor \ {a} : Ref(b)' = 0 /\ call'[b].op # "open"
    <2>1. \A b \in Actor : Ref(b) <= made /\ Ref(b) \in 0 .. MaxMade
      BY <1>0, CallTyped DEF CloseInv, HoldsMade
    <2>2. \A b \in Actor : Ref(b) = 0
      BY <1>7, <2>1 DEF CloseInv, TypeOK
    <2> QED BY <1>3, <1>7, <2>2 DEF Ref
  <1>8. KeptCall(a)'
    <2>1. op = "open" => map' = 0 /\ made' = 0 BY DEF sess
    <2>2. op = "reconnect" => \A b \in Actor \ {a} : call'[b].op = "none"
      BY <1>3, <1>5
    <2>3. pc = "check" => pc \notin {"open", "insert"} OBVIOUS
    <2> QED BY <1>3, <1>7, <2>1, <2>2, <2>3 DEF KeptCall
  <1>9. \A j \in Made : Alive(j)' /\ (map = j \/ Leaving(a, j))
                          => map' = j \/ Leaving(a, j)'
    <2>1. ~Ending(a) BY KindsAt DEF Begin, Ending, At
    <2> QED BY <1>3, <2>1 DEF Leaving, Ending
  <1>10. op # "open" \/ \A b \in Actor : call[b].op # "open" OBVIOUS
  <1> QED BY <1>2, <1>3, <1>6, <1>8, <1>9, <1>10, WanesKeeps

LEMMA StartsKeep ==
  ASSUME CloseInv, Kept, ~raced', NEW a \in Actor,
         \/ Open(a) \/ Take(a) \/ Collect \/ \E op \in Op : Get(a, op)
  PROVE  Kept'
  <1>0. TypeOK /\ map \in 0 .. made /\ made \in 0 .. MaxMade
    BY DEF CloseInv, TypeOK
  <1>1. Reaper \in Actor BY DEF Actor
  <1>2. {"open", "check", "close", "recheck"} \subseteq Pc BY DEF Pc
  <1>3. CASE Open(a)
    <2>1. map = 0 BY <1>0, <1>3 DEF Open
    <2>2. Begin(a, "open", "open", 0) /\ "open" \in Op /\ "open" \in PcOf("open")
      BY <1>3, PcOfKinds DEF Open, Op
    <2> QED BY <1>2, <1>3, <2>1, <2>2, BeginKeeps DEF Open
  <1>4. CASE Take(a)
    <2>1. Begin(a, "close", "close", map) /\ "close" \in Op
          /\ "close" \in PcOf("close")
      BY <1>4, PcOfKinds DEF Take, Op
    <2> QED BY <1>2, <1>4, <2>1, BeginKeeps DEF Take
  <1>5. CASE Collect
    <2>0. PICK r \in Actor : r = Reaper BY <1>1
    <2>1. Begin(r, "reap", "recheck", 0) /\ "reap" \in Op
          /\ "recheck" \in PcOf("reap")
      BY <1>5, <2>0, PcOfKinds DEF Collect, Op
    <2>2. UNCHANGED sess /\ map' = map BY <1>5 DEF Collect
    <2>3. "recheck" \in Pc BY <1>2
    <2> QED BY <2>1, <2>2, <2>3, BeginKeeps
  <1>6. ASSUME NEW op \in Op, Get(a, op) PROVE Kept'
    <2>1. Begin(a, op, "check", map) /\ map' = map BY <1>6 DEF Get
    <2>2. op \in {"send", "resize", "read", "detach", "reconnect"}
      BY <1>6 DEF Get, Op
    <2>3. "check" \in PcOf(op) BY <2>2, PcOfKinds
    <2> QED BY <1>2, <1>6, <2>1, <2>2, <2>3, BeginKeeps DEF Get
  <1> QED BY <1>3, <1>4, <1>5, <1>6
-----------------------------------------------------------------------------
(* What a call that looked a session up does.                              *)
LEMMA LooksKeep ==
  ASSUME CloseInv, Kept, NEW a \in Actor,
         \/ OpenFails(a) \/ Use(a) \/ Cleanup(a) \/ DetachCheck(a)
         \/ DetachAnswer(a) \/ ReconnectCheck(a)
  PROVE  Kept'
  <1>0. TypeOK BY DEF CloseInv
  <1>1. \A pc \in Pc \ {"insert", "close", "closing"} :
          At(a, pc) => ~Ending(a)
    BY DEF Ending, At
  <1>2. {"open", "check", "cleanup", "remove", "detach", "detaching", "close"}
          \subseteq Pc
    BY DEF Pc
  <1>3. CASE OpenFails(a)
    BY <1>1, <1>2, <1>3, KindsAt, ReturnsKeep DEF OpenFails, sess, Leaving
  <1>4. CASE Use(a)
    <2>1. UNCHANGED <<map, state, handle, made>> /\ At(a, "check") /\ ~Ending(a)
          /\ call[a].op \in {"send", "resize", "read"}
      BY <1>1, <1>2, <1>4 DEF Use
    <2>2. CASE Return(a) BY <2>1, <2>2, ReturnsKeep DEF Leaving
    <2>3. CASE GoTo(a, "cleanup")
      BY <1>2, <2>1, <2>3, PcOfKinds, GoesOnKeeps
    <2> QED BY <1>4, <2>2, <2>3 DEF Use
  <1>5. CASE Cleanup(a)
    <2>1. UNCHANGED <<map, state, handle, made>> /\ At(a, "cleanup") /\ ~Ending(a)
          /\ call[a].op \in {"send", "resize", "read"}
      BY <1>1, <1>2, <1>5, KindsAt DEF Cleanup, sess
    <2>2. CASE Return(a) BY <2>1, <2>2, ReturnsKeep DEF Leaving
    <2>3. CASE GoTo(a, "remove") /\ state[Ref(a)] = "closed"
      <3>1. ~Alive(Ref(a)) BY <2>3 DEF Alive
      <3> QED BY <1>2, <2>1, <2>3, <3>1, PcOfKinds, GoesOnKeeps
    <2> QED BY <1>5, <2>2, <2>3 DEF Cleanup
  <1>6. CASE DetachCheck(a)
    <2>1. UNCHANGED <<map, state, handle, made>> /\ At(a, "check") /\ ~Ending(a)
          /\ call[a].op = "detach"
      BY <1>1, <1>2, <1>6 DEF DetachCheck, sess
    <2>2. CASE Return(a) BY <2>1, <2>2, ReturnsKeep DEF Leaving
    <2>3. CASE GoTo(a, "detach")
      BY <1>2, <2>1, <2>3, PcOfKinds, GoesOnKeeps
    <2> QED BY <1>6, <2>2, <2>3 DEF DetachCheck
  <1>7. CASE DetachAnswer(a)
    <2>1. UNCHANGED <<map, state, handle, made>> /\ At(a, "detaching")
          /\ ~Ending(a) /\ call[a].op = "detach"
      BY <1>1, <1>2, <1>7, KindsAt DEF DetachAnswer, sess
    <2>2. CASE Return(a) BY <2>1, <2>2, ReturnsKeep DEF Leaving
    <2>3. CASE GoTo(a, "remove")
      <3>1. ~Alive(Ref(a)) BY <2>1 DEF Kept, KeptCall, At
      <3> QED BY <1>2, <2>1, <2>3, <3>1, PcOfKinds, GoesOnKeeps
    <2> QED BY <1>7, <2>2, <2>3 DEF DetachAnswer
  <1>8. CASE ReconnectCheck(a)
    <2>1. UNCHANGED <<map, state, handle, made>> /\ At(a, "check") /\ ~Ending(a)
          /\ call[a].op = "reconnect"
      BY <1>1, <1>2, <1>8 DEF ReconnectCheck, sess
    <2>2. CASE Return(a) BY <2>1, <2>2, ReturnsKeep DEF Leaving
    <2>3. CASE GoTo(a, "close")
      <3>1. call[a].pc \notin {"open", "insert"} BY <2>1 DEF At
      <3> QED BY <1>2, <2>1, <2>3, <3>1, PcOfKinds, GoesOnKeeps
    <2> QED BY <1>8, <2>2, <2>3 DEF ReconnectCheck
  <1> QED BY <1>3, <1>4, <1>5, <1>6, <1>7, <1>8
-----------------------------------------------------------------------------
(* Steps that take a session out of the map, or end it.                    *)
LEMMA TakesKeep ==
  ASSUME CloseInv, Kept, NEW a \in Actor, Remove(a) \/ Recheck \/ ReaperTake
  PROVE  Kept'
  <1>0. TypeOK /\ map \in 0 .. made /\ made \in 0 .. MaxMade
    BY DEF CloseInv, TypeOK
  <1>1. {"take", "close"} \subseteq Pc /\ map \in 0 .. MaxMade
    BY <1>0, ManagerAssumption DEF Pc
  <1>2. PICK r \in Actor : r = Reaper BY DEF Actor
  <1>3. CASE Remove(a)
    <2>1. /\ map' = 0 /\ UNCHANGED <<state, handle, made>> /\ At(a, "remove")
          /\ Does(a, "none", "idle", 0)
      BY <1>0, <1>3, DoesReturn DEF Remove, sess
    <2>2. call[a].op \in {"send", "resize", "read", "detach"} /\ ~Ending(a)
      BY <2>1, KindsAt DEF Ending, At
    <2>3. map \in {0, Ref(a)} /\ ~Alive(Ref(a))
      BY <2>1, <2>2 DEF Kept, KeptCall, At
    <2>4. Wanes BY <2>1, QuietWanes
    <2>5. \A i \in Made : Alive(i)' /\ (map = i \/ Leaving(a, i)) => FALSE
      BY <2>2, <2>3, <2>4 DEF Wanes, Leaving, Made
    <2>6. Ref(a)' = 0 /\ call'[a].op = "none"
          /\ \A b \in Actor : b # a => call'[b] = call[b]
      BY <2>1 DEF Does, Moves, Ref
    <2>7. KeptCall(a)' BY <2>1, ReturnKept
    <2>8. call[a].op # "none" BY <2>2
    <2> QED BY <2>4, <2>5, <2>6, <2>7, <2>8, WanesKeeps
  <1>4. CASE Recheck
    <2>1. /\ UNCHANGED <<map, state, handle, made>> /\ At(r, "recheck")
          /\ GoTo(r, "take") \/ Return(r)
      BY <1>2, <1>4 DEF Recheck, sess
    <2>2. call[r].op = "reap" /\ ~Ending(r) BY <2>1, KindsAt DEF Ending, At
    <2>3. CASE Return(r) BY <2>1, <2>2, <2>3, ReturnsKeep DEF Leaving
    <2>4. CASE GoTo(r, "take")
      <3>1. "take" \in PcOf("reap") /\ "take" \in Pc BY <1>1, PcOfKinds
      <3> QED BY <2>1, <2>2, <2>4, <3>1, GoesOnKeeps
    <2> QED BY <2>1, <2>3, <2>4
  <1>5. CASE ReaperTake
    <2>1. /\ map' = 0 /\ UNCHANGED <<state, handle, made>> /\ At(r, "take")
      BY <1>2, <1>5 DEF ReaperTake, sess
    <2>2. call[r].op = "reap" /\ ~Ending(r) BY <2>1, KindsAt DEF Ending, At
    <2>3. CASE map = 0
      <3>1. Return(r) /\ map' = map BY <1>2, <1>5, <2>1, <2>3 DEF ReaperTake
      <3> QED BY <2>1, <2>2, <3>1, ReturnsKeep DEF Leaving
    <2>4. CASE map # 0
      <3>1. "close" \in Pc BY <1>1
      <3>2. call' = [call EXCEPT ![r].pc = "close", ![r].ref = map]
        BY <1>2, <1>5, <2>4 DEF ReaperTake
      <3>3. Does(r, "reap", "close", map)
        BY <1>0, <1>1, <2>2, <3>1, <3>2, DoesMoveTo
      <3>4. /\ Ref(r)' = map /\ call'[r].op = "reap" /\ call'[r].pc = "close"
            /\ \A b \in Actor : b # r => call'[b] = call[b]
        BY <3>3 DEF Does, Moves, Ref
      <3>5. Wanes BY <2>1, QuietWanes
      <3>6. KeptCall(r)' BY <3>4, PcOfKinds DEF KeptCall
      <3>7. \A i \in Made : Alive(i)' /\ (map = i \/ Leaving(r, i))
                              => Leaving(r, i)'
        BY <2>2, <3>4 DEF Leaving, Ending
      <3>8. call[r].op # "none" BY <2>2
      <3> QED BY <3>4, <3>5, <3>6, <3>7, <3>8, WanesKeeps
    <2> QED BY <2>3, <2>4
  <1> QED BY <1>3, <1>4, <1>5

(* Where a reconnect goes on, its session is closed and nothing lives.     *)
LEMMA AfterCloseKept ==
  ASSUME CloseInv, Kept, NEW a \in Actor, AfterClose(a), map' = map, Wanes,
         NEW i \in Made, Ref(a) = i, ~Alive(i)',
         At(a, "close") \/ At(a, "closed")
  PROVE  Kept'
  <1>0. TypeOK /\ 0 \in 0 .. MaxMade /\ "open" \in Pc
    BY ManagerAssumption DEF CloseInv, Pc
  <1>1. call[a].op \in {"close", "reap", "reconnect"} BY KindsAt
  <1>2. \A j \in Made : Alive(j)' /\ (map = j \/ Leaving(a, j)) => map' = j
    BY DEF Leaving
  <1>3. CASE call[a].op # "reconnect"
    <2>1. Does(a, "none", "idle", 0) BY <1>0, <1>3, DoesReturn DEF AfterClose
    <2>2. KeptCall(a)' BY <2>1, ReturnKept
    <2>3. Ref(a)' = 0 /\ call'[a].op = "none"
          /\ \A b \in Actor : b # a => call'[b] = call[b]
      BY <2>1 DEF Does, Moves, Ref
    <2> QED BY <1>1, <1>2, <2>2, <2>3, WanesKeeps
  <1>4. CASE call[a].op = "reconnect"
    <2>1. call' = [call EXCEPT ![a].pc = "open", ![a].ref = 0]
      BY <1>4 DEF AfterClose
    <2>2. Does(a, "reconnect", "open", 0) BY <1>0, <1>4, <2>1, DoesMoveTo
    <2>3. Ref(a)' = 0 /\ call'[a].op = "reconnect" /\ call'[a].pc = "open"
          /\ \A b \in Actor : b # a => call'[b] = call[b]
      BY <2>2 DEF Does, Moves, Ref
    <2>4. map = i /\ \A b \in Actor \ {a} : call[b].op = "none"
      BY <1>4 DEF Kept, KeptCall, At
    <2>5. KeptCall(a)'
      <3>1. \A j : j = i => ~Alive(j)' OBVIOUS
      <3>2. map' # 0 => ~(state'[map'] \in {"ready", "lost"}
                            /\ handle'[map'] = "open")
        BY <2>4, <3>1 DEF Alive
      <3> QED BY <2>3, <2>4, <3>2, PcOfKinds DEF KeptCall, Alive
    <2> QED BY <1>2, <1>4, <2>3, <2>5, WanesKeeps
  <1> QED BY <1>3, <1>4

(* Session::close takes a life, and gives none.                            *)
LEMMA ClosesKeep ==
  ASSUME CloseInv, Kept, NEW a \in Actor, CloseStep(a) \/ DetachFlag(a)
  PROVE  Kept'
  <1>0. TypeOK /\ {"closing", "release", "closed", "remove", "detaching"}
                    \subseteq Pc
    BY DEF CloseInv, Pc
  <1>1. PICK i : i = Ref(a) OBVIOUS
  <1>2. i \in Made /\ state \in [Made -> {"none", "ready", "closing", "closed", "lost"}]
        /\ handle \in [Made -> {"none", "open", "closed"}]
    BY <1>0, <1>1, CallFacts
       DEF CloseStep, CloseCheck, SetClosing, Release, SetClosed, DetachFlag,
           At, TypeOK
  <1>3. CASE CloseCheck(a)
    <2>1. UNCHANGED <<map, state, handle, made>> /\ At(a, "close")
      BY <1>3 DEF CloseCheck, sess
    <2>2. CASE state[i] = "closed"
      <3>1. AfterClose(a) BY <1>1, <1>3, <2>2 DEF CloseCheck
      <3>2. Wanes /\ ~Alive(i)' BY <2>1, <2>2, QuietWanes DEF Alive
      <3> QED BY <1>1, <1>2, <2>1, <3>1, <3>2, AfterCloseKept
    <2>3. CASE state[i] # "closed"
      <3>1. GoTo(a, "closing") BY <1>1, <1>3, <2>3 DEF CloseCheck
      <3>2. call[a].op \in {"close", "reap", "reconnect"} BY <2>1, KindsAt
      <3>3. "closing" \in PcOf(call[a].op) BY <3>2, PcOfKinds
      <3> QED BY <1>0, <2>1, <3>1, <3>2, <3>3, GoesOnKeeps DEF At
    <2> QED BY <2>2, <2>3
  <1>4. CASE SetClosed(a)
    <2>1. /\ map' = map /\ At(a, "closed") /\ AfterClose(a)
          /\ UNCHANGED <<handle, made>>
          /\ state' = [state EXCEPT ![i] = "closed"]
      BY <1>1, <1>4 DEF SetClosed
    <2>2. Wanes /\ ~Alive(i)' BY <1>2, <2>1 DEF Wanes, Alive
    <2> QED BY <1>1, <1>2, <2>1, <2>2, AfterCloseKept
  <1>5. ASSUME NEW pc \in Pc, GoTo(a, pc), map' = map, made' = made,
               \A j \in Made \ {i} : Alive(j)' => Alive(j), ~Alive(i)',
               call[a].op \notin {"none", "open"}, pc \in PcOf(call[a].op),
               call[a].op = "reconnect" =>
                 pc \notin {"open", "insert"}
                   /\ call[a].pc \notin {"open", "insert"}
        PROVE  Kept'
    <2>1. Does(a, call[a].op, pc, i) BY <1>0, <1>1, <1>5, DoesGoTo
    <2>2. Ref(a)' = i /\ call'[a].op = call[a].op
          /\ \A b \in Actor : b # a => call'[b] = call[b]
      BY <2>1 DEF Does, Moves, Ref
    <2>3. Wanes BY <1>5 DEF Wanes
    <2>4. ~Alive(Ref(a))' BY <1>5, <2>2 DEF Alive
    <2>5. KeptCall(a)' BY <1>1, <1>5, <2>1, <2>3, <2>4, GoOnKept
    <2>6. \A j \in Made : Alive(j)' /\ (map = j \/ Leaving(a, j)) => map' = j
      BY <1>1, <1>5 DEF Leaving
    <2> QED BY <1>1, <1>5, <2>2, <2>3, <2>5, <2>6, WanesKeeps
  <1>6. CASE SetClosing(a)
    <2>1. /\ map' = map /\ At(a, "closing") /\ GoTo(a, "release")
          /\ UNCHANGED <<handle, made>>
          /\ state' = [state EXCEPT ![i] = "closing"]
      BY <1>1, <1>6 DEF SetClosing
    <2>2. /\ ~Alive(i)' /\ \A j \in Made \ {i} : Alive(j)' => Alive(j)
      BY <1>2, <2>1 DEF Alive
    <2>3. call[a].op \in {"close", "reap", "reconnect"} BY <2>1, KindsAt
    <2>4. "release" \in PcOf(call[a].op) /\ "release" \in Pc
      BY <1>0, <2>3, PcOfKinds
    <2> QED BY <1>5, <2>1, <2>2, <2>3, <2>4 DEF At
  <1>7. CASE Release(a)
    <2>1. /\ map' = map /\ At(a, "release") /\ GoTo(a, "closed")
          /\ UNCHANGED <<state, made>>
          /\ handle' = [handle EXCEPT ![i] = "closed"]
      BY <1>1, <1>7 DEF Release
    <2>2. /\ ~Alive(i)' /\ \A j \in Made \ {i} : Alive(j)' => Alive(j)
      BY <1>2, <2>1 DEF Alive
    <2>3. call[a].op \in {"close", "reap", "reconnect"} BY <2>1, KindsAt
    <2>4. "closed" \in PcOf(call[a].op) /\ "closed" \in Pc
      BY <1>0, <2>3, PcOfKinds
    <2> QED BY <1>5, <2>1, <2>2, <2>3, <2>4 DEF At
  <1>8. CASE DetachFlag(a)
    <2>1. /\ map' = map /\ At(a, "detach") /\ UNCHANGED <<state, made>>
          /\ GoTo(a, "remove") \/ GoTo(a, "detaching")
          /\ handle' = [handle EXCEPT ![i] = "closed"]
      BY <1>1, <1>8 DEF DetachFlag
    <2>2. /\ ~Alive(i)' /\ \A j \in Made \ {i} : Alive(j)' => Alive(j)
      BY <1>2, <2>1 DEF Alive
    <2>3. call[a].op = "detach" BY <2>1, KindsAt
    <2>4. {"remove", "detaching"} \subseteq PcOf(call[a].op) \cap Pc
      BY <1>0, <2>3, PcOfKinds
    <2> QED BY <1>5, <2>1, <2>2, <2>3, <2>4
  <1> QED BY <1>3, <1>4, <1>6, <1>7, <1>8 DEF CloseStep
-----------------------------------------------------------------------------
(* A new session is its maker's until it is in the map.                    *)
LEMMA EstablishKept ==
  ASSUME CloseInv, Kept, NEW a \in Actor, NEW k \in {"interactive", "persistent"},
         Establish(a, k)
  PROVE  Kept'
  <1>1. PICK n : n = made + 1 OBVIOUS
  <1>2. /\ n \in Made /\ n \in 0 .. MaxMade /\ "insert" \in Pc /\ TypeOK
        /\ made \in 0 .. MaxMade /\ map \in 0 .. made /\ MaxMade \in Nat
    BY <1>1, ManagerAssumption DEF Establish, CloseInv, TypeOK, Made, Pc
  <1>3. /\ At(a, "open") /\ made' = n /\ map' = map
        /\ state' = [state EXCEPT ![n] = "ready"]
        /\ handle' = [handle EXCEPT ![n] = "open"]
        /\ call' = [call EXCEPT ![a].pc = "insert", ![a].ref = n]
    BY <1>1 DEF Establish
  <1>4. /\ call[a].op \in {"open", "reconnect"}
        /\ Does(a, call[a].op, "insert", n)
    BY <1>2, <1>3, KindsAt, DoesMoveTo
  <1>5. /\ Ref(a)' = n /\ call'[a].op = call[a].op /\ call'[a].pc = "insert"
        /\ \A b \in Actor : b # a => call'[b] = call[b]
    BY <1>4 DEF Does, Moves, Ref
  <1>6. \A j \in Made : j # n => (Alive(j)' <=> Alive(j))
    BY <1>2, <1>3 DEF Alive, TypeOK
  <1>7. n # map /\ \A b \in Actor : Ref(b) \in 0 .. made
    <2>1. \A b \in Actor : Ref(b) <= made /\ Ref(b) \in 0 .. MaxMade
      BY <1>2, CallTyped DEF CloseInv, HoldsMade
    <2> QED BY <1>1, <1>2, <2>1
  <1>8. KeptCall(a) BY DEF Kept
  <1>9. KeptCall(a)'
    <2>1. call[a].op = "open" => map = 0 /\ \A b \in Actor \ {a} :
                                   Ref(b)' = 0 /\ call'[b].op # "open"
      BY <1>5, <1>8 DEF KeptCall, Ref
    <2>2. call[a].op = "reconnect" =>
            /\ \A b \in Actor \ {a} : call'[b].op = "none"
            /\ map # 0 => ~Alive(map)
      BY <1>3, <1>5, <1>8 DEF KeptCall, At
    <2>3. map # 0 /\ ~Alive(map) => ~Alive(map)'
      BY <1>2, <1>3, <1>6, <1>7 DEF Made, Alive
    <2>4. "insert" \in PcOf("open") /\ "insert" \in PcOf("reconnect")
      BY PcOfKinds
    <2> QED BY <1>3, <1>4, <1>5, <2>1, <2>2, <2>3, <2>4 DEF KeptCall, At
  <1>10. ASSUME NEW b \in Actor, b # a PROVE KeptCall(b)'
    <2>1. KeptCall(b) /\ call'[b] = call[b] /\ Ref(b)' = Ref(b) /\ HoldsMade(b)
      BY <1>5, <1>10 DEF Kept, CloseInv, Ref
    <2>2. call[b].op \notin {"open", "reconnect"}
      BY <1>4, <1>8, <1>10, <2>1 DEF KeptCall
    <2>3. call[b].pc \in {"remove", "detaching"} => ~Alive(Ref(b))'
      <3>1. call[b].pc \in {"remove", "detaching"} => Ref(b) \in Made
        BY <2>1 DEF HoldsMade
      <3>2. Ref(b) # n BY <1>1, <1>2, <1>7
      <3>3. ASSUME NEW j \in Made, j = Ref(b),
                   call[b].pc \in {"remove", "detaching"}
            PROVE  ~Alive(j)'
        <4>1. ~Alive(j) BY <2>1, <3>3 DEF KeptCall
        <4> QED BY <1>6, <3>2, <3>3, <4>1
      <3>4. ASSUME NEW j, j = Ref(b) PROVE Alive(Ref(b))' <=> Alive(j)'
        BY <2>1, <3>4 DEF Alive
      <3> QED BY <3>1, <3>3, <3>4
    <2> QED BY <1>3, <2>1, <2>2, <2>3 DEF KeptCall
  <1>11. ASSUME NEW j \in Made, Alive(j)'
         PROVE  map' = j \/ \E b \in Actor : Leaving(b, j)'
    <2>1. CASE j = n
      <3>1. Leaving(a, j)' BY <1>5, <2>1 DEF Leaving, Ending
      <3> QED BY <3>1
    <2>2. CASE j # n
      <3>1. KeptSession(j) /\ Alive(j) BY <1>6, <1>11, <2>2 DEF Kept
      <3>2. ASSUME NEW b \in Actor, Leaving(b, j) PROVE Leaving(b, j)'
        <4>1. b # a BY <1>3, <3>2 DEF Leaving, Ending, At
        <4> QED BY <1>5, <3>2, <4>1 DEF Leaving, Ending, Ref
      <3> QED BY <1>3, <3>1, <3>2 DEF KeptSession
    <2> QED BY <2>1, <2>2
  <1> QED BY <1>9, <1>10, <1>11 DEF Kept, KeptSession

LEMMA InsertKept ==
  ASSUME CloseInv, Kept, NEW a \in Actor, Insert(a)
  PROVE  Kept'
  <1>1. PICK n : n = Ref(a) OBVIOUS
  <1>2. /\ At(a, "insert") /\ map' = n
        /\ UNCHANGED <<made, state, handle>>
        /\ Does(a, "none", "idle", 0)
    BY <1>1, DoesReturn DEF Insert, sess, CloseInv
  <1>3. /\ Ref(a)' = 0 /\ call'[a].op = "none"
        /\ \A b \in Actor : b # a => call'[b] = call[b]
    BY <1>2 DEF Does, Moves, Ref
  <1>4. KeptCall(a) /\ call[a].op \in {"open", "reconnect"}
    BY <1>2, KindsAt DEF Kept
  <1>5. KeptCall(a)' BY <1>2, ReturnKept
  <1>6. \A j : Alive(j)' <=> Alive(j) BY <1>2 DEF Alive
  <1>7. ASSUME NEW b \in Actor, b # a
        PROVE  call[b].op \in {"none", "close", "reap"} /\ ~Leaving(b, 0)
    <2>1. KeptCall(b) /\ HoldsMade(b) /\ call[b].op \in Op
      BY DEF Kept, CloseInv, TypeOK, CallRec
    <2>2. CASE call[a].op = "reconnect"
      <3>1. call[b].op = "none" BY <1>4, <1>7, <2>2 DEF KeptCall
      <3>2. ~Ending(b) BY <3>1, KindsAt DEF Ending, At
      <3> QED BY <3>1, <3>2 DEF Leaving
    <2>3. CASE call[a].op = "open"
      <3>1. Ref(b) = 0 /\ call[b].op # "open" BY <1>4, <1>7, <2>3 DEF KeptCall
      <3>2. call[b].pc \in {"idle", "open", "recheck", "take"}
        BY <2>1, <3>1 DEF HoldsMade, Made
      <3>3. call[b].op # "reconnect" BY <1>4, <1>7, <2>1, <2>3 DEF KeptCall
      <3>4. call[b].op \in {"none", "reap"} BY <3>1, <3>2, <3>3, KindsAt DEF At
      <3>5. ~Ending(b) BY <3>2 DEF Ending
      <3> QED BY <3>4, <3>5 DEF Leaving
    <2> QED BY <1>4, <2>2, <2>3
  <1>8. ASSUME NEW b \in Actor, b # a PROVE KeptCall(b)'
    <2>1. KeptCall(b) /\ call'[b] = call[b] /\ Ref(b)' = Ref(b)
      BY <1>3, <1>8 DEF Kept, Ref
    <2>2. call[b].pc \notin {"remove", "detaching"} BY <1>7, <1>8, KindsAt DEF At
    <2> QED BY <1>7, <1>8, <2>1, <2>2 DEF KeptCall
  <1>9. ASSUME NEW j \in Made, Alive(j)
        PROVE  map' = j \/ \E b \in Actor : Leaving(b, j)'
    <2>1. KeptSession(j) BY DEF Kept
    <2>2. ASSUME NEW b \in Actor, b # a, Leaving(b, j) PROVE Leaving(b, j)'
      BY <1>3, <2>2 DEF Leaving, Ending, Ref
    <2>3. Leaving(a, j) => map' = j BY <1>1, <1>2 DEF Leaving
    <2>4. CASE map = j
      <3>1. j # 0 BY DEF Made
      <3>2. call[a].op # "open" BY <1>4, <2>4, <3>1 DEF KeptCall
      <3> QED BY <1>2, <1>4, <1>9, <2>4, <3>1, <3>2 DEF KeptCall, At
    <2> QED BY <1>9, <2>1, <2>2, <2>3, <2>4 DEF KeptSession
  <1> QED BY <1>5, <1>6, <1>8, <1>9 DEF Kept, KeptSession

(* The end of a session's output leaves it as alive as it was.             *)
LEMMA BackgroundKept ==
  ASSUME CloseInv, Kept, UNCHANGED <<map, made, handle, call>>,
         \A i \in Made : Alive(i)' <=> Alive(i)
  PROVE  Kept'
  <1>1. TypeOK /\ map \in 0 .. made /\ made \in 0 .. MaxMade /\ MaxMade \in Nat
    BY ManagerAssumption DEF CloseInv, TypeOK
  <1>2. map # 0 => map \in Made BY <1>1 DEF Made
  <1>3. map # 0 => (Alive(map)' <=> Alive(map))
    <2>1. \A i \in Made : i = map => (Alive(i)' <=> Alive(map)')
      BY DEF Alive
    <2> QED BY <1>2, <2>1
  <1>4. ASSUME NEW a \in Actor PROVE KeptCall(a)'
    <2>1. KeptCall(a) /\ HoldsMade(a) /\ Ref(a)' = Ref(a)
      BY DEF Kept, CloseInv, Ref
    <2>2. call[a].pc \in {"remove", "detaching"} => ~Alive(Ref(a))'
      <3>1. call[a].pc \in {"remove", "detaching"} => Ref(a) \in Made
        BY <2>1 DEF HoldsMade
      <3>2. \A i \in Made : i = Ref(a) => (Alive(i)' <=> Alive(Ref(a))')
        BY <2>1 DEF Alive
      <3> QED BY <2>1, <3>1, <3>2 DEF KeptCall
    <2>3. Ref(a)' = Ref(a) /\ map' = map /\ made' = made /\ call' = call
      BY <2>1
    <2>4. \A b : Ref(b)' = Ref(b) BY DEF Ref
    <2> QED BY <1>3, <2>1, <2>2, <2>3, <2>4 DEF KeptCall, At
  <1>5. \A i \in Made : KeptSession(i)'
    BY DEF Kept, KeptSession, Leaving, Ending, Ref
  <1> QED BY <1>4, <1>5 DEF Kept

LEMMA StepKept ==
  ASSUME CloseInv, KeptInv, [Next]_vars
  PROVE  KeptInv'
  <1> SUFFICES ASSUME ~raced' PROVE Kept' BY DEF KeptInv
  <1>1. Kept
    <2>1. ~raced BY DEF Next, vars, CloseStep, ReadEnds, TimePasses, Collect,
             Recheck, ReaperTake, Open, OpenFails, Establish, Insert, Get, Use,
             Cleanup, Remove, DetachCheck, DetachFlag, DetachAnswer,
             ReconnectCheck, Take, CloseCheck, SetClosing, Release, SetClosed,
             AfterClose, Begin, Same
    <2> QED BY <2>1 DEF KeptInv
  <1>2. CASE UNCHANGED vars
    <2>1. \A i \in Made : Alive(i)' <=> Alive(i) BY <1>2 DEF vars, Alive
    <2> QED BY <1>1, <1>2, <2>1, BackgroundKept DEF vars
  <1>3. ASSUME NEW i \in Made, ReadEnds(i) \/ TimePasses(i) PROVE Kept'
    <2>1. UNCHANGED <<map, made, handle, call>>
      BY <1>3 DEF ReadEnds, TimePasses
    <2>2. \A j \in Made : Alive(j)' <=> Alive(j)
      BY <1>3 DEF ReadEnds, TimePasses, Alive, CloseInv, TypeOK
    <2> QED BY <1>1, <2>1, <2>2, BackgroundKept
  <1>4. CASE Collect \/ Recheck \/ ReaperTake
    <2>1. PICK a \in Actor : a = Reaper BY DEF Actor
    <2> QED BY <1>1, <1>4, <2>1, StartsKeep, TakesKeep
  <1>5. ASSUME NEW a \in Actor,
               \/ Open(a) \/ Take(a) \/ \E op \in Op : Get(a, op)
        PROVE  Kept'
    BY <1>1, <1>5, StartsKeep
  <1>6. ASSUME NEW a \in Actor,
               \/ OpenFails(a) \/ Use(a) \/ Cleanup(a) \/ DetachCheck(a)
               \/ DetachAnswer(a) \/ ReconnectCheck(a)
        PROVE  Kept'
    BY <1>1, <1>6, LooksKeep
  <1>7. ASSUME NEW a \in Actor,
               \/ Remove(a) \/ CloseStep(a) \/ DetachFlag(a) \/ Insert(a)
               \/ \E k \in {"interactive", "persistent"} : Establish(a, k)
        PROVE  Kept'
    BY <1>1, <1>7, TakesKeep, ClosesKeep, InsertKept, EstablishKept
  <1> QED BY <1>2, <1>3, <1>4, <1>5, <1>6, <1>7 DEF Next

(* What the map holds goes with what the calls hold of it, and nothing     *)
(* that lives is out of both, until a reconnect overlaps another call.     *)
THEOREM KeptInvariant == Spec => []KeptInv
  <1>1. Init => KeptInv
    <2> SUFFICES ASSUME Init PROVE Kept BY DEF KeptInv
    <2>1. \A a \in Actor : call[a].op = "none" /\ call[a].pc = "idle"
      BY DEF Init, NoCall
    <2>2. \A a \in Actor : KeptCall(a) BY <2>1, PcOfKinds DEF KeptCall
    <2>3. \A i \in Made : KeptSession(i) BY DEF KeptSession, Alive, Init
    <2> QED BY <2>2, <2>3 DEF Kept
  <1>2. CloseInv /\ KeptInv /\ [Next]_vars => KeptInv' BY StepKept
  <1> QED BY <1>1, <1>2, ManagerInvariant, PTL DEF Spec

(* A ready or lost session stays in the map until somebody closes or       *)
(* detaches it: no failed call (ADR-0010) and no refused detach (P1-8)     *)
(* loses it, as long as no reconnect overlaps another call or the reaper.  *)
THEOREM SessionsAreKept == Spec => []KeptUntilEnded
  <1>1. KeptInv => KeptUntilEnded
    BY DEF KeptInv, Kept, KeptSession, Alive, Leaving, KeptUntilEnded
  <1> QED BY <1>1, KeptInvariant, PTL
=============================================================================
