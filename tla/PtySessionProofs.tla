-------------------------- MODULE PtySessionProofs --------------------------
(***************************************************************************)
(* Proofs about PtySession for any number of senders, inputs of any        *)
(* length, and any capacity that holds a chunk: the input reaches the      *)
(* terminal in its order, the teardown finds nothing in use, and no wakeup *)
(* of the shared condition variable is lost.                               *)
(***************************************************************************)
EXTENDS PtySession, TLAPS

Piece == [of : Sender, from : Nat, to : Nat]
Parties == Sender \cup {"writer"}

Typed ==
  /\ entry \in {"none", "live", "removed"}
  /\ child \in {"none", "running", "zombie", "reaped"}
  /\ slave \subseteq {"child", "escaped"}
  /\ master \in BOOLEAN
  /\ reader \in {"none", "read", "reap", "lost", "gone"}
  /\ at \in [Sender -> {"idle", "lock", "wait", "notify"}]
  /\ given \in [Sender -> Nat]
  /\ late \in [Sender -> BOOLEAN] /\ sent \in [Sender -> BOOLEAN]
  /\ queue \in Seq(Piece) /\ queued \in Nat /\ closed \in BOOLEAN
  /\ waiting \in Seq(Parties)
  /\ writer \in {"none", "lock", "wait", "write", "gone"}
  /\ rest \in [of : Sender \cup {"nobody"}, from : Nat, to : Nat]
  /\ tty \in 0..Tty
  /\ teardown \in {"none", "kill", "drop", "release", "close", "notify",
                   "join", "done"}
  /\ accepted \in Seq(Piece) /\ written \in Seq(Piece)

(* The counter is the sum of the chunks queued: pos[n] is what the chunks  *)
(* before the n-th amount to.                                              *)
SumsTo(s, total) ==
  \E pos \in [1..Len(s) + 1 -> Nat] :
    /\ pos[1] = 0 /\ pos[Len(s) + 1] = total
    /\ \A n \in 1..Len(s) : pos[n + 1] = pos[n] + Size(s[n])
    /\ \A n \in 1..Len(s) + 1 : \A m \in 1..n : pos[m] <= pos[n]

Bounded ==
  /\ \A s \in Sender : given[s] <= Length[s]
  /\ \A n \in 1..Len(queue) : Size(queue[n]) \in 1..Chunk
  /\ queued <= Queue /\ SumsTo(queue, queued)
  /\ Size(rest) \in 0..Chunk

(* Who waits is in the line, once, and the writer, which waits only for an *)
(* empty queue, is its head.                                               *)
InLine ==
  /\ \A m, n \in 1..Len(waiting) : waiting[m] = waiting[n] => m = n
  /\ \A n \in 1..Len(waiting) :
       IF waiting[n] = "writer" THEN writer = "wait"
       ELSE at[waiting[n]] = "wait"
  /\ \A s \in Sender : at[s] = "wait" =>
       \E n \in 1..Len(waiting) : waiting[n] = s
  /\ writer = "wait" => Len(waiting) > 0 /\ waiting[1] = "writer"

(* What the writer took and what is queued are what was accepted.          *)
Piped ==
  /\ Len(written) <= Len(accepted)
  /\ \A n \in 1..Len(written) :
       /\ written[n].of = accepted[n].of
       /\ written[n].from = accepted[n].from
       /\ written[n].from <= written[n].to /\ written[n].to <= accepted[n].to
  /\ ~closed =>
       /\ Len(queue) = Len(accepted) - Len(written)
       /\ \A n \in 1..Len(queue) : queue[n] = accepted[Len(written) + n]
  /\ writer = "write" =>
       /\ Len(written) > 0 /\ Size(rest) > 0
       /\ rest.of = accepted[Len(written)].of
       /\ rest.from = written[Len(written)].to
       /\ rest.to = accepted[Len(written)].to

(* While the terminal is open chunks are finished, and one that was not    *)
(* finished is followed by nothing.                                        *)
Finished ==
  /\ slave # {} =>
       \A n \in 1..Len(written) : Writing(n) \/ written[n].to = accepted[n].to
  /\ \A n \in 1..Len(written) : \A m \in 1..n - 1 :
       written[m].to = accepted[m].to \/ written[n].from = written[n].to

(* How far the teardown is says who still uses the session.                *)
Staged ==
  /\ entry = "none" =>
       /\ child = "none" /\ slave = {} /\ reader = "none"
       /\ writer = "none" /\ written = <<>> /\ InCall = {}
  /\ \A s \in InCall : sent[s]
  /\ (teardown # "none") <=> (entry = "removed")
  /\ teardown \notin {"none", "kill"} => child # "running"
  /\ teardown \notin {"none", "kill", "drop"} => InCall = {}
  /\ closed <=> (teardown \in {"notify", "join", "done"})
  /\ (entry # "none"
      /\ (reader # "gone" \/ teardown \in {"none", "kill", "drop", "release"}))
        => master

PtyInv ==
  /\ Typed /\ Bounded /\ InLine /\ NoStall
  /\ QueuedInOrder /\ Piped /\ Finished /\ Staged

-----------------------------------------------------------------------------
(* Sequences and sums.                                                     *)

LEMMA RemoveFacts ==
  ASSUME NEW S, NEW s \in Seq(S), NEW n \in 1..Len(s)
  PROVE  /\ RemoveAt(s, n) \in Seq(S)
         /\ Len(RemoveAt(s, n)) = Len(s) - 1
         /\ \A i \in 1..n - 1 : RemoveAt(s, n)[i] = s[i]
         /\ \A i \in n..Len(s) - 1 : RemoveAt(s, n)[i] = s[i + 1]
  <1> DEFINE front == SubSeq(s, 1, n - 1)
             back == SubSeq(s, n + 1, Len(s))
  <1>1. front \in Seq(S) /\ Len(front) = n - 1
        /\ \A i \in 1..n - 1 : front[i] = s[i]
    OBVIOUS
  <1>2. back \in Seq(S) /\ Len(back) = Len(s) - n
        /\ \A i \in 1..Len(s) - n : back[i] = s[n + i]
    OBVIOUS
  <1> HIDE DEF front, back
  <1>3. front \o back \in Seq(S) /\ Len(front \o back) = Len(s) - 1
    BY <1>1, <1>2
  <1>4. /\ \A i \in 1..n - 1 : (front \o back)[i] = s[i]
        /\ \A i \in n..Len(s) - 1 : (front \o back)[i] = s[i + 1]
    <2> Len(s) \in Nat /\ n \in Int
      OBVIOUS
    <2>1. ASSUME NEW i \in 1..n - 1
          PROVE  (front \o back)[i] = s[i]
      BY <1>1, <1>2
    <2>2. ASSUME NEW i \in n..Len(s) - 1
          PROVE  (front \o back)[i] = s[i + 1]
      <3>1. (front \o back)[i] = back[i - (n - 1)]
        BY <1>1, <1>2
      <3>2. i - (n - 1) \in 1..Len(s) - n /\ n + (i - (n - 1)) = i + 1
        OBVIOUS
      <3> QED
        BY <1>2, <3>1, <3>2
    <2> QED
      BY <2>1, <2>2
  <1>5. RemoveAt(s, n) = front \o back
    BY DEF RemoveAt, front, back
  <1> QED
    BY <1>3, <1>4, <1>5

LEMMA PieceSize ==
  ASSUME NEW c \in Piece
  PROVE  Size(c) \in Int
  BY DEF Piece, Size

LEMMA SumEmpty ==
  /\ SumsTo(<<>>, 0)
  /\ \A t \in Nat : SumsTo(<<>>, t) => t = 0
  <1>1. SumsTo(<<>>, 0)
    <2> DEFINE pos == [n \in 1..Len(<<>>) + 1 |-> 0]
    <2>1. Len(<<>>) = 0 /\ 1..Len(<<>>) = {} /\ 1..Len(<<>>) + 1 = {1}
      OBVIOUS
    <2>2. pos \in [1..Len(<<>>) + 1 -> Nat] /\ pos[1] = 0
      BY <2>1
    <2> HIDE DEF pos
    <2> QED
      BY <2>1, <2>2 DEF SumsTo
  <1>2. \A t \in Nat : SumsTo(<<>>, t) => t = 0
    BY DEF SumsTo
  <1> QED
    BY <1>1, <1>2

LEMMA SumAppend ==
  ASSUME NEW s \in Seq(Piece), NEW t \in Nat, SumsTo(s, t),
         NEW c \in Piece, Size(c) \in Nat
  PROVE  SumsTo(Append(s, c), t + Size(c))
  <1>1. PICK pos \in [1..Len(s) + 1 -> Nat] :
          /\ pos[1] = 0 /\ pos[Len(s) + 1] = t
          /\ \A n \in 1..Len(s) : pos[n + 1] = pos[n] + Size(s[n])
          /\ \A n \in 1..Len(s) + 1 : \A m \in 1..n : pos[m] <= pos[n]
    BY DEF SumsTo
  <1> DEFINE r == Append(s, c)
             new == [n \in 1..Len(r) + 1 |->
                       IF n <= Len(s) + 1 THEN pos[n] ELSE t + Size(c)]
  <1>2. Len(r) = Len(s) + 1 /\ r[Len(s) + 1] = c
        /\ \A n \in 1..Len(s) : r[n] = s[n]
    OBVIOUS
  <1> HIDE DEF r
  <1>3. new \in [1..Len(r) + 1 -> Nat]
        /\ new[1] = 0 /\ new[Len(r) + 1] = t + Size(c)
    BY <1>1, <1>2
  <1>4. \A n \in 1..Len(r) : new[n + 1] = new[n] + Size(r[n])
    <2> SUFFICES ASSUME NEW n \in 1..Len(r)
                 PROVE  new[n + 1] = new[n] + Size(r[n])
      OBVIOUS
    <2>1. CASE n = Len(s) + 1
      BY <1>1, <1>2, <2>1
    <2>2. CASE n <= Len(s)
      BY <1>1, <1>2, <2>2
    <2> QED
      BY <1>2, <2>1, <2>2
  <1>5. \A n \in 1..Len(r) + 1 : \A m \in 1..n : new[m] <= new[n]
    <2> SUFFICES ASSUME NEW n \in 1..Len(r) + 1, NEW m \in 1..n
                 PROVE  new[m] <= new[n]
      OBVIOUS
    <2>1. pos[Len(s) + 1] = t /\ t <= t + Size(c)
      BY <1>1
    <2>2. CASE n <= Len(s) + 1
      BY <1>1, <1>2, <2>2
    <2>3. CASE n = Len(s) + 2 /\ m <= Len(s) + 1
      <3>1. pos[m] <= pos[Len(s) + 1] /\ pos[m] \in Nat
        BY <1>1, <2>3
      <3> QED
        BY <1>2, <2>1, <2>3, <3>1
    <2>4. CASE n = Len(s) + 2 /\ m = n
      BY <1>2, <1>3, <2>4
    <2> QED
      BY <1>2, <2>2, <2>3, <2>4
  <1> HIDE DEF new
  <1> QED
    BY <1>3, <1>4, <1>5 DEF SumsTo, r

LEMMA SumTail ==
  ASSUME NEW s \in Seq(Piece), NEW t \in Nat, SumsTo(s, t), s # <<>>
  PROVE  t - Size(Head(s)) \in Nat /\ SumsTo(Tail(s), t - Size(Head(s)))
  <1>1. PICK pos \in [1..Len(s) + 1 -> Nat] :
          /\ pos[1] = 0 /\ pos[Len(s) + 1] = t
          /\ \A n \in 1..Len(s) : pos[n + 1] = pos[n] + Size(s[n])
          /\ \A n \in 1..Len(s) + 1 : \A m \in 1..n : pos[m] <= pos[n]
    BY DEF SumsTo
  <1> DEFINE r == Tail(s)
             h == Size(Head(s))
             new == [n \in 1..Len(r) + 1 |-> pos[n + 1] - h]
  <1>2. Len(s) > 0 /\ Len(r) = Len(s) - 1
        /\ \A n \in 1..Len(r) : r[n] = s[n + 1]
    OBVIOUS
  <1>3. h = Size(s[1]) /\ h \in Int
    <2>1. Head(s) = s[1] /\ s[1] \in Piece
      BY <1>2
    <2> QED
      BY <2>1, PieceSize
  <1> HIDE DEF r, h
  <1>4. pos[2] = h /\ \A n \in 2..Len(s) + 1 : pos[n] - h \in Nat
    <2>1. pos[1 + 1] = pos[1] + Size(s[1])
      BY <1>1, <1>2
    <2>2. \A n \in 2..Len(s) + 1 : pos[2] <= pos[n]
      BY <1>1, <1>2
    <2> QED
      BY <1>1, <1>2, <1>3, <2>1, <2>2
  <1>5. new \in [1..Len(r) + 1 -> Nat]
    BY <1>2, <1>4
  <1>6. new[1] = 0 /\ new[Len(r) + 1] = t - h
    BY <1>1, <1>2, <1>3, <1>4
  <1>7. \A n \in 1..Len(r) : new[n + 1] = new[n] + Size(r[n])
    <2> SUFFICES ASSUME NEW n \in 1..Len(r)
                 PROVE  new[n + 1] = new[n] + Size(r[n])
      OBVIOUS
    <2>1. pos[n + 2] = pos[n + 1] + Size(s[n + 1]) /\ r[n] = s[n + 1]
      BY <1>1, <1>2
    <2>2. Size(r[n]) \in Int
      <3>1. r[n] \in Piece
        BY <1>2, <2>1
      <3> QED
        BY <3>1, PieceSize
    <2>3. new[n + 1] = pos[n + 2] - h /\ new[n] = pos[n + 1] - h
      BY <1>2
    <2>4. pos[n + 1] \in Nat
      BY <1>2
    <2> QED
      BY <1>3, <2>1, <2>2, <2>3, <2>4
  <1>8. \A n \in 1..Len(r) + 1 : \A m \in 1..n : new[m] <= new[n]
    <2> SUFFICES ASSUME NEW n \in 1..Len(r) + 1, NEW m \in 1..n
                 PROVE  new[m] <= new[n]
      OBVIOUS
    <2>1. pos[m + 1] <= pos[n + 1]
      BY <1>1, <1>2
    <2>2. pos[m + 1] \in Nat /\ pos[n + 1] \in Nat
      <3>1. m + 1 \in 1..Len(s) + 1 /\ n + 1 \in 1..Len(s) + 1
        BY <1>2
      <3> QED
        BY <3>1
    <2>3. new[n] = pos[n + 1] - h /\ new[m] = pos[m + 1] - h
      BY <1>2
    <2> QED
      BY <1>3, <2>1, <2>2, <2>3
  <1> HIDE DEF new
  <1>9. t - h \in Nat
    <2>1. Len(r) + 1 \in 1..Len(r) + 1
      BY <1>2
    <2> QED
      BY <1>5, <1>6, <2>1
  <1> QED
    BY <1>5, <1>6, <1>7, <1>8, <1>9 DEF SumsTo, r, h

-----------------------------------------------------------------------------
(* The initial state, and the steps that leave the queue alone.            *)

LEMMA InitHolds == Init => PtyInv
  <1> SUFFICES ASSUME Init
               PROVE  PtyInv
    OBVIOUS
  <1> USE PtyAssumption
  <1>1. Typed
    <2> USE DEF Init
    <2>1. /\ at \in [Sender -> {"idle", "lock", "wait", "notify"}]
          /\ given \in [Sender -> Nat]
          /\ late \in [Sender -> BOOLEAN] /\ sent \in [Sender -> BOOLEAN]
      OBVIOUS
    <2>2. rest \in [of : Sender \cup {"nobody"}, from : Nat, to : Nat]
      BY DEF NoChunk
    <2>3. /\ queue \in Seq(Piece) /\ accepted \in Seq(Piece)
          /\ written \in Seq(Piece) /\ waiting \in Seq(Parties)
      OBVIOUS
    <2>4. tty \in 0..Tty /\ slave \subseteq {"child", "escaped"}
      OBVIOUS
    <2> QED
      BY <2>1, <2>2, <2>3, <2>4 DEF Typed
  <1>2. Bounded
    BY SumEmpty DEF Init, Bounded, NoChunk, Size
  <1>3. InLine
    BY DEF Init, InLine
  <1>4. NoStall
    BY DEF Init, NoStall
  <1>5. QueuedInOrder
    BY DEF Init, QueuedInOrder
  <1>6. Piped
    BY DEF Init, Piped
  <1>7. Finished
    BY DEF Init, Finished
  <1>8. Staged
    BY DEF Init, Staged, InCall
  <1> QED
    BY <1>1, <1>2, <1>3, <1>4, <1>5, <1>6, <1>7, <1>8 DEF PtyInv

LEMMA InputStays ==
  ASSUME PtyInv,
         UNCHANGED <<calls, queue, queued, closed, waiting, writer, rest,
                     accepted, written>>,
         slave' \subseteq slave,
         teardown = "notify" => teardown' = "notify",
         Typed', Staged'
  PROVE  PtyInv'
  <1> USE DEF PtyInv, calls
  <1>1. Bounded'
    BY DEF Bounded, SumsTo, Size
  <1>2. InLine'
    BY DEF InLine
  <1>3. NoStall'
    BY DEF NoStall, HasRoom, NextChunk, Size
  <1>4. QueuedInOrder'
    BY DEF QueuedInOrder
  <1>5. Piped'
    BY DEF Piped, Size
  <1>6. Finished'
    BY DEF Finished, Writing
  <1> QED
    BY <1>1, <1>2, <1>3, <1>4, <1>5, <1>6

LEMMA ShellSteps ==
  ASSUME PtyInv
  PROVE  /\ TerminalRead => PtyInv'
         /\ \A p \in slave : LetGo(p) => PtyInv'
         /\ ReaderStep => PtyInv'
  <1> USE DEF PtyInv, calls, input
  <1>1. ASSUME TerminalRead PROVE PtyInv'
    <2> USE <1>1 DEF TerminalRead, shell
    <2>1. Typed'
      BY PtyAssumption DEF Typed
    <2>2. Staged'
      BY DEF Staged, InCall
    <2> QED
      BY <2>1, <2>2, InputStays
  <1>2. ASSUME NEW p \in slave, LetGo(p) PROVE PtyInv'
    <2> USE <1>2 DEF LetGo
    <2>1. Typed'
      BY DEF Typed
    <2>2. Staged'
      BY DEF Staged, InCall
    <2> QED
      BY <2>1, <2>2, InputStays
  <1>3. ASSUME ReadEnds PROVE PtyInv'
    <2> USE <1>3 DEF ReadEnds
    <2>1. Typed'
      BY DEF Typed
    <2>2. Staged'
      BY DEF Staged, InCall
    <2> QED
      BY <2>1, <2>2, InputStays
  <1>4. ASSUME Reap PROVE PtyInv'
    <2> USE <1>4 DEF Reap
    <2>1. Typed'
      BY DEF Typed
    <2>2. Staged'
      BY DEF Staged, InCall
    <2> QED
      BY <2>1, <2>2, InputStays
  <1>5. ASSUME ReaderLeaves PROVE PtyInv'
    <2> USE <1>5 DEF ReaderLeaves, ReleasePty, DropPty
    <2>0. /\ child' \in {"none", "running", "zombie", "reaped"}
          /\ slave' \subseteq {"child", "escaped"} /\ master' \in BOOLEAN
      BY DEF Typed
    <2>1. Typed'
      BY <2>0 DEF Typed
    <2>2. Staged'
      BY DEF Staged, InCall, Typed
    <2>3. slave' \subseteq slave
      OBVIOUS
    <2> QED
      BY <2>1, <2>2, <2>3, InputStays
  <1> QED
    BY <1>1, <1>2, <1>3, <1>4, <1>5 DEF ReaderStep

LEMMA CloseSteps ==
  ASSUME PtyInv
  PROVE  /\ Close => PtyInv'
         /\ CloseKills => PtyInv'
         /\ DropSession => PtyInv'
         /\ ReleaseSession => PtyInv'
         /\ Join => PtyInv'
  <1> USE DEF PtyInv, calls, input, shell
  <1>1. ASSUME Close PROVE PtyInv'
    <2> USE <1>1 DEF Close
    <2>1. Typed'
      BY DEF Typed
    <2>2. Staged'
      BY DEF Staged, InCall
    <2>3. teardown # "notify"
      BY DEF Staged
    <2> QED
      BY <2>1, <2>2, <2>3, InputStays
  <1>2. ASSUME CloseKills PROVE PtyInv'
    <2> USE <1>2 DEF CloseKills, KillChild
    <2>1. Typed'
      BY DEF Typed
    <2>2. Staged'
      BY DEF Staged, InCall
    <2> QED
      BY <2>1, <2>2, InputStays
  <1>3. ASSUME DropSession PROVE PtyInv'
    <2> USE <1>3 DEF DropSession, KillChild
    <2>1. Typed'
      BY DEF Typed
    <2>2. Staged'
      BY DEF Staged, InCall
    <2> QED
      BY <2>1, <2>2, InputStays
  <1>4. ASSUME ReleaseSession PROVE PtyInv'
    <2> USE <1>4 DEF ReleaseSession, ReleasePty, DropPty
    <2>1. Typed'
      BY DEF Typed
    <2>2. Staged'
      BY DEF Staged, InCall, Typed
    <2>3. slave' \subseteq slave
      OBVIOUS
    <2> QED
      BY <2>1, <2>2, <2>3, InputStays
  <1>5. ASSUME Join PROVE PtyInv'
    <2> USE <1>5 DEF Join
    <2>1. Typed'
      BY DEF Typed
    <2>2. Staged'
      BY DEF Staged, InCall
    <2> QED
      BY <2>1, <2>2, InputStays
  <1> QED
    BY <1>1, <1>2, <1>3, <1>4, <1>5

LEMMA CreateStep == PtyInv /\ Create => PtyInv'
  <1> SUFFICES ASSUME PtyInv, Create
               PROVE  PtyInv'
    OBVIOUS
  <1> USE DEF PtyInv, Create, calls
  <1>1. /\ teardown = "none" /\ written = <<>> /\ writer = "none"
        /\ InCall = {}
    BY DEF Staged
  <1>2. slave' \subseteq {"child", "escaped"} /\ slave' # {}
    OBVIOUS
  <1>3. Typed'
    BY <1>2 DEF Typed
  <1>4. Bounded'
    BY DEF Bounded, SumsTo, Size
  <1>5. InLine'
    BY <1>1 DEF InLine
  <1>6. NoStall'
    BY DEF NoStall, HasRoom, NextChunk, Size
  <1>7. QueuedInOrder'
    BY DEF QueuedInOrder
  <1>8. Piped'
    BY DEF Piped
  <1>9. Finished'
    BY <1>1 DEF Finished
  <1>10. Staged'
    BY <1>1 DEF Staged, InCall
  <1> QED
    BY <1>3, <1>4, <1>5, <1>6, <1>7, <1>8, <1>9, <1>10

LEMMA SendStep ==
  ASSUME PtyInv, NEW s \in Sender, Send(s)
  PROVE  PtyInv'
  <1> USE DEF PtyInv, Send, input, shell
  <1>1. at[s] = "idle" /\ teardown = "none"
    BY DEF Staged, InCall
  <1>2. /\ at' \in [Sender -> {"idle", "lock", "wait", "notify"}]
        /\ sent' \in [Sender -> BOOLEAN] /\ at'[s] = "lock" /\ sent'[s]
        /\ \A t \in Sender \ {s} : at'[t] = at[t] /\ sent'[t] = sent[t]
    BY DEF Typed
  <1>3. Typed'
    BY <1>2 DEF Typed
  <1>4. Bounded'
    BY DEF Bounded, SumsTo, Size
  <1>5. InLine'
    <2>1. \A n \in 1..Len(waiting) : waiting[n] # s
      BY <1>1, PtyAssumption DEF InLine
    <2>2. \A n \in 1..Len(waiting) :
            waiting[n] # "writer" => waiting[n] \in Sender \ {s}
      BY <2>1 DEF Typed, Parties
    <2> QED
      BY <1>1, <1>2, <2>2 DEF InLine
  <1>6. NoStall'
    BY <1>1, <1>2 DEF NoStall, HasRoom, NextChunk, Size
  <1>7. QueuedInOrder'
    BY DEF QueuedInOrder
  <1>8. Piped'
    BY DEF Piped
  <1>9. Finished'
    BY DEF Finished, Writing
  <1>10. Staged'
    BY <1>1, <1>2 DEF Staged, InCall
  <1> QED
    BY <1>3, <1>4, <1>5, <1>6, <1>7, <1>8, <1>9, <1>10

LEMMA CloseQueueStep == PtyInv /\ CloseQueue => PtyInv'
  <1> SUFFICES ASSUME PtyInv, CloseQueue
               PROVE  PtyInv'
    OBVIOUS
  <1> USE DEF PtyInv, CloseQueue, calls, shell
  <1>1. InCall = {} /\ ~closed
    BY DEF Staged
  <1>2. Typed'
    BY DEF Typed
  <1>3. Bounded'
    BY DEF Bounded, SumsTo, Size
  <1>4. InLine'
    BY DEF InLine
  <1>5. NoStall'
    BY DEF NoStall, HasRoom, NextChunk, Size
  <1>6. QueuedInOrder'
    BY DEF QueuedInOrder
  <1>7. Piped'
    BY DEF Piped, Size
  <1>8. Finished'
    BY DEF Finished, Writing
  <1>9. Staged'
    BY <1>1 DEF Staged, InCall
  <1> QED
    BY <1>2, <1>3, <1>4, <1>5, <1>6, <1>7, <1>8, <1>9

LEMMA NotifyClosedStep == PtyInv /\ NotifyClosed => PtyInv'
  <1> SUFFICES ASSUME PtyInv, NotifyClosed
               PROVE  PtyInv'
    OBVIOUS
  <1> USE DEF PtyInv, NotifyClosed, NotifyAll, shell
  <1>1. /\ at' \in [Sender -> {"idle", "lock", "notify"}]
        /\ \A s \in Sender : at'[s] = IF at[s] = "wait" THEN "lock" ELSE at[s]
    BY DEF Typed
  <1>2. Typed'
    BY <1>1 DEF Typed
  <1>3. Bounded'
    BY DEF Bounded, SumsTo, Size
  <1>4. InLine'
    BY <1>1 DEF InLine
  <1>5. NoStall'
    BY <1>1 DEF NoStall
  <1>6. QueuedInOrder'
    BY DEF QueuedInOrder
  <1>7. Piped'
    BY DEF Piped, Size
  <1>8. Finished'
    BY DEF Finished, Writing
  <1>9. Staged'
    BY <1>1 DEF Staged, InCall
  <1> QED
    BY <1>2, <1>3, <1>4, <1>5, <1>6, <1>7, <1>8, <1>9

-----------------------------------------------------------------------------
(* The senders.                                                            *)

LEMMA NextChunkFacts ==
  ASSUME Typed, Bounded, NEW s \in Sender
  PROVE  /\ NextChunk(s) \in Piece /\ Size(NextChunk(s)) \in 0..Chunk
         /\ NextChunk(s).of = s /\ NextChunk(s).from = given[s]
         /\ NextChunk(s).to <= Length[s]
         /\ Left(s) => given[s] < NextChunk(s).to
  <1>1. given[s] \in Nat /\ Length[s] \in Nat /\ Chunk \in Nat \ {0}
        /\ given[s] <= Length[s]
    BY PtyAssumption DEF Typed, Bounded
  <1> QED
    BY <1>1 DEF NextChunk, Piece, Size, Left

(* A caller holds the session, which keeps its queue open.                 *)
LEMMA CallerKeepsOpen ==
  ASSUME Staged, NEW s \in Sender, at[s] # "idle"
  PROVE  ~closed /\ entry # "none" /\ sent[s]
  BY DEF Staged, InCall

LEMMA EnqueueStep ==
  ASSUME PtyInv, NEW s \in Sender, Enqueue(s)
  PROVE  PtyInv'
  <1> DEFINE c == NextChunk(s)
  <1> USE DEF PtyInv, Enqueue, shell
  <1>1. /\ c \in Piece /\ Size(c) \in 1..Chunk
        /\ c.of = s /\ c.from = given[s] /\ c.to <= Length[s]
        /\ given[s] < c.to
    <2>1. c.to - c.from > 0
      BY NextChunkFacts DEF Typed, Piece
    <2> QED
      BY <2>1, NextChunkFacts DEF Size
  <1>2. ~closed /\ entry # "none" /\ sent[s]
    BY CallerKeepsOpen
  <1>3. queued \in Nat /\ queue \in Seq(Piece) /\ accepted \in Seq(Piece)
    BY DEF Typed
  <1>4. /\ queue' = Append(queue, c) /\ queued' = queued + Size(c)
        /\ accepted' = Append(accepted, c) /\ queued' <= Queue
        /\ given' \in [Sender -> Nat] /\ given'[s] = c.to
        /\ \A t \in Sender \ {s} : given'[t] = given[t]
    BY <1>1 DEF HasRoom, Typed, Piece
  <1>5. /\ at' \in [Sender -> {"idle", "lock", "wait", "notify"}]
        /\ at[s] = "lock" /\ at'[s] = "notify"
        /\ \A t \in Sender \ {s} : at'[t] = at[t]
    BY DEF Typed
  <1> HIDE DEF c, Enqueue
  <1>6. /\ Len(queue') = Len(queue) + 1 /\ queue'[Len(queue) + 1] = c
        /\ \A n \in 1..Len(queue) : queue'[n] = queue[n]
        /\ Len(accepted') = Len(accepted) + 1
        /\ accepted'[Len(accepted) + 1] = c
        /\ \A n \in 1..Len(accepted) : accepted'[n] = accepted[n]
    BY <1>1, <1>3, <1>4
  <1>7. /\ \A n \in 1..Len(queue') : n = Len(queue) + 1 \/ n \in 1..Len(queue)
        /\ \A n \in 1..Len(accepted') :
             n = Len(accepted) + 1 \/ n \in 1..Len(accepted)
    BY <1>3, <1>6
  <1>8. Typed'
    <2>1. queue' \in Seq(Piece) /\ accepted' \in Seq(Piece) /\ queued' \in Nat
      BY <1>1, <1>3, <1>4
    <2> QED
      BY <1>4, <1>5, <2>1 DEF Typed, Enqueue
  <1>9. Bounded'
    <2>1. SumsTo(queue', queued')
      BY <1>1, <1>3, <1>4, SumAppend DEF Bounded
    <2>2. \A n \in 1..Len(queue') : Size(queue'[n]) \in 1..Chunk
      BY <1>1, <1>6, <1>7 DEF Bounded, Size
    <2>3. \A t \in Sender : given'[t] <= Length[t]
      BY <1>1, <1>4 DEF Bounded
    <2>4. rest' = rest
      BY DEF Enqueue
    <2> QED
      BY <1>4, <2>1, <2>2, <2>3, <2>4 DEF Bounded, Size
  <1>10. InLine'
    <2>1. \A n \in 1..Len(waiting) : waiting[n] # s
      BY <1>5, PtyAssumption DEF InLine
    <2>2. \A n \in 1..Len(waiting) :
            waiting[n] # "writer" => waiting[n] \in Sender \ {s}
      BY <2>1 DEF Typed, Parties
    <2> QED
      BY <1>5, <2>2 DEF InLine, Enqueue
  <1>11. NoStall'
    <2>1. \E t \in Sender : at'[t] = "notify"
      BY <1>5
    <2>2. ASSUME NEW t \in Sender, at'[t] = "wait"
          PROVE  ~HasRoom(t)'
      <3>1. t # s /\ at[t] = "wait" /\ given'[t] = given[t]
        BY <1>4, <1>5, <2>2
      <3>2. NextChunk(t)' = NextChunk(t) /\ ~(queued + Size(NextChunk(t)) <= Queue)
        BY <3>1 DEF NoStall, HasRoom, NextChunk
      <3>3. Size(NextChunk(t)) \in Int /\ queued <= queued' /\ Queue \in Nat
        BY <1>1, <1>3, <1>4, NextChunkFacts, PtyAssumption
      <3> QED
        BY <1>1, <1>3, <1>4, <3>2, <3>3 DEF HasRoom, Size
    <2> QED
      BY <2>1, <2>2 DEF NoStall
  <1>12. QueuedInOrder'
    <2>1. ASSUME NEW n \in 1..Len(accepted')
          PROVE  LET d == accepted'[n] IN
                 /\ d.from < d.to /\ d.to <= given'[d.of]
                 /\ \A m \in 1..n - 1 :
                      accepted'[m].of = d.of => accepted'[m].to <= d.from
      <3>1. CASE n \in 1..Len(accepted)
        <4>1. accepted'[n] = accepted[n] /\ accepted[n] \in Piece
              /\ \A m \in 1..n - 1 : accepted'[m] = accepted[m]
          BY <1>3, <1>6, <3>1
        <4>2. accepted[n].to <= given'[accepted[n].of]
          <5>1. accepted[n].of \in Sender /\ accepted[n].to \in Nat
                /\ given[s] \in Nat /\ c.to \in Nat
            BY <1>1, <4>1 DEF Piece, Typed
          <5>2. accepted[n].to <= given[accepted[n].of]
            BY <1>3, <3>1 DEF QueuedInOrder
          <5> QED
            BY <1>1, <1>4, <5>1, <5>2
        <4> QED
          BY <1>3, <3>1, <4>1, <4>2 DEF QueuedInOrder
      <3>2. CASE n = Len(accepted) + 1
        <4>1. accepted'[n] = c
          BY <1>6, <3>2
        <4>2. ASSUME NEW m \in 1..n - 1, accepted'[m].of = s
              PROVE  accepted'[m].to <= given[s]
          <5>1. m \in 1..Len(accepted) /\ accepted'[m] = accepted[m]
            BY <1>3, <1>6, <3>2
          <5> QED
            BY <1>3, <4>2, <5>1 DEF QueuedInOrder
        <4> QED
          BY <1>1, <1>4, <4>1, <4>2 DEF Piece
      <3> QED
        BY <1>3, <1>6, <3>1, <3>2
    <2>2. ASSUME NEW t \in Sender, NEW i \in 0..given'[t] - 1
          PROVE  \E n \in 1..Len(accepted') :
                   /\ accepted'[n].of = t
                   /\ accepted'[n].from <= i /\ i < accepted'[n].to
      <3>1. CASE i \in 0..given[t] - 1
        <4>1. PICK n \in 1..Len(accepted) :
                 /\ accepted[n].of = t
                 /\ accepted[n].from <= i /\ i < accepted[n].to
          BY <1>3, <3>1 DEF QueuedInOrder
        <4> QED
          BY <1>3, <1>6, <4>1
      <3>2. CASE i \notin 0..given[t] - 1
        <4>1. t = s /\ given[s] <= i /\ i < c.to
          <5>1. given[t] \in Nat /\ c.to \in Nat /\ given'[t] \in Nat
                /\ i \in 0..given'[t] - 1
            BY <1>1, <1>4 DEF Typed, Piece
          <5>2. given[t] <= i /\ i < given'[t]
            BY <5>1, <3>2
          <5> QED
            BY <1>4, <5>1, <5>2
        <4>2. Len(accepted) + 1 \in 1..Len(accepted')
          BY <1>3, <1>6
        <4> QED
          BY <1>1, <1>6, <4>1, <4>2
      <3> QED
        BY <3>1, <3>2
    <2>3. DOMAIN accepted' = 1..Len(accepted')
      BY <1>1, <1>3, <1>4
    <2> QED
      BY <2>1, <2>2, <2>3 DEF QueuedInOrder
  <1>13. Piped'
    <2> USE <1>2, <1>3, <1>6 DEF Enqueue
    <2>1. Len(written) \in Nat /\ Len(written) <= Len(accepted)
          /\ Len(queue) = Len(accepted) - Len(written)
      BY DEF Typed, Piped
    <2>2. \A n \in 1..Len(written) : accepted'[n] = accepted[n]
      BY <2>1
    <2>3. ASSUME NEW n \in 1..Len(queue')
          PROVE  queue'[n] = accepted'[Len(written) + n]
      <3>1. CASE n = Len(queue) + 1
        BY <2>1, <3>1
      <3>2. CASE n \in 1..Len(queue)
        <4>1. queue[n] = accepted[Len(written) + n]
          BY <3>2 DEF Piped
        <4>2. Len(written) + n \in 1..Len(accepted)
          BY <2>1, <3>2
        <4> QED
          BY <3>2, <4>1, <4>2
      <3> QED
        BY <1>7, <3>1, <3>2
    <2>4. ~closed' /\ Len(queue') = Len(accepted') - Len(written')
          /\ Len(written') <= Len(accepted') /\ written' = written
      BY <2>1
    <2>5. \A n \in 1..Len(written) :
            /\ written[n].of = accepted'[n].of
            /\ written[n].from = accepted'[n].from
            /\ written[n].from <= written[n].to /\ written[n].to <= accepted'[n].to
      BY <2>2 DEF Piped
    <2>6. writer = "write" =>
            /\ Len(written) > 0 /\ Size(rest) > 0
            /\ rest.of = accepted'[Len(written)].of
            /\ rest.from = written[Len(written)].to
            /\ rest.to = accepted'[Len(written)].to
      BY <2>1, <2>2 DEF Piped
    <2>7. writer' = writer /\ rest' = rest
      OBVIOUS
    <2> HIDE DEF Enqueue, PtyInv
    <2> QED
      BY <2>3, <2>4, <2>5, <2>6, <2>7 DEF Piped, Size
  <1>14. Finished'
    <2>1. Len(written) \in Nat /\ Len(written) <= Len(accepted)
      BY DEF Typed, Piped
    <2>2. \A n \in 1..Len(written) : accepted'[n] = accepted[n]
      BY <1>3, <1>6, <2>1
    <2> QED
      BY <2>1, <2>2 DEF Finished, Writing, Enqueue
  <1>15. Staged'
    BY <1>2, <1>5 DEF Staged, InCall, Enqueue
  <1> QED
    BY <1>8, <1>9, <1>10, <1>11, <1>12, <1>13, <1>14, <1>15

(* A step of the line that leaves the chunks, the counters and the         *)
(* teardown alone.                                                         *)
LEMMA LineSteps ==
  ASSUME PtyInv,
         UNCHANGED <<entry, shell, given, sent, queue, queued, closed, rest,
                     accepted, written, teardown>>,
         Typed', InLine', NoStall',
         (writer' = "write") <=> (writer = "write"),
         writer' # "none" => writer # "none",
         \A s \in Sender : at[s] = "idle" => at'[s] = "idle"
  PROVE  PtyInv'
  <1> USE DEF PtyInv, shell
  <1>1. Bounded'
    BY DEF Bounded, SumsTo, Size
  <1>2. QueuedInOrder'
    BY DEF QueuedInOrder
  <1>3. Piped'
    BY DEF Piped, Size
  <1>4. Finished'
    BY DEF Finished, Writing
  <1>5. Staged'
    BY DEF Staged, InCall, Typed
  <1> QED
    BY <1>1, <1>2, <1>3, <1>4, <1>5

LEMMA NotifyOneStep ==
  ASSUME PtyInv, NEW s \in Sender, NotifyOne(s)
  PROVE  PtyInv'
  <1> DEFINE woken == IF waiting = <<>> THEN {} ELSE {Head(waiting)}
  <1> USE DEF PtyInv, shell
  <1>1. /\ at[s] = "notify" /\ at'[s] \in {"lock", "idle"}
        /\ \A t \in Sender \ {s} : at'[t] = IF t \in woken THEN "lock" ELSE at[t]
        /\ at' \in [Sender -> {"idle", "lock", "wait", "notify"}]
    BY DEF NotifyOne, Typed
  <1>2. waiting \in Seq(Parties) /\ "writer" \notin Sender
    BY PtyAssumption DEF Typed
  <1>3. CASE waiting = <<>>
    <2>1. writer # "wait" /\ \A t \in Sender : at[t] # "wait" /\ at'[t] # "wait"
      BY <1>1, <1>2, <1>3 DEF InLine
    <2>2. /\ woken = {} /\ waiting' = waiting /\ writer' = writer
          /\ UNCHANGED <<queue, queued, closed, teardown>>
      BY <1>3 DEF NotifyOne
    <2>3. Typed'
      BY <1>1, <2>2 DEF NotifyOne, Typed
    <2>4. InLine'
      BY <1>3, <2>1, <2>2 DEF InLine
    <2>5. NoStall'
      BY <2>1, <2>2 DEF NoStall
    <2>6. \A t \in Sender : at[t] = "idle" => at'[t] = "idle"
      BY <1>1, <2>2
    <2> QED
      BY <2>2, <2>3, <2>4, <2>5, <2>6, LineSteps DEF NotifyOne
  <1>4. CASE waiting # <<>>
    <2>1. Len(waiting) > 0 /\ woken = {waiting[1]}
      BY <1>2, <1>4
    <2>2. /\ waiting' \in Seq(Parties) /\ Len(waiting') = Len(waiting) - 1
          /\ \A n \in 1..Len(waiting') : waiting'[n] = waiting[n + 1]
      BY <1>2, <1>4 DEF NotifyOne
    <2>3. writer' = IF waiting[1] = "writer" THEN "lock" ELSE writer
      BY <2>1 DEF NotifyOne
    <2>4. writer' # "wait" /\ (waiting[1] = "writer" => writer = "wait")
      BY <2>1, <2>3 DEF InLine
    <2>5. ASSUME NEW n \in 1..Len(waiting')
          PROVE  /\ waiting'[n] \in Sender \ {s} /\ waiting'[n] # waiting[1]
                 /\ at[waiting'[n]] = "wait"
      <3>1. /\ n + 1 \in 1..Len(waiting) /\ 1 \in 1..Len(waiting)
            /\ waiting'[n] = waiting[n + 1] /\ n + 1 # 1
        BY <1>2, <2>1, <2>2
      <3>2. waiting[n + 1] # waiting[1]
        BY <3>1 DEF InLine
      <3>3. waiting[n + 1] # "writer"
        BY <3>1, <3>2 DEF InLine
      <3>4. waiting[n + 1] \in Sender
        BY <1>2, <3>1, <3>3 DEF Parties
      <3> QED
        BY <1>1, <3>1, <3>2, <3>3, <3>4 DEF InLine
    <2>6. Typed'
      BY <1>1, <2>2, <2>3 DEF NotifyOne, Typed
    <2>7. InLine'
      <3>1. ASSUME NEW m \in 1..Len(waiting'), NEW n \in 1..Len(waiting'),
                   waiting'[m] = waiting'[n]
            PROVE  m = n
        <4>1. m + 1 \in 1..Len(waiting) /\ n + 1 \in 1..Len(waiting)
              /\ waiting[m + 1] = waiting[n + 1]
          BY <1>2, <2>1, <2>2, <3>1
        <4>2. m + 1 = n + 1
          BY <4>1 DEF InLine
        <4> QED
          BY <4>2
      <3>2. ASSUME NEW n \in 1..Len(waiting')
            PROVE  waiting'[n] # "writer" /\ at'[waiting'[n]] = "wait"
        BY <1>1, <1>2, <2>1, <2>5
      <3>3. ASSUME NEW t \in Sender, at'[t] = "wait"
            PROVE  \E n \in 1..Len(waiting') : waiting'[n] = t
        <4>1. t # s /\ t # waiting[1] /\ at[t] = "wait"
          BY <1>1, <2>1, <3>3
        <4>2. PICK n \in 1..Len(waiting) : waiting[n] = t
          BY <4>1 DEF InLine
        <4>3. n - 1 \in 1..Len(waiting') /\ (n - 1) + 1 = n
          BY <1>2, <2>2, <4>1, <4>2
        <4> QED
          BY <2>2, <4>2, <4>3
      <3> QED
        BY <2>4, <3>1, <3>2, <3>3 DEF InLine
    <2>8. NoStall'
      <3>1. ASSUME NEW t \in Sender, at'[t] = "wait"
            PROVE  ~HasRoom(t)'
        <4>1. at[t] = "wait"
          BY <1>1, <3>1
        <4> QED
          BY <4>1 DEF NoStall, HasRoom, NextChunk, Size, NotifyOne
      <3> QED
        BY <2>4, <3>1 DEF NoStall
    <2>9. \A t \in Sender : at[t] = "idle" => at'[t] = "idle"
      <3>1. waiting[1] \in Sender => at[waiting[1]] = "wait"
        BY <1>2, <2>1 DEF InLine
      <3> QED
        BY <1>1, <2>1, <3>1
    <2>10. /\ (writer' = "write") <=> (writer = "write")
           /\ writer' # "none" => writer # "none"
      BY <2>3, <2>4
    <2> QED
      BY <2>6, <2>7, <2>8, <2>9, <2>10, LineSteps DEF NotifyOne
  <1> QED
    BY <1>3, <1>4

LEMMA WaitForRoomStep ==
  ASSUME PtyInv, NEW s \in Sender, WaitForRoom(s)
  PROVE  PtyInv'
  <1> USE DEF PtyInv
  <1>1. /\ at[s] = "lock" /\ at'[s] = "wait"
        /\ \A t \in Sender \ {s} : at'[t] = at[t]
        /\ at' \in [Sender -> {"idle", "lock", "wait", "notify"}]
    BY DEF WaitForRoom, Typed
  <1>2. waiting \in Seq(Parties) /\ "writer" \notin Sender /\ s \in Parties
    BY PtyAssumption DEF Typed, Parties
  <1>3. /\ waiting' \in Seq(Parties) /\ Len(waiting') = Len(waiting) + 1
        /\ waiting'[Len(waiting) + 1] = s
        /\ \A n \in 1..Len(waiting) : waiting'[n] = waiting[n]
        /\ \A n \in 1..Len(waiting') :
             n = Len(waiting) + 1 \/ n \in 1..Len(waiting)
    BY <1>2 DEF WaitForRoom
  <1>4. Typed'
    BY <1>1, <1>3 DEF WaitForRoom, Typed, shell
  <1>5. \A n \in 1..Len(waiting) : waiting[n] # s
    BY <1>1, <1>2 DEF InLine
  <1>6. InLine'
    <2>1. \A m, n \in 1..Len(waiting') : waiting'[m] = waiting'[n] => m = n
      BY <1>3, <1>5 DEF InLine
    <2>2. ASSUME NEW n \in 1..Len(waiting')
          PROVE  IF waiting'[n] = "writer" THEN writer' = "wait"
                 ELSE at'[waiting'[n]] = "wait"
      <3>1. CASE n = Len(waiting) + 1
        BY <1>1, <1>2, <1>3, <3>1
      <3>2. CASE n \in 1..Len(waiting)
        <4>1. waiting[n] \in Parties \ {s} /\ waiting'[n] = waiting[n]
          BY <1>2, <1>3, <1>5, <3>2
        <4> QED
          BY <1>1, <3>2, <4>1 DEF InLine, Parties, WaitForRoom
      <3> QED
        BY <1>3, <3>1, <3>2
    <2>3. ASSUME NEW t \in Sender, at'[t] = "wait"
          PROVE  \E n \in 1..Len(waiting') : waiting'[n] = t
      <3>1. CASE t = s
        <4>1. Len(waiting) + 1 \in 1..Len(waiting')
          BY <1>2, <1>3
        <4> QED
          BY <1>3, <3>1, <4>1
      <3>2. CASE t # s
        <4>1. PICK n \in 1..Len(waiting) : waiting[n] = t
          BY <1>1, <2>3, <3>2 DEF InLine
        <4> QED
          BY <1>2, <1>3, <4>1
      <3> QED
        BY <3>1, <3>2
    <2>4. writer' = "wait" => Len(waiting') > 0 /\ waiting'[1] = "writer"
      BY <1>2, <1>3 DEF InLine, WaitForRoom
    <2> QED
      BY <2>1, <2>2, <2>3, <2>4 DEF InLine
  <1>7. NoStall'
    <2>1. ASSUME NEW t \in Sender, at'[t] = "wait"
          PROVE  ~HasRoom(t)'
      <3>1. ~HasRoom(t)
        BY <1>1, <2>1 DEF NoStall, WaitForRoom
      <3> QED
        BY <3>1 DEF HasRoom, NextChunk, Size, WaitForRoom
    <2>2. \A t \in Sender : at[t] = "notify" => at'[t] = "notify"
      BY <1>1
    <2> QED
      BY <2>1, <2>2 DEF NoStall, WaitForRoom
  <1>8. \A t \in Sender : at[t] = "idle" => at'[t] = "idle"
    BY <1>1
  <1> QED
    BY <1>4, <1>6, <1>7, <1>8, LineSteps DEF WaitForRoom

LEMMA GiveUpStep ==
  ASSUME PtyInv, NEW s \in Sender, GiveUp(s)
  PROVE  PtyInv'
  <1> USE DEF PtyInv
  <1>1. /\ at[s] = "lock" /\ at'[s] = "idle"
        /\ \A t \in Sender \ {s} : at'[t] = at[t]
        /\ at' \in [Sender -> {"idle", "lock", "wait", "notify"}]
    BY DEF GiveUp, Typed
  <1>2. Typed'
    BY <1>1 DEF GiveUp, Typed, shell, input
  <1>3. InLine'
    <2>1. \A n \in 1..Len(waiting) : waiting[n] # s
      BY <1>1, PtyAssumption DEF InLine
    <2>2. \A n \in 1..Len(waiting) :
            waiting[n] # "writer" => waiting[n] \in Sender \ {s}
      BY <2>1 DEF Typed, Parties
    <2> QED
      BY <1>1, <2>2 DEF InLine, GiveUp, input
  <1>4. NoStall'
    <2>1. \A t \in Sender : (at[t] = "notify" => at'[t] = "notify")
                           /\ (at'[t] = "wait" => at[t] = "wait")
      BY <1>1
    <2> QED
      BY <2>1 DEF NoStall, HasRoom, NextChunk, Size, GiveUp, input
  <1>5. \A t \in Sender : at[t] = "idle" => at'[t] = "idle"
    BY <1>1
  <1> QED
    BY <1>2, <1>3, <1>4, <1>5, LineSteps DEF GiveUp, input

LEMMA UnwaitFacts ==
  ASSUME PtyInv, NEW s \in Sender, Unwait(s), UNCHANGED writer
  PROVE  /\ waiting' \in Seq(Parties) /\ InLine'
         /\ at' \in [Sender -> {"idle", "lock", "wait", "notify"}]
         /\ at[s] = "wait" /\ at'[s] = "lock"
         /\ \A t \in Sender \ {s} : at'[t] = at[t]
  <1> USE DEF PtyInv
  <1>1. /\ at[s] = "wait" /\ at'[s] = "lock"
        /\ \A t \in Sender \ {s} : at'[t] = at[t]
        /\ at' \in [Sender -> {"idle", "lock", "wait", "notify"}]
    BY DEF Unwait, Typed
  <1>2. waiting \in Seq(Parties) /\ "writer" \notin Sender
    BY PtyAssumption DEF Typed
  <1>3. PICK k \in 1..Len(waiting) :
          waiting[k] = s /\ waiting' = RemoveAt(waiting, k)
    BY <1>2 DEF Unwait
  <1>4. /\ waiting' \in Seq(Parties) /\ Len(waiting') = Len(waiting) - 1
        /\ \A n \in 1..k - 1 : waiting'[n] = waiting[n]
        /\ \A n \in k..Len(waiting) - 1 : waiting'[n] = waiting[n + 1]
    BY <1>2, <1>3, RemoveFacts
  <1>5. ASSUME NEW n \in 1..Len(waiting')
        PROVE  \E i \in 1..Len(waiting) :
                 /\ waiting'[n] = waiting[i] /\ i # k
                 /\ (n < k /\ i = n) \/ (n >= k /\ i = n + 1)
    <2> Len(waiting) \in Nat /\ k \in Int /\ n \in Int
      BY <1>2
    <2>1. CASE n < k
      BY <1>3, <1>4, <2>1
    <2>2. CASE n >= k
      <3>1. n + 1 \in 1..Len(waiting) /\ n \in k..Len(waiting) - 1 /\ n + 1 # k
        BY <1>4, <2>2
      <3> QED
        BY <1>4, <2>2, <3>1
    <2> QED
      BY <2>1, <2>2
  <1>6. \A i \in 1..Len(waiting) : i # k => waiting[i] # s
    BY <1>3 DEF InLine
  <1>7. ASSUME NEW m \in 1..Len(waiting'), NEW n \in 1..Len(waiting'),
               waiting'[m] = waiting'[n]
        PROVE  m = n
    <2>1. PICK i \in 1..Len(waiting) :
            waiting'[m] = waiting[i] /\ ((m < k /\ i = m) \/ (m >= k /\ i = m + 1))
      BY <1>5
    <2>2. PICK j \in 1..Len(waiting) :
            waiting'[n] = waiting[j] /\ ((n < k /\ j = n) \/ (n >= k /\ j = n + 1))
      BY <1>5
    <2>3. waiting[i] = waiting[j]
      BY <1>7, <2>1, <2>2
    <2>4. i = j
      BY <2>3 DEF InLine
    <2> HIDE DEF PtyInv
    <2>5. m \in Int /\ n \in Int
      OBVIOUS
    <2> QED
      BY <2>1, <2>2, <2>4, <2>5
  <1>8. ASSUME NEW n \in 1..Len(waiting')
        PROVE  IF waiting'[n] = "writer" THEN writer' = "wait"
               ELSE at'[waiting'[n]] = "wait"
    <2>1. PICK i \in 1..Len(waiting) : waiting'[n] = waiting[i] /\ i # k
      BY <1>5
    <2>2. waiting[i] \in Parties /\ waiting[i] # s
      BY <1>2, <1>6, <2>1
    <2> QED
      BY <1>1, <2>1, <2>2 DEF InLine, Parties
  <1>9. ASSUME NEW t \in Sender, at'[t] = "wait"
        PROVE  \E n \in 1..Len(waiting') : waiting'[n] = t
    <2>1. t # s /\ at[t] = "wait"
      BY <1>1, <1>9
    <2>2. PICK i \in 1..Len(waiting) : waiting[i] = t
      BY <2>1 DEF InLine
    <2> Len(waiting) \in Nat /\ k \in Int /\ i \in Int
      BY <1>2
    <2>3. i # k
      BY <1>3, <2>1, <2>2
    <2>4. CASE i < k
      BY <1>3, <1>4, <2>2, <2>4
    <2>5. CASE i > k
      <3>1. i - 1 \in 1..Len(waiting') /\ i - 1 \in k..Len(waiting) - 1
            /\ (i - 1) + 1 = i
        BY <1>3, <1>4, <2>5
      <3> QED
        BY <1>4, <2>2, <3>1
    <2> QED
      BY <2>3, <2>4, <2>5
  <1>10. writer' = "wait" => Len(waiting') > 0 /\ waiting'[1] = "writer"
    <2>1. SUFFICES ASSUME writer = "wait"
                   PROVE  Len(waiting') > 0 /\ waiting'[1] = "writer"
      OBVIOUS
    <2>2. waiting[1] = "writer" /\ k # 1
      BY <1>2, <1>3, <2>1 DEF InLine
    <2>3. 1 \in 1..k - 1 /\ Len(waiting) > 1
      BY <1>2, <1>3, <2>2
    <2> QED
      BY <1>2, <1>4, <2>2, <2>3
  <1>11. InLine'
    BY <1>7, <1>8, <1>9, <1>10 DEF InLine
  <1> QED
    BY <1>1, <1>4, <1>11

LEMMA DeadlineStep ==
  ASSUME PtyInv, NEW s \in Sender, Deadline(s)
  PROVE  PtyInv'
  <1> USE DEF PtyInv
  <1>1. late' \in [Sender -> BOOLEAN]
    BY DEF Deadline, Typed
  <1>2. CASE Unwait(s)
    <2>1. /\ waiting' \in Seq(Parties) /\ InLine'
          /\ at' \in [Sender -> {"idle", "lock", "wait", "notify"}]
          /\ at[s] = "wait" /\ at'[s] = "lock"
          /\ \A t \in Sender \ {s} : at'[t] = at[t]
      BY <1>2, UnwaitFacts DEF Deadline
    <2>2. Typed'
      BY <1>1, <2>1 DEF Deadline, Typed, shell
    <2>3. NoStall'
      <3>1. \A t \in Sender : (at[t] = "notify" => at'[t] = "notify")
                             /\ (at'[t] = "wait" => at[t] = "wait")
        BY <2>1
      <3> QED
        BY <3>1 DEF NoStall, HasRoom, NextChunk, Size, Deadline
    <2>4. \A t \in Sender : at[t] = "idle" => at'[t] = "idle"
      BY <2>1
    <2> QED
      BY <2>1, <2>2, <2>3, <2>4, LineSteps DEF Deadline
  <1>3. CASE UNCHANGED <<at, waiting>>
    <2>1. Typed'
      BY <1>1, <1>3 DEF Deadline, Typed, shell
    <2>2. InLine'
      BY <1>3 DEF InLine, Deadline
    <2>3. NoStall'
      BY <1>3 DEF NoStall, HasRoom, NextChunk, Size, Deadline
    <2> QED
      BY <1>3, <2>1, <2>2, <2>3, LineSteps DEF Deadline
  <1> QED
    BY <1>2, <1>3 DEF Deadline

-----------------------------------------------------------------------------
(* The writer.                                                             *)

LEMMA WokenLine ==
  ASSUME Typed, NotifyAll, writer' # "wait"
  PROVE  /\ InLine' /\ waiting' \in Seq(Parties)
         /\ at' \in [Sender -> {"idle", "lock", "wait", "notify"}]
         /\ \A s \in Sender : at'[s] # "wait"
         /\ \A s \in Sender : at[s] = "idle" => at'[s] = "idle"
  <1>1. /\ waiting' = <<>>
        /\ \A s \in Sender : at'[s] = IF at[s] = "wait" THEN "lock" ELSE at[s]
        /\ at' \in [Sender -> {"idle", "lock", "wait", "notify"}]
    BY DEF NotifyAll, Typed
  <1>2. \A s \in Sender : at'[s] # "wait"
    BY <1>1
  <1>3. InLine'
    BY <1>1, <1>2 DEF InLine
  <1> QED
    BY <1>1, <1>2, <1>3

LEMMA AwaitChunkStep == PtyInv /\ AwaitChunk => PtyInv'
  <1> SUFFICES ASSUME PtyInv, AwaitChunk
               PROVE  PtyInv'
    OBVIOUS
  <1> USE DEF PtyInv
  <1>1. queue = <<>> /\ queued = 0 /\ writer = "lock" /\ ~closed
    BY SumEmpty DEF AwaitChunk, Bounded, Typed
  <1>2. \A s \in Sender : at[s] # "wait"
    <2> SUFFICES ASSUME NEW s \in Sender
                 PROVE  HasRoom(s)
      BY DEF NoStall
    <2>1. Size(NextChunk(s)) \in 0..Chunk /\ Chunk \in Nat /\ Chunk <= Queue
          /\ Queue \in Nat
      BY NextChunkFacts, PtyAssumption
    <2> QED
      BY <1>1, <2>1 DEF HasRoom
  <1>3. waiting = <<>>
    <2>1. waiting \in Seq(Parties)
      BY DEF Typed
    <2>2. ASSUME Len(waiting) > 0
          PROVE  FALSE
      <3>1. waiting[1] \in Parties /\ 1 \in 1..Len(waiting)
        BY <2>1, <2>2
      <3> QED
        BY <1>1, <1>2, <3>1 DEF InLine, Parties
    <2> QED
      BY <2>1, <2>2
  <1>4. /\ waiting' = <<"writer">> /\ writer' = "wait" /\ at' = at
        /\ UNCHANGED <<queue, queued, closed, given, teardown>>
    BY <1>3 DEF AwaitChunk, calls
  <1>5. Typed'
    <2>1. waiting' \in Seq(Parties)
      BY <1>4 DEF Parties
    <2> QED
      BY <1>4, <2>1 DEF AwaitChunk, Typed, calls, shell
  <1>6. InLine'
    <2>1. Len(waiting') = 1 /\ waiting'[1] = "writer"
      BY <1>4
    <2> QED
      BY <1>2, <1>4, <2>1 DEF InLine
  <1>7. NoStall'
    BY <1>1, <1>2, <1>4 DEF NoStall
  <1> QED
    BY <1>1, <1>4, <1>5, <1>6, <1>7, LineSteps DEF AwaitChunk, calls

LEMMA WriterLeavesStep == PtyInv /\ WriterLeaves => PtyInv'
  <1> SUFFICES ASSUME PtyInv, WriterLeaves
               PROVE  PtyInv'
    OBVIOUS
  <1> USE DEF PtyInv
  <1>1. /\ closed /\ writer = "lock" /\ writer' = "gone" /\ queue' = <<>>
        /\ queued' = 0 /\ closed' = closed
    BY DEF WriterLeaves
  <1>2. /\ InLine' /\ waiting' \in Seq(Parties)
        /\ at' \in [Sender -> {"idle", "lock", "wait", "notify"}]
        /\ \A s \in Sender : at'[s] # "wait"
        /\ \A s \in Sender : at[s] = "idle" => at'[s] = "idle"
    BY <1>1, WokenLine DEF WriterLeaves
  <1>3. Typed'
    <2>1. queue' \in Seq(Piece)
      BY <1>1
    <2> QED
      BY <1>1, <1>2, <2>1 DEF Typed, WriterLeaves, shell
  <1>4. Bounded'
    <2>1. Len(queue') = 0 /\ SumsTo(queue', queued') /\ queued' <= Queue
      BY <1>1, SumEmpty, PtyAssumption
    <2> QED
      BY <2>1 DEF Bounded, Size, WriterLeaves
  <1>5. NoStall'
    BY <1>1, <1>2 DEF NoStall
  <1>6. QueuedInOrder'
    BY DEF QueuedInOrder, WriterLeaves
  <1>7. Piped'
    BY <1>1 DEF Piped, WriterLeaves
  <1>8. Finished'
    BY <1>1 DEF Finished, Writing, WriterLeaves, shell
  <1>9. Staged'
    BY <1>1, <1>2 DEF Staged, InCall, Typed, WriterLeaves, shell
  <1> QED
    BY <1>2, <1>3, <1>4, <1>5, <1>6, <1>7, <1>8, <1>9

LEMMA TakeChunkStep == PtyInv /\ TakeChunk => PtyInv'
  <1> SUFFICES ASSUME PtyInv, TakeChunk
               PROVE  PtyInv'
    OBVIOUS
  <1> DEFINE c == queue[1]
  <1> USE DEF PtyInv
  <1>1. /\ queue \in Seq(Piece) /\ accepted \in Seq(Piece)
        /\ written \in Seq(Piece) /\ queued \in Nat
    BY DEF Typed
  <1>2. /\ Len(queue) > 0 /\ c \in Piece /\ Head(queue) = c
        /\ Size(c) \in 1..Chunk
    BY <1>1 DEF TakeChunk, Bounded
  <1>3. /\ queue' \in Seq(Piece) /\ Len(queue') = Len(queue) - 1
        /\ \A n \in 1..Len(queue') : queue'[n] = queue[n + 1]
    BY <1>1, <1>2 DEF TakeChunk
  <1>4. queued' \in Nat /\ queued' <= queued /\ SumsTo(queue', queued')
    <2>1. queued' = queued - Size(c) /\ queue' = Tail(queue) /\ queue # <<>>
      BY <1>2 DEF TakeChunk
    <2> QED
      BY <1>1, <1>2, <2>1, SumTail DEF Bounded
  <1>5. /\ rest' = c /\ writer = "lock" /\ writer' = "write" /\ ~closed
        /\ NotifyAll
        /\ UNCHANGED <<entry, shell, given, late, sent, closed, tty, accepted,
                       teardown>>
    BY <1>2 DEF TakeChunk
  <1>6. /\ InLine' /\ waiting' \in Seq(Parties)
        /\ at' \in [Sender -> {"idle", "lock", "wait", "notify"}]
        /\ \A s \in Sender : at'[s] # "wait"
        /\ \A s \in Sender : at[s] = "idle" => at'[s] = "idle"
    BY <1>5, WokenLine
  <1> DEFINE w == [c EXCEPT !.to = c.from]
  <1>7. w \in Piece /\ w.of = c.of /\ w.from = c.from /\ w.to = c.from
    BY <1>2 DEF Piece
  <1>8. written' = Append(written, w)
    BY <1>2 DEF TakeChunk
  <1> HIDE DEF w, c
  <1>9. /\ written' \in Seq(Piece) /\ Len(written') = Len(written) + 1
        /\ written'[Len(written) + 1] = w
        /\ \A n \in 1..Len(written) : written'[n] = written[n]
        /\ \A n \in 1..Len(written') :
             n = Len(written) + 1 \/ n \in 1..Len(written)
    BY <1>1, <1>7, <1>8
  <1>10. /\ Len(written) \in Nat /\ Len(accepted) \in Nat
         /\ Len(written) + 1 <= Len(accepted)
         /\ Len(queue) = Len(accepted) - Len(written)
         /\ accepted[Len(written) + 1] = c
    BY <1>1, <1>2, <1>5 DEF Piped, c
  <1>11. Typed'
    <2>1. rest' \in [of : Sender \cup {"nobody"}, from : Nat, to : Nat]
      BY <1>2, <1>5 DEF Piece
    <2> QED
      BY <1>3, <1>4, <1>5, <1>6, <1>9, <2>1 DEF Typed, shell
  <1>12. Bounded'
    <2>1. ASSUME NEW n \in 1..Len(queue')
          PROVE  Size(queue'[n]) \in 1..Chunk
      <3>1. n + 1 \in 1..Len(queue) /\ queue'[n] = queue[n + 1]
        BY <1>1, <1>3
      <3>2. Size(queue[n + 1]) \in 1..Chunk
        BY <3>1 DEF Bounded
      <3> QED
        BY <3>1, <3>2 DEF Size
    <2>2. queued' <= Queue
      BY <1>1, <1>4, PtyAssumption DEF Bounded
    <2>3. Size(rest') \in 0..Chunk
      BY <1>2, <1>5, PtyAssumption
    <2>4. \A s \in Sender : given'[s] <= Length[s]
      BY <1>5 DEF Bounded
    <2> QED
      BY <1>4, <2>1, <2>2, <2>3, <2>4 DEF Bounded, Size
  <1>13. NoStall'
    BY <1>5, <1>6 DEF NoStall
  <1>14. QueuedInOrder'
    BY <1>5 DEF QueuedInOrder
  <1>15. Piped'
    <2>1. \A n \in 1..Len(written') :
            /\ written'[n].of = accepted[n].of
            /\ written'[n].from = accepted[n].from
            /\ written'[n].from <= written'[n].to
            /\ written'[n].to <= accepted[n].to
      <3>1. ASSUME NEW n \in 1..Len(written'), n = Len(written) + 1
            PROVE  /\ written'[n].of = accepted[n].of
                   /\ written'[n].from = accepted[n].from
                   /\ written'[n].from <= written'[n].to
                   /\ written'[n].to <= accepted[n].to
        <4>1. c.from <= c.from /\ c.from <= c.to
          BY <1>2 DEF Size, Piece
        <4> QED
          BY <1>7, <1>9, <1>10, <3>1, <4>1
      <3> QED
        BY <1>9, <3>1 DEF Piped
    <2>2. ASSUME NEW n \in 1..Len(queue')
          PROVE  queue'[n] = accepted[Len(written') + n]
      <3>1. n + 1 \in 1..Len(queue)
            /\ Len(written') + n = Len(written) + (n + 1)
        BY <1>1, <1>3, <1>9, <1>10
      <3> QED
        BY <1>3, <1>5, <3>1 DEF Piped
    <2>3. Len(queue') = Len(accepted) - Len(written')
      BY <1>1, <1>3, <1>9, <1>10
    <2>4. /\ Len(written') > 0 /\ Size(rest') > 0
          /\ rest'.of = accepted[Len(written')].of
          /\ rest'.from = written'[Len(written')].to
          /\ rest'.to = accepted[Len(written')].to
      BY <1>2, <1>5, <1>7, <1>9, <1>10
    <2> QED
      BY <1>5, <1>9, <1>10, <2>1, <2>2, <2>3, <2>4 DEF Piped, Size
  <1>16. Finished'
    <2>1. ASSUME slave' # {}, NEW n \in 1..Len(written')
          PROVE  Writing(n)' \/ written'[n].to = accepted'[n].to
      <3>1. CASE n = Len(written) + 1
        BY <1>5, <1>9, <3>1 DEF Writing
      <3>2. CASE n \in 1..Len(written)
        BY <1>5, <1>9, <2>1, <3>2 DEF Finished, Writing, shell
      <3> QED
        BY <1>9, <3>1, <3>2
    <2>2. ASSUME NEW n \in 1..Len(written'), NEW m \in 1..n - 1
          PROVE  written'[m].to = accepted'[m].to
                 \/ written'[n].from = written'[n].to
      <3>1. CASE n = Len(written) + 1
        BY <1>7, <1>9, <3>1
      <3>2. CASE n \in 1..Len(written)
        <4>1. m \in 1..Len(written)
          BY <1>10, <3>2
        <4> QED
          BY <1>5, <1>9, <3>2, <4>1 DEF Finished
      <3> QED
        BY <1>9, <3>1, <3>2
    <2> QED
      BY <2>1, <2>2 DEF Finished
  <1>17. Staged'
    <2>1. entry # "none"
      BY <1>5 DEF Staged
    <2> QED
      BY <1>5, <1>6, <2>1 DEF Staged, InCall, Typed, shell
  <1> QED
    BY <1>6, <1>11, <1>12, <1>13, <1>14, <1>15, <1>16, <1>17

(* What the two outcomes of a write have in common: the chunk at work and  *)
(* the mark up to where it is written move together.                       *)
LEMMA WriteMoves ==
  ASSUME PtyInv, writer = "write",
         UNCHANGED <<entry, shell, calls, queue, queued, closed, waiting,
                     accepted, teardown>>,
         tty' \in 0..Tty,
         NEW upTo \in Nat, rest' = [rest EXCEPT !.from = upTo],
         rest.from <= upTo, upTo <= rest.to,
         writer' = IF Size(rest') = 0 THEN "lock" ELSE "write",
         \/ slave # {}
            /\ written' = [written EXCEPT ![Len(written)].to = upTo]
         \/ slave = {} /\ upTo = rest.to /\ written' = written
  PROVE  PtyInv'
  <1> USE DEF PtyInv, calls, shell
  <1> DEFINE L == Len(written)
  <1>1. /\ written \in Seq(Piece) /\ accepted \in Seq(Piece)
        /\ queue \in Seq(Piece) /\ L \in Nat
        /\ rest \in [of : Sender \cup {"nobody"}, from : Nat, to : Nat]
    BY DEF Typed
  <1>2. /\ L > 0 /\ L <= Len(accepted) /\ Size(rest) > 0
        /\ rest.of = accepted[L].of /\ rest.from = written[L].to
        /\ rest.to = accepted[L].to
        /\ written[L].of = accepted[L].of /\ written[L].from = accepted[L].from
        /\ written[L].from <= written[L].to
    BY <1>1 DEF Piped
  <1>3. /\ rest' \in [of : Sender \cup {"nobody"}, from : Nat, to : Nat]
        /\ rest'.of = rest.of /\ rest'.from = upTo /\ rest'.to = rest.to
    BY <1>1
  <1>4. /\ written[L] \in Piece /\ L \in 1..L
        /\ written[L].from \in Nat /\ written[L].to \in Nat
    <2>1. L \in 1..L /\ written[L] \in Piece
      BY <1>1, <1>2
    <2> QED
      BY <2>1 DEF Piece
  <1>5. /\ written' \in Seq(Piece) /\ Len(written') = L
        /\ \A n \in 1..L : n # L => written'[n] = written[n]
        /\ written'[L].of = written[L].of
        /\ written'[L].from = written[L].from
        /\ slave # {} => written'[L].to = upTo
        /\ slave = {} => written'[L] = written[L]
    <2>1. CASE slave = {}
      BY <1>1, <2>1
    <2>2. CASE slave # {}
      <3> DEFINE w == [written[L] EXCEPT !.to = upTo]
      <3>1. w \in Piece /\ w.of = written[L].of /\ w.from = written[L].from
            /\ w.to = upTo
        BY <1>4 DEF Piece
      <3>2. written' = [written EXCEPT ![L] = w]
        BY <2>2
      <3> HIDE DEF w
      <3>3. written' \in Seq(Piece) /\ Len(written') = L
            /\ written'[L] = w
            /\ \A n \in 1..L : n # L => written'[n] = written[n]
        BY <1>1, <1>4, <3>1, <3>2
      <3> QED
        BY <2>2, <3>1, <3>3
    <2> QED
      BY <2>1, <2>2
  <1>6. /\ rest.from \in Nat /\ rest.to \in Nat
        /\ Size(rest) = rest.to - rest.from /\ Size(rest') = rest.to - upTo
    BY <1>1, <1>3 DEF Size
  <1>7. writer' \in {"lock", "write"} /\ (writer' = "lock" <=> upTo = rest.to)
    BY <1>6
  <1> HIDE DEF L
  <1>8. Typed'
    BY <1>3, <1>5, <1>7 DEF Typed
  <1>9. Bounded'
    <2>1. Size(rest') \in 0..Chunk
      BY <1>6, PtyAssumption DEF Bounded
    <2> QED
      BY <2>1 DEF Bounded, SumsTo, Size
  <1>10. InLine'
    BY <1>7 DEF InLine
  <1>11. NoStall'
    BY <1>7 DEF NoStall, HasRoom, NextChunk, Size
  <1>12. QueuedInOrder'
    BY DEF QueuedInOrder
  <1>13. Piped'
    <2>1. ASSUME NEW n \in 1..Len(written')
          PROVE  /\ written'[n].of = accepted[n].of
                 /\ written'[n].from = accepted[n].from
                 /\ written'[n].from <= written'[n].to
                 /\ written'[n].to <= accepted[n].to
      <3>1. CASE n = L /\ slave # {}
        <4>1. written[L].from <= upTo
          BY <1>2, <1>4, <1>6
        <4> QED
          BY <1>2, <1>5, <3>1, <4>1
      <3>2. CASE n # L \/ slave = {}
        BY <1>5, <3>2 DEF Piped, L
      <3> QED
        BY <3>1, <3>2
    <2>2. writer' = "write" =>
            /\ Size(rest') > 0 /\ rest'.from = written'[L].to
      <3>1. writer' = "write" => upTo # rest.to /\ slave # {}
        BY <1>7
      <3> QED
        BY <1>3, <1>5, <1>6, <3>1
    <2>3. Len(written') = L /\ L > 0 /\ L <= Len(accepted)
          /\ rest'.of = accepted[L].of /\ rest'.to = accepted[L].to
      BY <1>2, <1>3, <1>5
    <2>4. ~closed' =>
            /\ Len(queue') = Len(accepted') - Len(written')
            /\ \A n \in 1..Len(queue') : queue'[n] = accepted'[Len(written') + n]
      BY <1>5 DEF Piped, L
    <2> QED
      BY <2>1, <2>2, <2>3, <2>4 DEF Piped, Size
  <1>14. Finished'
    <2>1. ASSUME slave' # {}, NEW n \in 1..Len(written')
          PROVE  Writing(n)' \/ written'[n].to = accepted'[n].to
      <3>1. CASE n = L
        BY <1>2, <1>5, <1>7, <2>1, <3>1 DEF Writing
      <3>2. CASE n # L
        BY <1>5, <2>1, <3>2 DEF Finished, Writing, L
      <3> QED
        BY <3>1, <3>2
    <2>2. ASSUME NEW n \in 1..Len(written'), NEW m \in 1..n - 1
          PROVE  written'[m].to = accepted'[m].to
                 \/ written'[n].from = written'[n].to
      <3>1. m \in 1..L /\ m # L /\ n \in 1..L /\ m # n
        BY <1>1, <1>5 DEF L
      <3>2. CASE slave # {}
        <4>1. written[m].to = accepted[m].to
          BY <3>1, <3>2 DEF Finished, Writing, L
        <4> QED
          BY <1>5, <3>1, <4>1
      <3>3. CASE slave = {}
        BY <1>5, <3>1, <3>3 DEF Finished, L
      <3> QED
        BY <3>2, <3>3
    <2> QED
      BY <2>1, <2>2 DEF Finished
  <1>15. Staged'
    <2>1. entry # "none"
      BY DEF Staged
    <2> QED
      BY <2>1 DEF Staged, InCall
  <1> QED
    BY <1>8, <1>9, <1>10, <1>11, <1>12, <1>13, <1>14, <1>15

LEMMA WriteStep == PtyInv /\ Write => PtyInv'
  <1> SUFFICES ASSUME PtyInv, Write
               PROVE  PtyInv'
    OBVIOUS
  <1>1. /\ rest \in [of : Sender \cup {"nobody"}, from : Nat, to : Nat]
        /\ tty \in 0..Tty /\ rest.from \in Nat /\ rest.to \in Nat
        /\ Size(rest) \in 0..Chunk /\ Chunk \in Nat /\ Tty \in Nat
    BY PtyAssumption DEF PtyInv, Typed, Bounded
  <1>2. /\ writer = "write"
        /\ UNCHANGED <<entry, shell, calls, queue, queued, closed, waiting,
                       accepted, teardown>>
        /\ writer' = IF Size(rest') = 0 THEN "lock" ELSE "write"
    BY DEF Write
  <1>3. ASSUME NEW k \in 1..Size(rest), Take(k),
               rest' = [rest EXCEPT !.from = rest.from + k]
        PROVE  PtyInv'
    <2>1. /\ rest.from + k \in Nat /\ rest.from <= rest.from + k
          /\ rest.from + k <= rest.to /\ tty + k \in 0..Tty
      BY <1>1, <1>3 DEF Size, Take
    <2>2. /\ slave # {} /\ tty' = tty + k
          /\ written' = [written EXCEPT ![Len(written)].to = rest.from + k]
      BY <1>3 DEF Take
    <2> QED
      BY <1>2, <1>3, <2>1, <2>2, WriteMoves
  <1>4. ASSUME slave = {}, rest' = [rest EXCEPT !.from = rest.to],
               UNCHANGED <<tty, written>>
        PROVE  PtyInv'
    <2>1. rest.from <= rest.to
      BY <1>1 DEF Size
    <2> QED
      BY <1>1, <1>2, <1>4, <2>1, WriteMoves
  <1> QED
    BY <1>3, <1>4 DEF Write

-----------------------------------------------------------------------------
LEMMA NextHolds == PtyInv /\ [Next]_vars => PtyInv'
  <1> SUFFICES ASSUME PtyInv, [Next]_vars
               PROVE  PtyInv'
    OBVIOUS
  <1>1. CASE UNCHANGED vars
    <2> USE <1>1 DEF vars, calls, input, shell, PtyInv
    <2>1. Typed'
      BY DEF Typed
    <2>2. Staged'
      BY DEF Staged, InCall
    <2> QED
      BY <2>1, <2>2, InputStays
  <1>2. CASE Create \/ Close
    BY <1>2, CreateStep, CloseSteps
  <1>3. CASE TerminalRead \/ (\E p \in slave : LetGo(p)) \/ ReaderStep
    BY <1>3, ShellSteps
  <1>4. CASE WriterStep
    BY <1>4, TakeChunkStep, AwaitChunkStep, WriterLeavesStep, WriteStep
       DEF WriterStep
  <1>5. CASE Teardown
    BY <1>5, CloseSteps, CloseQueueStep, NotifyClosedStep DEF Teardown
  <1>6. ASSUME NEW s \in Sender, SenderStep(s) \/ Send(s)
        PROVE  PtyInv'
    BY <1>6, EnqueueStep, NotifyOneStep, WaitForRoomStep, GiveUpStep,
       DeadlineStep, SendStep DEF SenderStep
  <1> QED
    BY <1>1, <1>2, <1>3, <1>4, <1>5, <1>6 DEF Next

(* The line, the queue and the teardown keep to their rules at every step  *)
(* of the senders, the writer, the read thread and close (pty.rs).         *)
THEOREM PtyInvariant == Spec => []PtyInv
  BY InitHolds, NextHolds, PTL DEF Spec

LEMMA InvariantIsInOrder == PtyInv => InOrder
  <1> SUFFICES ASSUME PtyInv
               PROVE  InOrder
    OBVIOUS
  <1> USE DEF PtyInv
  <1>1. /\ queue \in Seq(Piece) /\ accepted \in Seq(Piece)
        /\ written \in Seq(Piece) /\ waiting \in Seq(Parties)
        /\ Len(written) \in Nat /\ "writer" \notin Sender
    BY PtyAssumption DEF Typed
  <1>2. TypeOK
    <2>1. \A s \in Sender : given[s] \in 0..Length[s]
      BY PtyAssumption DEF Typed, Bounded
    <2>2. queued \in 0..Queue
      BY PtyAssumption DEF Typed, Bounded
    <2>3. \A n \in DOMAIN queue : Size(queue[n]) \in 1..Chunk
      BY <1>1 DEF Bounded
    <2>4. ToSet(waiting) = {s \in Sender : at[s] = "wait"}
                             \cup (IF writer = "wait" THEN {"writer"} ELSE {})
      <3> DEFINE Waiters == {s \in Sender : at[s] = "wait"}
                              \cup (IF writer = "wait" THEN {"writer"} ELSE {})
      <3>1. ASSUME NEW n \in 1..Len(waiting)
            PROVE  waiting[n] \in Waiters
        <4>1. waiting[n] \in Parties
          BY <1>1
        <4> QED
          BY <1>1, <4>1 DEF InLine, Parties
      <3>2. ASSUME NEW x \in Waiters
            PROVE  \E n \in 1..Len(waiting) : waiting[n] = x
        <4>1. CASE x \in Sender /\ at[x] = "wait"
          BY <4>1 DEF InLine
        <4>2. CASE x = "writer" /\ writer = "wait"
          <5>1. 1 \in 1..Len(waiting) /\ waiting[1] = "writer"
            BY <1>1, <4>2 DEF InLine
          <5> QED
            BY <4>2, <5>1
        <4> QED
          BY <3>2, <4>1, <4>2
      <3>3. DOMAIN waiting = 1..Len(waiting)
        BY <1>1
      <3> HIDE DEF Waiters
      <3>4. ToSet(waiting) = Waiters
        BY <3>1, <3>2, <3>3 DEF ToSet
      <3> QED
        BY <3>4 DEF Waiters
    <2> QED
      BY <2>1, <2>2, <2>3, <2>4 DEF TypeOK, Typed, Bounded
  <1>3. WrittenInOrder
    <2>1. ASSUME NEW n \in 1..Len(written)
          PROVE  /\ written[n] \in Piece /\ accepted[n] \in Piece
                 /\ n \in 1..Len(accepted)
      BY <1>1 DEF Piped
    <2>2. ASSUME NEW n \in 1..Len(written)
          PROVE  \E k \in accepted[n].from..accepted[n].to :
                   written[n] = [accepted[n] EXCEPT !.to = k]
      <3>1. written[n].to \in accepted[n].from..accepted[n].to
        BY <2>1 DEF Piped, Piece
      <3>2. written[n] = [accepted[n] EXCEPT !.to = written[n].to]
        BY <2>1 DEF Piped, Piece
      <3> QED
        BY <3>1, <3>2
    <2>3. ASSUME NEW n \in 1..Len(written), written[n].to = accepted[n].to
          PROVE  written[n] = accepted[n]
      BY <2>1, <2>3 DEF Piped, Piece
    <2>4. ASSUME NEW n \in 1..Len(written), NEW m \in 1..n - 1,
                 written[m] # accepted[m]
          PROVE  written[n].from = written[n].to
      <3>1. m \in 1..Len(written)
        BY <1>1
      <3>2. written[m].to # accepted[m].to
        BY <2>3, <2>4, <3>1
      <3> QED
        BY <3>2 DEF Finished
    <2>5. ASSUME slave # {}, ~closed, NEW n \in 1..Len(written)
          PROVE  IF Writing(n)
                 THEN rest = [accepted[n] EXCEPT !.from = written[n].to]
                 ELSE written[n] = accepted[n]
      <3>1. CASE Writing(n)
        <4>1. /\ rest.of = accepted[n].of /\ rest.from = written[n].to
              /\ rest.to = accepted[n].to
          BY <3>1 DEF Writing, Piped
        <4>2. rest = [of |-> rest.of, from |-> rest.from, to |-> rest.to]
          BY DEF Typed
        <4>3. [accepted[n] EXCEPT !.from = written[n].to]
                = [of |-> accepted[n].of, from |-> written[n].to,
                   to |-> accepted[n].to]
          BY <2>1 DEF Piece
        <4> QED
          BY <3>1, <4>1, <4>2, <4>3
      <3>2. CASE ~Writing(n)
        BY <2>3, <2>5, <3>2 DEF Finished
      <3> QED
        BY <3>1, <3>2
    <2>6. ~closed => queue = SubSeq(accepted, Len(written) + 1, Len(accepted))
      <3> SUFFICES ASSUME ~closed
                   PROVE  queue = SubSeq(accepted, Len(written) + 1, Len(accepted))
        OBVIOUS
      <3> DEFINE tail == SubSeq(accepted, Len(written) + 1, Len(accepted))
      <3>1. /\ Len(written) <= Len(accepted)
            /\ Len(queue) = Len(accepted) - Len(written)
            /\ \A n \in 1..Len(queue) : queue[n] = accepted[Len(written) + n]
        BY DEF Piped
      <3>2. /\ tail \in Seq(Piece) /\ Len(tail) = Len(queue)
            /\ \A n \in 1..Len(queue) : tail[n] = accepted[Len(written) + n]
        BY <1>1, <3>1
      <3> HIDE DEF tail
      <3>3. tail = queue
        <4>1. \A n \in 1..Len(queue) : tail[n] = queue[n]
          BY <3>1, <3>2
        <4>2. /\ queue = [n \in 1..Len(queue) |-> queue[n]]
              /\ tail = [n \in 1..Len(queue) |-> tail[n]]
          BY <1>1, <3>2
        <4> QED
          BY <4>1, <4>2
      <3> QED
        BY <3>3 DEF tail
    <2>7. DOMAIN written = 1..Len(written) /\ Len(written) <= Len(accepted)
      BY <1>1 DEF Piped
    <2> QED
      BY <2>2, <2>4, <2>5, <2>6, <2>7 DEF WrittenInOrder
  <1>4. TeardownInOrder
    BY DEF TeardownInOrder, Staged
  <1> QED
    BY <1>2, <1>3, <1>4 DEF InOrder, InputInOrder

(* However many senders share the queue, each one's bytes are queued once  *)
(* and in their order and reach the terminal in the order of the queue,    *)
(* the counter stays within the capacity, and the teardown finds no sender *)
(* in its queue, no reader on its descriptor and no child alive.           *)
THEOREM InputStaysInOrder == Spec => []InOrder
  BY PtyInvariant, InvariantIsInOrder, PTL

(* However senders and the writer share the condition variable, the writer *)
(* sleeps only while there is nothing for it or its notification is on the *)
(* way, and a sender only while the queue has no room for its chunk.       *)
THEOREM NoWakeupIsLost == Spec => []NoStall
  <1>1. PtyInv => NoStall
    BY DEF PtyInv
  <1> QED
    BY <1>1, PtyInvariant, PTL
=============================================================================
