----------------------------- MODULE HostProofs -----------------------------
(***************************************************************************)
(* Proofs about what a client does to a host before it holds sessions      *)
(* there, for any number of calls and clients.  First HostBootstrap with   *)
(* AuthHelper: the user is heard and the terminal left in order, only      *)
(* proven users are remembered, a reported bootstrap is true, no account   *)
(* is closed.  Then DaemonDeploy: what is on record is true, and an        *)
(* upgrade takes effect.                                                   *)
(***************************************************************************)
EXTENDS HostBootstrap, DeployHistory, WellFoundedInduction, TLAPS

-----------------------------------------------------------------------------
(* The helper.                                                             *)

Ending == {"absent", "broken", "closed", "closed fast", "empty", "typed"}
            \X (Names \cup {NoName}) \X BOOLEAN
Replies ==
  {NoReply, Cancelled, Unavailable, Failed, Unsupported, [kind |-> "timeout"]}
    \cup [kind : {"password"}, user : Names \cup {NoName}, right : BOOLEAN]
HelperRecord ==
  [pc : Asking \cup {"none", "gone"}, n : Nat, ends : Seq(Ending),
   child : BOOLEAN, tty : BOOLEAN, found : BOOLEAN, result : Replies,
   reply : Replies]
HelperTyped ==
  /\ env \in Environments /\ ask \in [Requests -> HelperRecord]
  /\ echo \in BOOLEAN /\ mess \in BOOLEAN /\ signals \in 0..MaxSignals

(* What a request r knows while the helper tries the chain: the endings of *)
(* the dialogs that have run are those of the first in the chain, and the  *)
(* guard knows of a child or of the terminal exactly while there is one to *)
(* undo.                                                                   *)
InDialog(r) == r.pc \in {"spawned", "dialog"}
InTty(r) == r.pc \in {"raw", "reading", "restore"}
Chained(r, chain) ==
  /\ r.n \in 1..(Len(chain) + 1) /\ Len(r.ends) = r.n - 1
  /\ r.pc \in {"none", "start", "credui"} => r.n = 1
  /\ InDialog(r) => r.n <= Len(chain)
Guarded(r) ==
  r.pc # "gone" => /\ r.reply = NoReply
                   /\ r.child <=> r.pc = "dialog"
                   /\ r.tty <=> r.pc = "reading"

(* The endings that are the user's, the first of which a reply follows.    *)
FromUser(r, chain) == {i \in DOMAIN r.ends : UserAnswered(chain[i], r.ends[i])}
Follows(r, chain, reply) ==
  reply.kind \in {"password", "cancelled"} =>
    \A i \in FromUser(r, chain) : (\A k \in FromUser(r, chain) : i <= k) =>
      IF r.ends[i][1] = "typed"
      THEN reply.kind = "password" /\ reply.right = r.ends[i][3]
      ELSE reply.kind = "cancelled"
Honest(r, chain) ==
  /\ Follows(r, chain, r.reply)
  /\ r.pc = "respond" => Follows(r, chain, r.result)
  /\ r.pc \in {"tty", "raw", "reading", "restore"} => FromUser(r, chain) = {}
Asked(r, chain) ==
  /\ r.pc = "gone" \/ Chained(r, chain)
  /\ Guarded(r) /\ Honest(r, chain)

(* What is on the screen belongs to a dialog that runs, and the terminal   *)
(* to one helper, which found it echoing; else it echoes.                  *)
ScreenInOrder ==
  \A s \in shown : \E j \in Requests : InDialog(ask[j]) /\ s = <<j, Chain[ask[j].n]>>
TerminalInOrder ==
  /\ \A j \in Requests : InTty(ask[j]) => ask[j].found
  /\ \A j, k \in Requests : InTty(ask[j]) /\ InTty(ask[k]) => j = k
  /\ echo \/ \E j \in Requests : InTty(ask[j])
HelperInv ==
  /\ HelperTyped /\ \A j \in Requests : Asked(ask[j], Chain)
  /\ ~mess => ScreenInOrder /\ TerminalInOrder

(* A set of numbers that is not empty has a least member, which is the one *)
(* that is chosen.                                                         *)
LEMMA LeastIsChosen ==
  ASSUME NEW T \in SUBSET Nat, T # {}
  PROVE  LET i == CHOOSE x \in T : \A k \in T : x <= k
         IN  i \in T /\ \A k \in T : i <= k
  <1>1. PICK m \in T : \A k \in T : <<k, m>> \notin OpToRel(<, Nat)
    BY WFMin, NatLessThanWellFounded, Zenon
  <1>2. \A k \in T : ~(k < m)
    BY <1>1, Zenon DEF OpToRel
  <1>3. \E x \in T : \A k \in T : x <= k
    BY <1>2
  <1> QED BY <1>3, Zenon

(* classify_dialog and run_askpass: what the user did is classified as     *)
(* that; of what is not the user's, only askpass makes anything but        *)
(* unavailable.                                                            *)
LEMMA Classified ==
  ASSUME NEW dialog, NEW end \in Ending
  PROVE  /\ Classify(dialog, end) \in Replies
         /\ UserAnswered(dialog, end) =>
              Classify(dialog, end) = IF end[1] = "typed"
                                      THEN Password(end[2], end[3])
                                      ELSE Cancelled
         /\ Classify(dialog, end) # Unavailable =>
              dialog = "askpass" \/ UserAnswered(dialog, end)
  <1> DEFINE c == Classify(dialog, end)
  <1>1. PICK e \in {"absent", "broken", "closed", "closed fast", "empty", "typed"},
             name \in Names \cup {NoName}, right \in BOOLEAN :
          end[1] = e /\ end[2] = name /\ end[3] = right
    BY DEF Ending
  <1>2. Password(name, right) \in Replies
    BY DEF Replies, Password
  <1>3. /\ Cancelled \in Replies /\ Unavailable \in Replies /\ Failed \in Replies
        /\ Cancelled # Unavailable /\ Failed # Unavailable
    <2>1. Cancelled.kind = "cancelled" /\ Unavailable.kind = "unavailable" /\ Failed.kind = "failed"
      BY DEF Cancelled, Unavailable, Failed
    <2> QED BY <2>1, Zenon DEF Replies
  <1>4. Password(name, right) # Unavailable
    <2>1. Password(name, right).kind = "password" /\ Unavailable.kind = "unavailable"
      BY DEF Password, Unavailable
    <2> QED BY <2>1
  <1>5. CASE end[1] = "typed"
    <2>1. c = Password(name, right) BY <1>1, <1>5, Zenon DEF Classify
    <2> QED BY <1>1, <1>2, <1>5, <2>1, Zenon DEF UserAnswered
  <1>6. CASE end[1] # "typed" /\ dialog = "askpass"
    <2>1. c = IF end[1] \in {"absent", "broken"} THEN Failed ELSE Cancelled
      BY <1>6, Zenon DEF Classify
    <2>2. dialog \notin TellsCancel BY <1>6 DEF TellsCancel
    <2>3. UserAnswered(dialog, end) => end[1] \in {"closed", "empty"}
      BY <1>6, <2>2 DEF UserAnswered
    <2>4. UserAnswered(dialog, end) => c = Cancelled
      BY <2>1, <2>3
    <2> QED BY <1>3, <1>6, <2>1, <2>4, Zenon
  <1>7. CASE end[1] # "typed" /\ dialog # "askpass"
    <2>1. CASE end[1] \in {"absent", "broken"}
      <3>1. c = Unavailable BY <1>7, <2>1, Zenon DEF Classify
      <3>2. ~UserAnswered(dialog, end) BY <2>1 DEF UserAnswered
      <3> QED BY <1>3, <3>1, <3>2, Zenon
    <2>2. CASE end[1] = "closed fast" /\ dialog \notin TellsCancel
      <3>0. end[1] \notin {"absent", "broken"} BY <2>2
      <3>1. c = Unavailable BY <1>7, <2>2, <3>0, Zenon DEF Classify
      <3>2. ~UserAnswered(dialog, end) BY <2>2 DEF UserAnswered
      <3> QED BY <1>3, <3>1, <3>2, Zenon
    <2>3. CASE /\ end[1] \notin {"absent", "broken"}
               /\ ~(end[1] = "closed fast" /\ dialog \notin TellsCancel)
      <3>1. c = Cancelled BY <1>7, <2>3, Zenon DEF Classify
      <3>2. UserAnswered(dialog, end) BY <1>1, <1>7, <2>3 DEF UserAnswered
      <3> QED BY <1>3, <1>7, <3>1, <3>2, Zenon
    <2> QED BY <2>1, <2>2, <2>3, Zenon
  <1> QED BY <1>5, <1>6, <1>7, Zenon

(* What is tried depends on the environment alone, and askpass is tried    *)
(* alone.                                                                  *)
LEMMA ChainIsAlone ==
  ASSUME env \in Environments
  PROVE  /\ Len(Chain) \in Nat
         /\ \A i \in 1..Len(Chain) : Chain[i] = "askpass" => Len(Chain) = 1
  <1>1. /\ env.platform \in DOMAIN Dialogs
        /\ Dialogs[env.platform] \in Seq(STRING \ {"askpass"})
    BY HelperAssumption DEF HelperAssumption
  <1>2. CASE env.askpass
    <2>1. Chain = <<"askpass">> BY <1>2 DEF Chain
    <2> QED BY <2>1
  <1>3. CASE ~env.askpass
    <2>1. Chain = << >> \/ Chain = Dialogs[env.platform] BY <1>3 DEF Chain
    <2>2. CASE Chain = << >> BY <2>2
    <2>3. CASE Chain = Dialogs[env.platform]
      <3>1. Chain \in Seq(STRING \ {"askpass"}) BY <1>1, <2>3
      <3> QED BY <3>1
    <2> QED BY <2>1, <2>2, <2>3
  <1> QED BY <1>2, <1>3

(* The chain of dialogs changes with the environment only.                 *)
LEMMA ChainStays ==
  ASSUME env' = env  PROVE  Chain' = Chain
  BY Zenon DEF Chain

(* Where a step takes the request j to r.                                  *)
LEMMA OneAsks ==
  ASSUME HelperInv, NEW j \in Requests, NEW r \in HelperRecord, Step(j, r),
         env' = env, Asked(r, Chain),
         echo' \in BOOLEAN, mess' \in BOOLEAN, signals' \in 0..MaxSignals,
         ~mess' => ScreenInOrder' /\ TerminalInOrder'
  PROVE  HelperInv'
  <1>1. ask' = [ask EXCEPT ![j] = r] /\ ask \in [Requests -> HelperRecord]
    BY DEF Step, HelperInv, HelperTyped
  <1>2. HelperTyped' BY <1>1 DEF HelperInv, HelperTyped
  <1>3. Chain' = Chain BY ChainStays
  <1>4. \A k \in Requests : Asked(ask'[k], Chain')
    BY <1>1, <1>3 DEF HelperInv
  <1> QED BY <1>2, <1>4 DEF HelperInv

(* The screen, and the terminal, stay in order if the request that takes   *)
(* the step stays where it is with respect to them.                        *)
LEMMA ScreenStays ==
  ASSUME HelperTyped, ScreenInOrder, NEW j \in Requests, NEW r, Step(j, r),
         env' = env, shown' \subseteq shown,
         \A s \in shown' : InDialog(ask[j]) /\ s = <<j, Chain[ask[j].n]>>
                             => InDialog(r) /\ r.n = ask[j].n
  PROVE  ScreenInOrder'
  <1>1. Chain' = Chain BY ChainStays
  <1>2. ask' = [ask EXCEPT ![j] = r] /\ ask \in [Requests -> HelperRecord]
    BY DEF Step, HelperTyped
  <1>3. SUFFICES ASSUME NEW s \in shown'
                 PROVE  \E k \in Requests : InDialog(ask'[k]) /\ s = <<k, Chain[ask'[k].n]>>
    BY <1>1 DEF ScreenInOrder
  <1>4. PICK k \in Requests : InDialog(ask[k]) /\ s = <<k, Chain[ask[k].n]>>
    BY <1>3 DEF ScreenInOrder
  <1>5. CASE k = j
    <2>1. InDialog(r) /\ r.n = ask[j].n /\ ask'[j] = r
      BY <1>2, <1>3, <1>4, <1>5
    <2> QED BY <1>4, <1>5, <2>1
  <1>6. CASE k # j
    <2>1. ask'[k] = ask[k] BY <1>2, <1>6
    <2> QED BY <1>4, <2>1
  <1> QED BY <1>5, <1>6

(* See ScreenStays.                                                        *)
LEMMA TerminalStays ==
  ASSUME HelperTyped, TerminalInOrder, NEW j \in Requests, NEW r, Step(j, r),
         echo' = echo, InTty(r) <=> InTty(ask[j]), InTty(r) => r.found = ask[j].found
  PROVE  TerminalInOrder'
  <1>1. ask' = [ask EXCEPT ![j] = r] /\ ask \in [Requests -> HelperRecord]
    BY DEF Step, HelperTyped
  <1>2. \A k \in Requests : /\ InTty(ask'[k]) <=> InTty(ask[k])
                            /\ InTty(ask[k]) => ask'[k].found = ask[k].found
    BY <1>1
  <1> QED BY <1>2 DEF TerminalInOrder

(* A step that shows nothing and leaves the terminal, in a request that    *)
(* stays where it is with respect to both.                                 *)
LEMMA OneAsksQuietly ==
  ASSUME HelperInv, NEW j \in Requests, NEW r \in HelperRecord, Step(j, r),
         OnlyAsk, Asked(r, Chain),
         InDialog(ask[j]) => InDialog(r) /\ r.n = ask[j].n,
         InTty(r) <=> InTty(ask[j]), InTty(r) => r.found = ask[j].found
  PROVE  HelperInv'
  <1>1. /\ env' = env /\ shown' = shown /\ echo' = echo /\ signals' = signals
        /\ mess' = mess
    BY DEF OnlyAsk
  <1>2. ASSUME ~mess'  PROVE ScreenInOrder' /\ TerminalInOrder'
    BY <1>1, <1>2, ScreenStays, TerminalStays DEF HelperInv
  <1>3. echo' \in BOOLEAN /\ mess' \in BOOLEAN /\ signals' \in 0..MaxSignals
    BY <1>1 DEF HelperInv, HelperTyped
  <1> QED BY <1>1, <1>2, <1>3, OneAsks

(* A request that goes on with the endings it has.                         *)
LEMMA AskedStill ==
  ASSUME NEW q, NEW r, NEW chain, Asked(q, chain), q.pc # "gone",
         r.ends = q.ends, r.n = q.n, Guarded(r), Follows(q, chain, r.reply),
         r.pc \in {"none", "start", "credui"} => q.n = 1,
         InDialog(r) => q.n <= Len(chain),
         r.pc = "respond" => Follows(q, chain, r.result),
         r.pc \in {"tty", "raw", "reading", "restore"} => FromUser(q, chain) = {}
  PROVE  Asked(r, chain)
  <1>1. FromUser(r, chain) = FromUser(q, chain)
    BY Zenon DEF FromUser
  <1>2. /\ Follows(r, chain, r.reply) <=> Follows(q, chain, r.reply)
        /\ Follows(r, chain, r.result) <=> Follows(q, chain, r.result)
    BY <1>1, Zenon DEF Follows
  <1>3. Honest(r, chain) BY <1>1, <1>2, Zenon DEF Honest
  <1>4. Chained(r, chain) BY Zenon DEF Asked, Chained
  <1> QED BY <1>3, <1>4, Zenon DEF Asked

(* What is no password and no cancel need not follow anything.             *)
LEMMA NothingFollows ==
  ASSUME NEW r, NEW chain, NEW reply,
         reply.kind \notin {"password", "cancelled"}
  PROVE  Follows(r, chain, reply)
  BY DEF Follows

LEMMA NoReplyFollows ==
  ASSUME NEW r, NEW chain
  PROVE  /\ Follows(r, chain, NoReply) /\ Follows(r, chain, Failed)
         /\ Follows(r, chain, Unsupported)
         /\ Follows(r, chain, [kind |-> "timeout"])
  BY NothingFollows DEF NoReply, Failed, Unsupported

(* A reply has one of six kinds.                                           *)
LEMMA EveryReply ==
  /\ NoReply \in Replies /\ Failed \in Replies /\ Unsupported \in Replies
  /\ Cancelled \in Replies /\ [kind |-> "timeout"] \in Replies
  /\ \A name \in Names \cup {NoName}, right \in BOOLEAN :
       Password(name, right) \in Replies
  <1>1. \A name \in Names \cup {NoName}, right \in BOOLEAN :
          Password(name, right) \in [kind : {"password"}, user : Names \cup {NoName},
                                     right : BOOLEAN]
    BY DEF Password
  <1> QED BY <1>1, Zenon DEF Replies

(* A step that shows nothing and leaves the terminal, after which the      *)
(* request goes on with the endings it has.                                *)
LEMMA GoesOn ==
  ASSUME HelperInv, NEW j \in Requests, ask[j].pc # "gone",
         NEW r \in HelperRecord, Step(j, r), OnlyAsk, Guarded(r),
         r.ends = ask[j].ends, r.n = ask[j].n, r.found = ask[j].found,
         Follows(ask[j], Chain, r.reply),
         r.pc \in {"none", "start", "credui"} => ask[j].n = 1,
         InDialog(ask[j]) <=> InDialog(r), InTty(r) <=> InTty(ask[j]),
         r.pc = "respond" => Follows(ask[j], Chain, r.result),
         r.pc \in {"tty", "raw", "reading", "restore"} =>
           FromUser(ask[j], Chain) = {}
  PROVE  HelperInv'
  <1>1. Asked(ask[j], Chain) BY DEF HelperInv
  <1>2. InDialog(r) => ask[j].n <= Len(Chain) BY <1>1 DEF Asked, Chained
  <1>3. Asked(r, Chain) BY <1>1, <1>2, AskedStill, Zenon
  <1> QED BY <1>3, OneAsksQuietly

(* The steps that a request takes without showing anything.                *)
LEMMA RequestSteps ==
  ASSUME HelperInv, NEW j \in Requests, Request(j)
  PROVE  HelperInv'
  <1> DEFINE q == ask[j]
             r == [q EXCEPT !.pc = "start"]
             s == [q EXCEPT !.pc = "gone", !.reply = Failed]
  <1>1. /\ q \in HelperRecord /\ Asked(q, Chain) /\ q.pc = "none" /\ OnlyAsk
        /\ Step(j, r) \/ Step(j, s)
    BY Zenon DEF HelperInv, HelperTyped, Request, At, To
  <1>2. q.n = 1 /\ q.reply = NoReply /\ ~q.child /\ ~q.tty
    BY <1>1 DEF Asked, Guarded, Chained
  <1>3. CASE Step(j, r)
    <2>1. r \in HelperRecord BY <1>1 DEF HelperRecord, Asking
    <2>2. Guarded(r) BY <1>1, <1>2 DEF HelperRecord, Guarded
    <2>3. /\ r.pc = "start" /\ r.ends = q.ends /\ r.n = q.n /\ r.found = q.found
          /\ r.reply = NoReply
      BY <1>1, <1>2 DEF HelperRecord
    <2> HIDE DEF r
    <2> QED BY <1>1, <1>2, <1>3, <2>1, <2>2, <2>3, GoesOn, NoReplyFollows DEF InDialog, InTty
  <1>4. CASE Step(j, s)
    <2>1. s \in HelperRecord BY <1>1, EveryReply DEF HelperRecord, Asking
    <2>2. Guarded(s) BY <1>1 DEF HelperRecord, Guarded
    <2>3. /\ s.pc = "gone" /\ s.ends = q.ends /\ s.n = q.n /\ s.found = q.found
          /\ s.reply = Failed
      BY <1>1 DEF HelperRecord
    <2> HIDE DEF s
    <2> QED BY <1>1, <1>2, <1>4, <2>1, <2>2, <2>3, GoesOn, NoReplyFollows DEF InDialog, InTty
  <1> QED BY <1>1, <1>3, <1>4

(* Where no dialog was answered every reply will do.                       *)
LEMMA NobodyAnswered ==
  ASSUME NEW r, NEW chain, NEW reply, FromUser(r, chain) = {}
  PROVE  Follows(r, chain, reply)
  BY Zenon DEF Follows

(* What a helper that is not gone knows of itself.                         *)
LEMMA HelperKnows ==
  ASSUME HelperInv, NEW j \in Requests, ask[j].pc # "gone"
  PROVE  /\ ask[j] \in HelperRecord /\ Asked(ask[j], Chain)
         /\ ask[j].reply = NoReply /\ Len(Chain) \in Nat
         /\ ask[j].child <=> ask[j].pc = "dialog"
         /\ ask[j].tty <=> ask[j].pc = "reading"
         /\ ask[j].n \in 1..(Len(Chain) + 1) /\ Len(ask[j].ends) = ask[j].n - 1
  BY ChainIsAlone DEF HelperInv, HelperTyped, Asked, Guarded, Chained

(* The helper has read the request and starts the chain.                   *)
LEMMA BeginSteps ==
  ASSUME HelperInv, NEW j \in Requests, BeginAsking(j)
  PROVE  HelperInv'
  <1> DEFINE q == ask[j]
             r == [q EXCEPT !.pc = IF env.platform = "windows" THEN "credui"
                                                               ELSE "dialogs"]
  <1>1. q.pc = "start" /\ OnlyAsk /\ Step(j, r)
    BY Zenon DEF BeginAsking, At, To
  <1>2. q \in HelperRecord /\ Asked(q, Chain) /\ q.reply = NoReply /\ ~q.child /\ ~q.tty
    BY <1>1, HelperKnows
  <1>3. q.n = 1 BY <1>1, <1>2 DEF Asked, Chained
  <1>4. r \in HelperRecord BY <1>2 DEF HelperRecord, Asking
  <1>5. Guarded(r) BY <1>1, <1>2 DEF HelperRecord, Guarded
  <1>6. /\ r.pc \in {"credui", "dialogs"} /\ r.ends = q.ends /\ r.n = q.n
        /\ r.found = q.found /\ r.reply = NoReply
    BY <1>2 DEF HelperRecord
  <1> HIDE DEF r
  <1> QED BY <1>1, <1>3, <1>4, <1>5, <1>6, GoesOn, NoReplyFollows DEF InDialog, InTty

(* The guard takes note of the dialog that was spawned.                    *)
LEMMA RegisterSteps ==
  ASSUME HelperInv, NEW j \in Requests, Register(j)
  PROVE  HelperInv'
  <1> DEFINE q == ask[j]
             r == [q EXCEPT !.pc = "dialog", !.child = TRUE]
  <1>1. q.pc = "spawned" /\ OnlyAsk /\ Step(j, r)
    BY Zenon DEF Register, At
  <1>2. q \in HelperRecord /\ q.reply = NoReply /\ ~q.tty
    BY <1>1, HelperKnows
  <1>4. r \in HelperRecord BY <1>2 DEF HelperRecord, Asking
  <1>5. Guarded(r) BY <1>1, <1>2 DEF HelperRecord, Guarded
  <1>6. /\ r.pc = "dialog" /\ r.ends = q.ends /\ r.n = q.n
        /\ r.found = q.found /\ r.reply = NoReply
    BY <1>2 DEF HelperRecord
  <1> HIDE DEF r
  <1> QED BY <1>1, <1>4, <1>5, <1>6, GoesOn, NoReplyFollows DEF InDialog, InTty

(* A result is there: credui, the terminal that cannot be opened, and the  *)
(* decision.                                                               *)
LEMMA OutcomeSteps ==
  ASSUME HelperInv, NEW j \in Requests, ask[j].pc \in {"credui", "tty", "dialogs"},
         NEW result \in Replies, Outcome(j, result), OnlyAsk,
         Follows(ask[j], Chain, result)
  PROVE  HelperInv'
  <1> DEFINE q == ask[j]
             r == [q EXCEPT !.pc = "respond", !.result = result]
  <1>1. Step(j, r) BY Zenon DEF Outcome
  <1>2. q \in HelperRecord /\ q.reply = NoReply /\ ~q.child /\ ~q.tty
    BY HelperKnows
  <1>4. r \in HelperRecord BY <1>2 DEF HelperRecord, Asking
  <1>5. Guarded(r) BY <1>2 DEF HelperRecord, Guarded
  <1>6. /\ r.pc = "respond" /\ r.ends = q.ends /\ r.n = q.n /\ r.result = result
        /\ r.found = q.found /\ r.reply = NoReply
    BY <1>2 DEF HelperRecord
  <1> HIDE DEF r
  <1> QED BY <1>1, <1>4, <1>5, <1>6, GoesOn, NoReplyFollows DEF InDialog, InTty

(* Windows: the one dialog of the system.                                  *)
LEMMA CredUiSteps ==
  ASSUME HelperInv, NEW j \in Requests, CredUi(j)
  PROVE  HelperInv'
  <1>1. ask[j].pc = "credui" /\ OnlyAsk BY DEF CredUi, At
  <1>2. PICK result \in Replies : Outcome(j, result)
    BY EveryReply, Zenon DEF CredUi
  <1>3. FromUser(ask[j], Chain) = {}
    <2>1. /\ ask[j] \in HelperRecord /\ Asked(ask[j], Chain) /\ ask[j].n \in Nat
          /\ Len(ask[j].ends) = ask[j].n - 1
      BY <1>1, HelperKnows
    <2>2. ask[j].n = 1 BY <1>1, <2>1 DEF Asked, Chained
    <2>3. ask[j].ends \in Seq(Ending) /\ Len(ask[j].ends) = 0
      BY <2>1, <2>2 DEF HelperRecord
    <2>4. DOMAIN ask[j].ends = {} BY <2>3
    <2> QED BY <2>4, Zenon DEF FromUser
  <1> QED BY <1>1, <1>2, <1>3, NobodyAnswered, OutcomeSteps

(* The guard takes note of the terminal that was opened.                   *)
LEMMA GuardSteps ==
  ASSUME HelperInv, NEW j \in Requests, TtyGuard(j)
  PROVE  HelperInv'
  <1> DEFINE q == ask[j]
             r == [q EXCEPT !.pc = "reading", !.tty = TRUE]
  <1>1. q.pc = "raw" /\ OnlyAsk /\ Step(j, r)
    BY Zenon DEF TtyGuard, At
  <1>2. q \in HelperRecord /\ Asked(q, Chain) /\ q.reply = NoReply /\ ~q.child
    BY <1>1, HelperKnows
  <1>3. FromUser(q, Chain) = {} BY <1>1, <1>2 DEF Asked, Honest
  <1>4. r \in HelperRecord BY <1>2 DEF HelperRecord, Asking
  <1>5. Guarded(r) BY <1>1, <1>2 DEF HelperRecord, Guarded
  <1>6. /\ r.pc = "reading" /\ r.ends = q.ends /\ r.n = q.n
        /\ r.found = q.found /\ r.reply = NoReply
    BY <1>2 DEF HelperRecord
  <1> HIDE DEF r
  <1> QED BY <1>1, <1>3, <1>4, <1>5, <1>6, GoesOn, NoReplyFollows DEF InDialog, InTty

(* The user types at the terminal, or closes it.                           *)
LEMMA ReadSteps ==
  ASSUME HelperInv, NEW j \in Requests, TtyRead(j)
  PROVE  HelperInv'
  <1> DEFINE q == ask[j]
  <1>1. PICK result \in Replies :
          Step(j, [q EXCEPT !.pc = "restore", !.tty = FALSE, !.result = result])
    BY EveryReply, Zenon DEF TtyRead
  <1> DEFINE r == [q EXCEPT !.pc = "restore", !.tty = FALSE, !.result = result]
  <1>2. q.pc = "reading" /\ OnlyAsk BY DEF TtyRead, At
  <1>3. q \in HelperRecord /\ Asked(q, Chain) /\ q.reply = NoReply /\ ~q.child
    BY <1>2, HelperKnows
  <1>4. FromUser(q, Chain) = {} BY <1>2, <1>3 DEF Asked, Honest
  <1>5. r \in HelperRecord BY <1>3 DEF HelperRecord, Asking
  <1>6. Guarded(r) BY <1>2, <1>3 DEF HelperRecord, Guarded
  <1>7. /\ r.pc = "restore" /\ r.ends = q.ends /\ r.n = q.n
        /\ r.found = q.found /\ r.reply = NoReply
    BY <1>3 DEF HelperRecord
  <1>8. Step(j, r) BY <1>1
  <1> HIDE DEF r
  <1> QED BY <1>2, <1>4, <1>5, <1>6, <1>7, <1>8, GoesOn, NoReplyFollows DEF InDialog, InTty

(* The helper writes its reply and ends.                                   *)
LEMMA RespondSteps ==
  ASSUME HelperInv, NEW j \in Requests, Respond(j)
  PROVE  HelperInv'
  <1> DEFINE q == ask[j]
             r == [q EXCEPT !.pc = "gone", !.reply = q.result]
  <1>1. q.pc = "respond" /\ OnlyAsk BY DEF Respond, At
  <1>2. q \in HelperRecord /\ Asked(q, Chain) /\ q.reply = NoReply
    BY <1>1, HelperKnows
  <1>3. Step(j, r) BY <1>2, Zenon DEF Respond, Told
  <1>4. Follows(q, Chain, q.result) BY <1>1, <1>2 DEF Asked, Honest
  <1>5. r \in HelperRecord BY <1>2 DEF HelperRecord
  <1>6. Guarded(r) BY <1>2 DEF HelperRecord, Guarded
  <1>7. /\ r.pc = "gone" /\ r.ends = q.ends /\ r.n = q.n
        /\ r.found = q.found /\ r.reply = q.result
    BY <1>2 DEF HelperRecord
  <1> HIDE DEF r
  <1> QED BY <1>1, <1>3, <1>4, <1>5, <1>6, <1>7, GoesOn DEF InDialog, InTty

(* How a dialog can end.                                                   *)
LEMMA EveryEnding ==
  /\ Absent \in Ending
  /\ \A dialog : Endings(dialog) \subseteq Ending
  <1>1. NoName \in Names \cup {NoName} OBVIOUS
  <1>2. Absent \in Ending BY <1>1 DEF Absent, Ending
  <1>3. ASSUME NEW dialog, NEW end \in Endings(dialog)  PROVE end \in Ending
    <2>1. CASE end \in {<<e, NoName, FALSE>> : e \in {"broken", "closed", "closed fast", "empty"}}
      <3>1. PICK e \in {"broken", "closed", "closed fast", "empty"} :
              end = <<e, NoName, FALSE>>
        BY <2>1
      <3> QED BY <1>1, <3>1 DEF Ending
    <2>2. CASE end \in {"typed"} \X (IF dialog = "zenity" THEN Names \cup {NoName} ELSE {NoName})
                          \X BOOLEAN
      <3>1. (IF dialog = "zenity" THEN Names \cup {NoName} ELSE {NoName})
              \subseteq Names \cup {NoName}
        BY <1>1
      <3> QED BY <2>2, <3>1 DEF Ending
    <2> QED BY <1>3, <2>1, <2>2, Zenon DEF Endings
  <1> QED BY <1>2, <1>3

(* A request with one more dialog behind it, in either form.               *)
LEMMA MoreEndings ==
  ASSUME NEW q \in HelperRecord, NEW n \in Nat, NEW ends \in Seq(Ending)
  PROVE  /\ [q EXCEPT !.n = n, !.ends = ends] \in HelperRecord
         /\ [q EXCEPT !.pc = "dialogs", !.n = n, !.child = FALSE, !.ends = ends]
              \in HelperRecord
  BY DEF HelperRecord, Asking

(* The next dialog is shown, or cannot be.                                 *)
LEMMA SpawnSteps ==
  ASSUME HelperInv, NEW j \in Requests, Spawn(j)
  PROVE  HelperInv'
  <1> DEFINE q == ask[j]
             r == [q EXCEPT !.n = @ + 1, !.ends = Append(@, Absent)]
             s == [q EXCEPT !.pc = "spawned"]
  <1>1. /\ q.pc = "dialogs" /\ q.n <= Len(Chain)
        /\ env' = env /\ echo' = echo /\ signals' = signals /\ mess' = mess
        /\ \/ Step(j, r) /\ shown' = shown
           \/ Step(j, s) /\ shown' = shown \cup {<<j, Chain[q.n]>>}
    BY Zenon DEF Spawn, At, To
  <1>2. /\ q \in HelperRecord /\ Asked(q, Chain) /\ q.reply = NoReply
        /\ ~q.child /\ ~q.tty /\ Len(Chain) \in Nat /\ q.n \in 1..(Len(Chain) + 1)
        /\ Len(q.ends) = q.n - 1
    BY <1>1, HelperKnows
  <1>3. CASE Step(j, r) /\ shown' = shown
    <2>1. Append(q.ends, Absent) \in Seq(Ending) /\ Len(Append(q.ends, Absent)) = q.n
      BY <1>2, EveryEnding DEF HelperRecord
    <2>2. /\ r.pc = "dialogs" /\ r.n = q.n + 1 /\ r.ends = Append(q.ends, Absent)
          /\ r.reply = NoReply /\ r.found = q.found /\ ~r.child /\ ~r.tty
      BY <1>1, <1>2 DEF HelperRecord
    <2>3. r \in HelperRecord
      <3>1. q.n + 1 \in Nat BY <1>2
      <3> QED BY <1>2, <2>1, <3>1, MoreEndings
    <2> HIDE DEF r
    <2>4. Chained(r, Chain)
      BY <1>1, <1>2, <2>1, <2>2 DEF Chained, InDialog
    <2>5. Guarded(r) /\ Honest(r, Chain)
      BY <2>2, NoReplyFollows DEF Guarded, Honest
    <2>6. Asked(r, Chain) BY <2>4, <2>5 DEF Asked
    <2> QED BY <1>1, <1>3, <2>2, <2>3, <2>6, OneAsksQuietly DEF InDialog, InTty, OnlyAsk
  <1>4. CASE Step(j, s) /\ shown' = shown \cup {<<j, Chain[q.n]>>}
    <2>1. s \in HelperRecord BY <1>2 DEF HelperRecord, Asking
    <2>2. Guarded(s) BY <1>1, <1>2 DEF HelperRecord, Guarded
    <2>3. /\ s.pc = "spawned" /\ s.ends = q.ends /\ s.n = q.n
          /\ s.found = q.found /\ s.reply = NoReply
      BY <1>2 DEF HelperRecord
    <2>4. ask' = [ask EXCEPT ![j] = s] /\ ask \in [Requests -> HelperRecord]
      BY <1>4 DEF Step, HelperInv, HelperTyped
    <2> HIDE DEF s
    <2>5. Asked(s, Chain)
      BY <1>1, <1>2, <2>2, <2>3, AskedStill, NoReplyFollows DEF InDialog
    <2>6. ASSUME ~mess'  PROVE ScreenInOrder' /\ TerminalInOrder'
      <3>1. ScreenInOrder /\ TerminalInOrder /\ HelperTyped BY <1>1, <2>6 DEF HelperInv
      <3>2. TerminalInOrder'
        BY <1>1, <1>4, <2>3, <3>1, TerminalStays DEF InTty
      <3>3. Chain' = Chain BY <1>1, ChainStays
      <3>4. \A k \in Requests : InDialog(ask[k]) =>
              InDialog(ask'[k]) /\ ask'[k] = ask[k]
        BY <1>1, <2>4 DEF InDialog
      <3>5. InDialog(ask'[j]) /\ ask'[j].n = q.n BY <2>3, <2>4 DEF InDialog
      <3>6. ScreenInOrder'
        BY <1>4, <3>1, <3>3, <3>4, <3>5 DEF ScreenInOrder
      <3> QED BY <3>2, <3>6
    <2>7. echo' \in BOOLEAN /\ mess' \in BOOLEAN /\ signals' \in 0..MaxSignals
      BY <1>1 DEF HelperInv, HelperTyped
    <2> QED BY <1>1, <1>4, <2>1, <2>5, <2>6, <2>7, OneAsks
  <1> QED BY <1>1, <1>3, <1>4

(* A dialog ends: its ending is the one recorded next.                     *)
LEMMA DialogSteps ==
  ASSUME HelperInv, NEW j \in Requests, DialogEnds(j)
  PROVE  HelperInv'
  <1> DEFINE q == ask[j]
  <1>1. PICK end \in Endings(Chain[q.n]) :
          Step(j, [q EXCEPT !.pc = "dialogs", !.n = @ + 1, !.child = FALSE,
                            !.ends = Append(@, end)])
    BY Zenon DEF DialogEnds
  <1> DEFINE r == [q EXCEPT !.pc = "dialogs", !.n = @ + 1, !.child = FALSE,
                            !.ends = Append(@, end)]
  <1>2. /\ q.pc = "dialog" /\ shown' = shown \ {<<j, Chain[q.n]>>}
        /\ env' = env /\ echo' = echo /\ signals' = signals /\ mess' = mess
    BY DEF DialogEnds, At
  <1>3. /\ q \in HelperRecord /\ Asked(q, Chain) /\ q.reply = NoReply
        /\ ~q.tty /\ Len(Chain) \in Nat /\ q.n \in 1..(Len(Chain) + 1)
        /\ Len(q.ends) = q.n - 1
    BY <1>2, HelperKnows
  <1>4. q.n <= Len(Chain) BY <1>2, <1>3 DEF Asked, Chained, InDialog
  <1>5. Append(q.ends, end) \in Seq(Ending) /\ Len(Append(q.ends, end)) = q.n
    BY <1>3, EveryEnding DEF HelperRecord
  <1>6. /\ r.pc = "dialogs" /\ r.n = q.n + 1 /\ r.ends = Append(q.ends, end)
        /\ r.reply = NoReply /\ ~r.child /\ ~r.tty
    BY <1>3 DEF HelperRecord
  <1>7. r \in HelperRecord
    <2>1. q.n + 1 \in Nat BY <1>3
    <2> QED BY <1>3, <1>5, <2>1, MoreEndings
  <1>8. Step(j, r) BY <1>1
  <1> HIDE DEF r
  <1>9. Chained(r, Chain) BY <1>3, <1>4, <1>5, <1>6 DEF Chained, InDialog
  <1>10. Guarded(r) /\ Honest(r, Chain)
    BY <1>6, NoReplyFollows DEF Guarded, Honest
  <1>11. Asked(r, Chain) BY <1>9, <1>10 DEF Asked
  <1>12. ASSUME ~mess'  PROVE ScreenInOrder' /\ TerminalInOrder'
    <2>1. ScreenInOrder /\ TerminalInOrder /\ HelperTyped BY <1>2, <1>12 DEF HelperInv
    <2>2. TerminalInOrder' BY <1>2, <1>6, <1>8, <2>1, TerminalStays DEF InTty
    <2>3. ScreenInOrder' BY <1>2, <1>8, <2>1, ScreenStays
    <2> QED BY <2>2, <2>3
  <1>13. echo' \in BOOLEAN /\ mess' \in BOOLEAN /\ signals' \in 0..MaxSignals
    BY <1>2 DEF HelperInv, HelperTyped
  <1> QED BY <1>2, <1>7, <1>8, <1>11, <1>12, <1>13, OneAsks

(* Decide: the first result that is not unavailable follows the first      *)
(* answer of the user, and without one there was no answer.                *)
LEMMA DecisionFollows ==
  ASSUME HelperInv, NEW j \in Requests, ask[j].pc = "dialogs",
         NEW decided, decided = {i \in DOMAIN Results(j) : Results(j)[i] # Unavailable},
         ask[j].n > Len(Chain)
  PROVE  /\ decided = {} => FromUser(ask[j], Chain) = {}
         /\ decided # {} =>
              LET i == CHOOSE x \in decided : \A k \in decided : x <= k
              IN  Results(j)[i] \in Replies /\ Follows(ask[j], Chain, Results(j)[i])
  <1> DEFINE q == ask[j]
             R == Results(j)
             U == FromUser(q, Chain)
  <1>1. /\ q \in HelperRecord /\ Len(Chain) \in Nat /\ Len(q.ends) = q.n - 1
        /\ q.n \in 1..(Len(Chain) + 1) /\ env \in Environments
    BY HelperKnows DEF HelperInv, HelperTyped
  <1>2. q.ends \in Seq(Ending) /\ DOMAIN q.ends = 1..Len(Chain)
    BY <1>1 DEF HelperRecord
  <1>3. /\ DOMAIN R = 1..Len(Chain)
        /\ \A i \in 1..Len(Chain) : R[i] = Classify(Chain[i], q.ends[i])
    BY <1>2, Zenon DEF Results
  <1>4. \A i \in 1..Len(Chain) :
          /\ q.ends[i] \in Ending /\ R[i] \in Replies
          /\ UserAnswered(Chain[i], q.ends[i]) =>
               R[i] = IF q.ends[i][1] = "typed"
                      THEN Password(q.ends[i][2], q.ends[i][3]) ELSE Cancelled
          /\ R[i] # Unavailable =>
               Chain[i] = "askpass" \/ UserAnswered(Chain[i], q.ends[i])
    <2>1. TAKE i \in 1..Len(Chain)
    <2>2. q.ends[i] \in Ending BY <1>2
    <2> QED BY <1>3, <2>2, Classified, Zenon
  <1>5. U \subseteq decided
    <2>1. ASSUME NEW i \in U  PROVE R[i] # Unavailable
      <3>1. i \in 1..Len(Chain) /\ UserAnswered(Chain[i], q.ends[i])
        BY <1>2, <2>1 DEF FromUser
      <3>2. R[i] = IF q.ends[i][1] = "typed"
                   THEN Password(q.ends[i][2], q.ends[i][3]) ELSE Cancelled
        BY <1>4, <3>1, Zenon
      <3>3. R[i].kind # "unavailable"
        BY <3>2 DEF Password, Cancelled
      <3>4. Unavailable.kind = "unavailable" BY DEF Unavailable
      <3> QED BY <3>3, <3>4
    <2> QED BY <1>2, <1>3, <2>1, Zenon DEF FromUser
  <1>6. ASSUME decided # {}
        PROVE  LET i == CHOOSE x \in decided : \A k \in decided : x <= k
               IN  R[i] \in Replies /\ Follows(q, Chain, R[i])
    <2> DEFINE i == CHOOSE x \in decided : \A k \in decided : x <= k
    <2>1. decided \in SUBSET Nat BY <1>3
    <2>2. i \in decided /\ \A k \in decided : i <= k
      BY <1>6, <2>1, LeastIsChosen, Zenon
    <2>3. i \in 1..Len(Chain) /\ R[i] # Unavailable BY <1>3, <2>2
    <2> HIDE DEF i
    <2>4. R[i] \in Replies BY <1>4, <2>3
    <2>5. Follows(q, Chain, R[i])
      <3>1. SUFFICES ASSUME R[i].kind \in {"password", "cancelled"},
                            NEW m \in U, \A k \in U : m <= k
                     PROVE  IF q.ends[m][1] = "typed"
                            THEN /\ R[i].kind = "password"
                                 /\ R[i].right = q.ends[m][3]
                            ELSE R[i].kind = "cancelled"
        BY Zenon DEF Follows
      <3>2. m \in 1..Len(Chain) /\ UserAnswered(Chain[m], q.ends[m])
        BY <1>2, <3>1, Zenon DEF FromUser
      <3>3. m = i
        <4>1. i <= m BY <1>5, <2>2, <3>1
        <4>2. CASE UserAnswered(Chain[i], q.ends[i])
          <5>1. i \in U BY <1>2, <2>3, <4>2, Zenon DEF FromUser
          <5> QED BY <2>3, <3>1, <3>2, <4>1, <5>1
        <4>3. CASE Chain[i] = "askpass"
          <5>1. Len(Chain) = 1 BY <1>1, <2>3, <4>3, ChainIsAlone
          <5> QED BY <2>3, <3>2, <5>1
        <4> QED BY <1>4, <2>3, <4>2, <4>3
      <3>4. R[i] = IF q.ends[m][1] = "typed"
                   THEN Password(q.ends[m][2], q.ends[m][3]) ELSE Cancelled
        BY <1>4, <3>2, <3>3
      <3> QED BY <3>4 DEF Password, Cancelled
    <2> QED BY <2>4, <2>5 DEF i
  <1> QED BY <1>5, <1>6, Zenon

(* Decide, which takes a result or goes on to the terminal.                *)
LEMMA DecideSteps ==
  ASSUME HelperInv, NEW j \in Requests, Decide(j)
  PROVE  HelperInv'
  <1> DEFINE q == ask[j]
             decided == {i \in DOMAIN Results(j) : Results(j)[i] # Unavailable}
             r == [q EXCEPT !.pc = "tty"]
  <1>1. /\ q.pc = "dialogs" /\ q.n > Len(Chain) /\ OnlyAsk
        /\ decided = {} => Step(j, r)
        /\ decided # {} =>
             Outcome(j, Results(j)[CHOOSE i \in decided : \A k \in decided : i <= k])
    BY Zenon DEF Decide, At, To
  <1> HIDE DEF decided
  <1>2. /\ decided = {} => FromUser(ask[j], Chain) = {}
        /\ decided # {} =>
             LET i == CHOOSE x \in decided : \A k \in decided : x <= k
             IN  Results(j)[i] \in Replies /\ Follows(ask[j], Chain, Results(j)[i])
    BY <1>1, DecisionFollows, Zenon DEF decided
  <1>3. CASE decided = {}
    <2>1. /\ q \in HelperRecord /\ q.reply = NoReply /\ ~q.child /\ ~q.tty
      BY <1>1, HelperKnows
    <2>2. r \in HelperRecord BY <2>1 DEF HelperRecord, Asking
    <2>3. Guarded(r) BY <2>1 DEF HelperRecord, Guarded
    <2>4. /\ r.pc = "tty" /\ r.ends = q.ends /\ r.n = q.n
          /\ r.found = q.found /\ r.reply = NoReply
      BY <2>1 DEF HelperRecord
    <2> HIDE DEF r
    <2> QED BY <1>1, <1>2, <1>3, <2>2, <2>3, <2>4, GoesOn, NoReplyFollows
        DEF InDialog, InTty
  <1>4. CASE decided # {}
    BY <1>1, <1>2, <1>4, OutcomeSteps, Zenon
  <1> QED BY <1>3, <1>4

(* The terminal is opened, and put back.                                   *)
LEMMA OpenSteps ==
  ASSUME HelperInv, NEW j \in Requests, TtyOpen(j)
  PROVE  HelperInv'
  <1> DEFINE q == ask[j]
             r == [q EXCEPT !.pc = "raw", !.found = echo]
  <1>1. /\ q.pc = "tty" /\ env' = env /\ shown' = shown /\ signals' = signals
        /\ \/ Outcome(j, Unsupported) /\ echo' = echo /\ mess' = mess
           \/ /\ Step(j, r) /\ echo' = FALSE
              /\ mess' = (mess \/ \E k \in Requests \ {j} : OnTerminal(k))
    BY Zenon DEF TtyOpen, At
  <1>2. /\ q \in HelperRecord /\ Asked(q, Chain) /\ q.reply = NoReply
        /\ ~q.child /\ ~q.tty
    BY <1>1, HelperKnows
  <1>3. CASE Outcome(j, Unsupported) /\ echo' = echo /\ mess' = mess
    BY <1>1, <1>3, EveryReply, NoReplyFollows, OutcomeSteps DEF OnlyAsk
  <1>4. CASE /\ Step(j, r) /\ echo' = FALSE
             /\ mess' = (mess \/ \E k \in Requests \ {j} : OnTerminal(k))
    <2>0. echo \in BOOLEAN /\ mess \in BOOLEAN /\ HelperTyped BY DEF HelperInv, HelperTyped
    <2>1. r \in HelperRecord BY <1>2, <2>0 DEF HelperRecord, Asking
    <2>2. Guarded(r) BY <1>2 DEF HelperRecord, Guarded
    <2>3. /\ r.pc = "raw" /\ r.ends = q.ends /\ r.n = q.n
          /\ r.found = echo /\ r.reply = NoReply
      BY <1>2 DEF HelperRecord
    <2>4. ask' = [ask EXCEPT ![j] = r] /\ ask \in [Requests -> HelperRecord]
      BY <1>4, <2>0 DEF Step, HelperTyped
    <2> HIDE DEF r
    <2>5. FromUser(q, Chain) = {} BY <1>1, <1>2 DEF Asked, Honest
    <2>6. Asked(r, Chain)
      BY <1>1, <1>2, <2>2, <2>3, <2>5, AskedStill, NoReplyFollows DEF InDialog
    <2>7. ASSUME ~mess'  PROVE ScreenInOrder' /\ TerminalInOrder'
      <3>1. /\ ~mess /\ \A k \in Requests : k # j => ~InTty(ask[k])
        BY <1>4, <2>7, Zenon DEF OnTerminal, InTty
      <3>2. ScreenInOrder /\ TerminalInOrder BY <3>1 DEF HelperInv
      <3>3. ScreenInOrder'
        BY <1>1, <1>4, <2>0, <3>2, ScreenStays DEF InDialog
      <3>4. echo BY <1>1, <3>1, <3>2 DEF TerminalInOrder, InTty
      <3>5. InTty(ask'[j]) /\ ask'[j].found /\ \A k \in Requests : k # j => ask'[k] = ask[k]
        BY <2>3, <2>4, <3>4 DEF InTty
      <3>6. TerminalInOrder' BY <3>1, <3>5 DEF TerminalInOrder
      <3> QED BY <3>3, <3>6
    <2>8. echo' \in BOOLEAN /\ mess' \in BOOLEAN /\ signals' \in 0..MaxSignals
      BY <1>1, <1>4, <2>0 DEF HelperTyped
    <2> QED BY <1>1, <1>4, <2>1, <2>6, <2>7, <2>8, OneAsks
  <1> QED BY <1>1, <1>3, <1>4

(* The request that had the terminal leaves it as it found it.             *)
LEMMA TerminalIsLeft ==
  ASSUME HelperTyped, TerminalInOrder, NEW j \in Requests, NEW r, Step(j, r),
         InTty(ask[j]), ~InTty(r), echo' = ask[j].found
  PROVE  TerminalInOrder'
  <1>1. ask' = [ask EXCEPT ![j] = r] /\ ask \in [Requests -> HelperRecord]
    BY DEF Step, HelperTyped
  <1>2. echo' /\ \A k \in Requests : k # j => ~InTty(ask[k])
    BY DEF TerminalInOrder
  <1>3. \A k \in Requests : ~InTty(ask'[k]) BY <1>1, <1>2
  <1> QED BY <1>2, <1>3 DEF TerminalInOrder

(* The terminal is put back after the user has typed.                      *)
LEMMA RestoreSteps ==
  ASSUME HelperInv, NEW j \in Requests, TtyRestore(j)
  PROVE  HelperInv'
  <1> DEFINE q == ask[j]
             r == [q EXCEPT !.pc = "respond"]
  <1>1. /\ q.pc = "restore" /\ env' = env /\ shown' = shown /\ signals' = signals
        /\ mess' = mess /\ echo' = q.found /\ Step(j, r)
    BY Zenon DEF TtyRestore, At, To
  <1>2. /\ q \in HelperRecord /\ Asked(q, Chain) /\ q.reply = NoReply
        /\ ~q.child /\ ~q.tty
    BY <1>1, HelperKnows
  <1>3. FromUser(q, Chain) = {} BY <1>1, <1>2 DEF Asked, Honest
  <1>4. r \in HelperRecord BY <1>2 DEF HelperRecord, Asking
  <1>5. Guarded(r) BY <1>2 DEF HelperRecord, Guarded
  <1>6. /\ r.pc = "respond" /\ r.ends = q.ends /\ r.n = q.n /\ r.reply = NoReply
    BY <1>2 DEF HelperRecord
  <1> HIDE DEF r
  <1>7. Asked(r, Chain)
    BY <1>1, <1>2, <1>3, <1>5, <1>6, AskedStill, NobodyAnswered DEF InDialog
  <1>8. ASSUME ~mess'  PROVE ScreenInOrder' /\ TerminalInOrder'
    <2>1. ScreenInOrder /\ TerminalInOrder /\ HelperTyped BY <1>1, <1>8 DEF HelperInv
    <2>2. TerminalInOrder' BY <1>1, <1>6, <2>1, TerminalIsLeft DEF InTty
    <2>3. ScreenInOrder' BY <1>1, <2>1, ScreenStays DEF InDialog
    <2> QED BY <2>2, <2>3
  <1>9. echo' \in BOOLEAN /\ mess' \in BOOLEAN /\ signals' \in 0..MaxSignals
    BY <1>1, <1>2 DEF HelperInv, HelperTyped, HelperRecord
  <1> QED BY <1>1, <1>4, <1>7, <1>8, <1>9, OneAsks

(* A request whose helper is gone with a reply that is not the user's.     *)
LEMMA ToldNothing ==
  ASSUME HelperInv, NEW j \in Requests, ask[j].pc # "gone",
         NEW reply \in Replies, reply.kind \notin {"password", "cancelled"}
  PROVE  LET r == Told(ask[j], reply) IN
         /\ r \in HelperRecord /\ Asked(r, Chain) /\ r.pc = "gone"
  <1> DEFINE q == ask[j]
             r == [q EXCEPT !.pc = "gone", !.reply = reply]
  <1>1. /\ q \in HelperRecord /\ Asked(q, Chain) /\ q.reply = NoReply
    BY HelperKnows
  <1>2. Told(q, reply) = r BY <1>1, Zenon DEF Told
  <1>3. /\ r \in HelperRecord /\ r.pc = "gone" /\ r.reply = reply
        /\ r.ends = q.ends /\ r.n = q.n
    BY <1>1 DEF HelperRecord
  <1> HIDE DEF r
  <1>4. Guarded(r) BY <1>3 DEF Guarded
  <1>5. Asked(r, Chain)
    BY <1>1, <1>3, <1>4, AskedStill, NothingFollows DEF InDialog
  <1> QED BY <1>2, <1>3, <1>5

(* A signal ends the helper, at any step; its handler tidies up what the   *)
(* guard knows.                                                            *)
LEMMA SignalSteps ==
  ASSUME HelperInv, NEW j \in Requests, Signal(j)
  PROVE  HelperInv'
  <1> DEFINE q == ask[j]
             r == Told(q, Failed)
  <1>0. /\ q.pc \in Asking /\ signals < MaxSignals /\ signals' = signals + 1
        /\ Step(j, r) /\ env' = env
        /\ shown' = (IF q.child THEN {s \in shown : s[1] # j} ELSE shown)
        /\ echo' = (IF q.tty THEN q.found ELSE echo)
        /\ mess' = (mess \/ q.pc = "spawned" \/ q.pc = "raw" \/ q.pc = "restore")
    BY Zenon DEF Signal, At
  <1>1. q.pc # "gone" BY <1>0 DEF Asking
  <1>2. /\ q \in HelperRecord /\ (q.child <=> q.pc = "dialog")
        /\ (q.tty <=> q.pc = "reading")
    BY <1>1, HelperKnows
  <1>3. r \in HelperRecord /\ Asked(r, Chain) /\ r.pc = "gone"
    BY <1>1, ToldNothing, EveryReply DEF Failed
  <1> HIDE DEF r
  <1>4. HelperTyped /\ mess \in BOOLEAN BY DEF HelperInv, HelperTyped
  <1>5. ASSUME ~mess'  PROVE ScreenInOrder' /\ TerminalInOrder'
    <2>1. ScreenInOrder /\ TerminalInOrder /\ q.pc \notin {"spawned", "raw", "restore"}
      BY <1>0, <1>5 DEF HelperInv
    <2>2. TerminalInOrder'
      <3>1. CASE q.tty BY <1>0, <1>2, <1>3, <1>4, <2>1, <3>1, TerminalIsLeft DEF InTty
      <3>2. CASE ~q.tty
        BY <1>0, <1>2, <1>3, <1>4, <2>1, <3>2, TerminalStays DEF InTty
      <3> QED BY <3>1, <3>2
    <2>3. ScreenInOrder'
      <3>1. shown' \subseteq shown BY <1>0
      <3>2. \A s \in shown' : ~(InDialog(q) /\ s = <<j, Chain[q.n]>>)
        BY <1>0, <1>2, <2>1 DEF InDialog
      <3> QED BY <1>0, <1>4, <2>1, <3>1, <3>2, ScreenStays
    <2> QED BY <2>2, <2>3
  <1>6. echo' \in BOOLEAN /\ mess' \in BOOLEAN /\ signals' \in 0..MaxSignals
    <2>1. echo \in BOOLEAN /\ mess \in BOOLEAN /\ signals \in 0..MaxSignals /\ q.found \in BOOLEAN
      BY <1>2, <1>4 DEF HelperTyped, HelperRecord
    <2> QED BY <1>0, <2>1, HelperAssumption DEF HelperAssumption
  <1> QED BY <1>0, <1>3, <1>5, <1>6, OneAsks

(* The parent gives up and kills the helper.                               *)
LEMMA TimeOutSteps ==
  ASSUME HelperInv, NEW j \in Requests, TimeOut(j)
  PROVE  HelperInv'
  <1> DEFINE r == Told(ask[j], [kind |-> "timeout"])
  <1>1. ask[j].pc # "gone" BY DEF TimeOut, Asking
  <1>2. r \in HelperRecord /\ Asked(r, Chain)
    BY <1>1, ToldNothing, EveryReply
  <1>3. /\ Step(j, r) /\ env' = env /\ mess' = TRUE
        /\ echo' \in BOOLEAN /\ mess' \in BOOLEAN /\ signals' \in 0..MaxSignals
    BY DEF TimeOut, HelperInv, HelperTyped
  <1> HIDE DEF r
  <1> QED BY <1>2, <1>3, OneAsks

(* A request that has not begun.                                           *)
LEMMA QuietTyped ==
  /\ Quiet \in HelperRecord /\ Quiet.pc = "none" /\ Quiet.reply = NoReply
  /\ ~Quiet.child /\ ~Quiet.tty /\ Quiet.n = 1 /\ Quiet.ends = << >>
  <1>1. << >> \in Seq(Ending) OBVIOUS
  <1>2. NoReply \in Replies BY EveryReply
  <1>3. Quiet \in HelperRecord BY <1>1, <1>2 DEF Quiet, HelperRecord
  <1> QED BY <1>3 DEF Quiet

(* The reply is taken: the request starts over as if it had not asked.     *)
LEMMA ReplyIsTaken ==
  ASSUME HelperInv, NEW j \in Requests, ask[j].reply # NoReply, OnlyAsk,
         Step(j, [Quiet EXCEPT !.pc = "gone"])
  PROVE  HelperInv'
  <1> DEFINE r == [Quiet EXCEPT !.pc = "gone"]
  <1>1. /\ ask[j] \in HelperRecord /\ Asked(ask[j], Chain)
    BY DEF HelperInv, HelperTyped
  <1>2. ask[j].pc = "gone" BY <1>1 DEF Asked, Guarded
  <1>3. Quiet \in HelperRecord /\ Quiet.reply = NoReply
    BY QuietTyped
  <1>4. r \in HelperRecord BY <1>3 DEF HelperRecord
  <1>5. r.pc = "gone" /\ r.reply = NoReply BY <1>3 DEF HelperRecord
  <1> HIDE DEF r
  <1>6. Asked(r, Chain) BY <1>5, NoReplyFollows DEF Asked, Guarded, Honest
  <1> QED BY <1>2, <1>4, <1>5, <1>6, OneAsksQuietly DEF r, InDialog, InTty

(* Nobody has asked.                                                       *)
LEMMA HelperFirst ==
  ASSUME HelperInit  PROVE HelperInv
  <1>1. /\ env \in Environments /\ ask = [j \in Requests |-> Quiet]
        /\ shown = {} /\ echo = TRUE /\ signals = 0 /\ mess = FALSE
    BY DEF HelperInit
  <1>2. \A j \in Requests : ask[j] = Quiet BY <1>1
  <1>3. Asked(Quiet, Chain)
    <2>1. Len(Chain) \in Nat BY <1>1, ChainIsAlone
    <2>2. Chained(Quiet, Chain) BY <2>1, QuietTyped DEF Chained, InDialog
    <2> QED BY <2>2, QuietTyped, NoReplyFollows DEF Asked, Guarded, Honest
  <1>4. HelperTyped
    <2>1. ask \in [Requests -> HelperRecord] BY <1>1, QuietTyped
    <2>2. signals \in 0..MaxSignals BY <1>1, HelperAssumption DEF HelperAssumption
    <2> QED BY <1>1, <2>1, <2>2 DEF HelperTyped
  <1>5. ScreenInOrder /\ TerminalInOrder
    BY <1>1, <1>2, QuietTyped DEF ScreenInOrder, TerminalInOrder, InTty
  <1> QED BY <1>2, <1>3, <1>4, <1>5 DEF HelperInv

(* Every step of helper and user.                                          *)
LEMMA HelperKeepsOrder ==
  ASSUME HelperInv, NEW j \in Requests, HelperNext(j)
  PROVE  HelperInv'
  BY BeginSteps, SpawnSteps, RegisterSteps, DecideSteps, OpenSteps, GuardSteps,
     RestoreSteps, RespondSteps, DialogSteps, CredUiSteps, ReadSteps, SignalSteps,
     TimeOutSteps, Zenon
  DEF HelperNext, Helper, User

(* A step of somebody else.                                                *)
LEMMA HelperRests ==
  ASSUME HelperInv, UNCHANGED helperVars
  PROVE  HelperInv'
  <1>1. /\ env' = env /\ ask' = ask /\ shown' = shown /\ echo' = echo
        /\ signals' = signals /\ mess' = mess
    BY DEF helperVars
  <1>2. Chain' = Chain BY <1>1, ChainStays
  <1> QED BY <1>1, <1>2 DEF HelperInv, HelperTyped, ScreenInOrder, TerminalInOrder

(* The invariant gives what the run checks.                                *)
LEMMA OrderServes ==
  ASSUME HelperInv  PROVE HelperServes
  <1>1. Heard
    <2>1. \A j \in Requests : Follows(ask[j], Chain, ask[j].reply)
      BY DEF HelperInv, Asked, Honest
    <2> QED BY <2>1, Zenon DEF Heard, Follows, FromUser
  <1>2. EndsTidy
    <2>1. SUFFICES ASSUME ~mess, \A j \in Requests : ask[j].pc \in {"none", "gone"}
                   PROVE  echo /\ shown = {}
      BY DEF EndsTidy
    <2>2. \A j \in Requests : ~InDialog(ask[j]) /\ ~InTty(ask[j])
      BY <2>1 DEF InDialog, InTty
    <2>3. ScreenInOrder /\ TerminalInOrder BY <2>1 DEF HelperInv
    <2> QED BY <2>2, <2>3 DEF ScreenInOrder, TerminalInOrder
  <1> QED BY <1>1, <1>2 DEF HelperServes
-----------------------------------------------------------------------------
(* The calls and the memory.                                               *)

Pcs == Over \cup {"new", "key", "prompt", "asking", "password", "load",
                  "truncate", "fill", "rename", "remembered", "grep",
                  "append", "verify"}
CallRecord ==
  [pc : Pcs, kind : {"bootstrap", "open", "persistent"}, host : Hosts,
   user : Names \cup {NoName}, right : BOOLEAN, map : Accounts, fd : Nat]
Versions == [whole : BOOLEAN, map : Accounts]
CallTyped ==
  /\ keys \in [Hosts -> [Names -> AuthorizedKeys]]
  /\ proven \in [Hosts -> SUBSET Names] /\ call \in [Requests -> CallRecord]
  /\ content \in Seq(Versions) /\ memory \in DOMAIN content
  /\ temp \in {0} \cup DOMAIN content

(* No map of users that is written, or is going to be, holds one who is    *)
(* not accepted, and no call that is past its password acts for one.       *)
LoggedIn == {"load", "truncate", "fill", "rename", "remembered", "grep",
             "append", "verify", "bootstrapped"}
Sound(map, accepted) == \A h \in Hosts : map[h] \in accepted[h] \cup {NoName}
Entitled(r, accepted, inodes) ==
  /\ r.pc # "new" => r.user \in Names
  /\ r.pc \in LoggedIn => r.user \in accepted[r.host]
  /\ r.pc \in {"truncate", "fill"} => Sound(r.map, accepted)
  /\ r.pc = "fill" => r.fd \in inodes
MemoryInv ==
  /\ CallTyped /\ \A i \in DOMAIN content : Sound(content[i].map, proven)
  /\ \A j \in Requests : Entitled(call[j], proven, DOMAIN content)
BootInv == HelperInv /\ MemoryInv

(* Who is accepted once stays accepted, and inodes stay.                   *)
LEMMA EntitledStill ==
  ASSUME NEW r \in CallRecord, NEW before, NEW after, NEW inodes, NEW more,
         \A h \in Hosts : before[h] \subseteq after[h], inodes \subseteq more,
         Entitled(r, before, inodes)
  PROVE  Entitled(r, after, more)
  <1>1. r.host \in Hosts BY DEF CallRecord
  <1>2. Sound(r.map, before) => Sound(r.map, after) BY DEF Sound
  <1> QED BY <1>1, <1>2 DEF Entitled

(* A step of one call that takes back neither an acceptance nor an inode.  *)
LEMMA OneCalls ==
  ASSUME MemoryInv, NEW j \in Requests, NEW r \in CallRecord,
         call' = [call EXCEPT ![j] = r],
         keys' \in [Hosts -> [Names -> AuthorizedKeys]],
         proven' \in [Hosts -> SUBSET Names], \A h \in Hosts : proven[h] \subseteq proven'[h],
         content' \in Seq(Versions), DOMAIN content \subseteq DOMAIN content',
         memory' \in DOMAIN content', temp' \in {0} \cup DOMAIN content',
         \A i \in DOMAIN content' : Sound(content'[i].map, proven'),
         Entitled(r, proven', DOMAIN content')
  PROVE  MemoryInv'
  <1>1. call \in [Requests -> CallRecord] BY DEF MemoryInv, CallTyped
  <1>2. CallTyped' BY <1>1 DEF CallTyped
  <1>3. ASSUME NEW k \in Requests
        PROVE  Entitled(call'[k], proven', DOMAIN content')
    <2>1. CASE k = j BY <1>1, <2>1
    <2>2. CASE k # j
      <3>1. call'[k] = call[k] /\ call[k] \in CallRecord BY <1>1, <2>2
      <3>2. Entitled(call[k], proven, DOMAIN content) BY DEF MemoryInv
      <3> QED BY <3>1, <3>2, EntitledStill, Zenon
    <2> QED BY <2>1, <2>2
  <1> QED BY <1>2, <1>3 DEF MemoryInv

(* Nothing but the call of j changes.                                      *)
FilesStay == /\ keys' = keys /\ proven' = proven /\ content' = content
             /\ memory' = memory /\ temp' = temp

LEMMA OneCallsOnly ==
  ASSUME MemoryInv, NEW j \in Requests, NEW r \in CallRecord, FilesStay,
         call' = [call EXCEPT ![j] = r], Entitled(r, proven, DOMAIN content)
  PROVE  MemoryInv'
  <1>1. CallTyped /\ \A i \in DOMAIN content : Sound(content[i].map, proven)
    BY DEF MemoryInv
  <1>2. /\ keys' \in [Hosts -> [Names -> AuthorizedKeys]]
        /\ proven' \in [Hosts -> SUBSET Names] /\ \A h \in Hosts : proven[h] \subseteq proven'[h]
        /\ content' \in Seq(Versions) /\ DOMAIN content \subseteq DOMAIN content'
        /\ memory' \in DOMAIN content' /\ temp' \in {0} \cup DOMAIN content'
        /\ \A i \in DOMAIN content' : Sound(content'[i].map, proven')
        /\ Entitled(r, proven', DOMAIN content')
    BY <1>1 DEF FilesStay, CallTyped
  <1> QED BY <1>2, OneCalls

(* A call that goes on with the user it has.                               *)
LEMMA OneGoes ==
  ASSUME MemoryInv, NEW j \in Requests, NEW p \in Pcs, Goes(j, p), FilesStay,
         call[j].pc # "new", p \notin {"new", "truncate", "fill"},
         p \in LoggedIn => call[j].pc \in LoggedIn
  PROVE  MemoryInv'
  <1> DEFINE q == call[j]
             r == [q EXCEPT !.pc = p]
  <1>1. q \in CallRecord /\ Entitled(q, proven, DOMAIN content)
    BY DEF MemoryInv, CallTyped
  <1>2. r \in CallRecord /\ r.pc = p /\ r.user = q.user /\ r.host = q.host
    BY <1>1 DEF CallRecord
  <1>3. call' = [call EXCEPT ![j] = r] BY DEF Goes
  <1> HIDE DEF r
  <1>4. Entitled(r, proven, DOMAIN content) BY <1>1, <1>2 DEF Entitled
  <1> QED BY <1>2, <1>3, <1>4, OneCallsOnly

(* The steps of a call that only make it go on.                            *)
LEMMA CallGoesOn ==
  ASSUME MemoryInv, NEW j \in Requests,
         TryKey(j) \/ Ask(j) \/ Remembered(j) \/ Grep(j) \/ Verify(j)
  PROVE  MemoryInv'
  <1>1. CASE TryKey(j)
    <2>1. FilesStay /\ call[j].pc = "key" BY <1>1 DEF TryKey, OnlyCall, FilesStay, CallAt
    <2>2. PICK p \in {"error", "already", "prompt"} : Goes(j, p)
      BY <1>1, Zenon DEF TryKey
    <2> QED BY <2>1, <2>2, OneGoes DEF Pcs, Over, LoggedIn
  <1>2. CASE Ask(j)
    <2>1. FilesStay /\ call[j].pc = "prompt" /\ Goes(j, "asking")
      BY <1>2 DEF Ask, FilesStay, CallAt
    <2> QED BY <2>1, OneGoes DEF Pcs, LoggedIn
  <1>3. CASE Remembered(j)
    <2>1. FilesStay /\ call[j].pc = "remembered"
      BY <1>3 DEF Remembered, OnlyCall, FilesStay, CallAt
    <2>2. PICK p \in {"error", "ready", "grep"} : Goes(j, p)
      BY <1>3, Zenon DEF Remembered
    <2> QED BY <2>1, <2>2, OneGoes DEF Pcs, Over, LoggedIn
  <1>4. CASE Grep(j)
    <2>1. FilesStay /\ call[j].pc = "grep" BY <1>4 DEF Grep, OnlyCall, FilesStay, CallAt
    <2>2. PICK p \in {"error", "append", "verify"} : Goes(j, p)
      BY <1>4, Zenon DEF Grep
    <2> QED BY <2>1, <2>2, OneGoes DEF Pcs, Over, LoggedIn
  <1>5. CASE Verify(j)
    <2>1. FilesStay /\ call[j].pc = "verify" BY <1>5 DEF Verify, OnlyCall, FilesStay, CallAt
    <2>2. PICK p \in {"error", "bootstrapped", "bootstrap failed"} : Goes(j, p)
      BY <1>5, Zenon DEF Verify
    <2> QED BY <2>1, <2>2, OneGoes DEF Pcs, Over, LoggedIn
  <1> QED BY <1>1, <1>2, <1>3, <1>4, <1>5

(* The user a call starts with is the one remembered, or the configured.   *)
LEMMA ResolveSteps ==
  ASSUME MemoryInv, NEW j \in Requests, Resolve(j)
  PROVE  MemoryInv'
  <1> DEFINE q == call[j]
             known == Read(memory)[q.host]
  <1>1. q \in CallRecord /\ CallTyped BY DEF MemoryInv, CallTyped
  <1>2. known \in Names \cup {NoName}
    <2>1. content[memory] \in Versions BY <1>1 DEF CallTyped
    <2> QED BY <1>1, <2>1 DEF Read, Versions, Accounts, CallRecord
  <1>3. ConfigUser[q.host] \in Names
    BY <1>1, BootstrapAssumption DEF BootstrapAssumption, CallRecord
  <1>4. PICK p \in {"key", "error", "prompt"}, user \in Names :
          call' = [call EXCEPT ![j] = [q EXCEPT !.pc = p, !.user = user]]
    <2> DEFINE p == CASE q.kind = "bootstrap" -> "key"
                      [] RefusedTogether(j) -> "error"
                      [] OTHER -> "prompt"
               user == IF known = NoName THEN ConfigUser[q.host] ELSE known
    <2>1. call' = [call EXCEPT ![j].pc = p, ![j].user = user] BY Zenon DEF Resolve
    <2>2. user \in Names BY <1>2, <1>3
    <2>3. p \in {"key", "error", "prompt"} BY DEF RefusedTogether
    <2> HIDE DEF p, user
    <2>4. call \in [Requests -> CallRecord] BY <1>1 DEF CallTyped
    <2> QED BY <2>1, <2>2, <2>3, <2>4
  <1> DEFINE r == [q EXCEPT !.pc = p, !.user = user]
  <1>5. /\ r \in CallRecord /\ r.pc = p /\ r.user = user
    BY <1>1 DEF CallRecord, Pcs, Over
  <1>6. FilesStay BY DEF Resolve, OnlyCall, FilesStay
  <1>7. call' = [call EXCEPT ![j] = r] BY <1>4
  <1> HIDE DEF r
  <1>8. Entitled(r, proven, DOMAIN content) BY <1>5 DEF Entitled, LoggedIn
  <1> QED BY <1>5, <1>6, <1>7, <1>8, OneCallsOnly

(* A reply that is no password ends the call.                              *)
LEMMA TakenGoes ==
  ASSUME NEW j, TakeReply(j), ask[j].reply.kind # "password"
  PROVE  \E p \in {"cancelled", "auth failed", "timed out", "error"} : Goes(j, p)
  <1> DEFINE reply == ask[j].reply
  <1>1. CASE reply.kind = "cancelled" BY <1>1 DEF TakeReply
  <1>2. CASE reply.kind = "timeout" BY <1>2 DEF TakeReply
  <1>3. CASE reply.kind \notin {"cancelled", "timeout"} BY <1>3 DEF TakeReply
  <1> QED BY <1>1, <1>2, <1>3

(* TakeReply.                                                              *)
LEMMA TakeSteps ==
  ASSUME HelperInv, MemoryInv, NEW j \in Requests, TakeReply(j)
  PROVE  MemoryInv'
  <1> DEFINE q == call[j]
             reply == ask[j].reply
  <1>1. /\ q \in CallRecord /\ CallTyped /\ Entitled(q, proven, DOMAIN content)
        /\ q.pc = "asking" /\ FilesStay
    BY DEF MemoryInv, CallTyped, TakeReply, CallAt, FilesStay
  <1>2. q.user \in Names BY <1>1 DEF Entitled
  <1>3. reply \in Replies BY DEF HelperInv, HelperTyped, HelperRecord
  <1>4. CASE reply.kind = "password"
    <2>1. reply.user \in Names \cup {NoName} /\ reply.right \in BOOLEAN
      BY <1>3, <1>4
      DEF Replies, NoReply, Cancelled, Unavailable, Failed, Unsupported
    <2> DEFINE user == Typed(j, reply.user)
               r == [q EXCEPT !.pc = "password", !.right = reply.right, !.user = user]
    <2>2. user \in Names BY <1>2, <2>1 DEF Typed
    <2>3. call' = [call EXCEPT ![j].pc = "password", ![j].right = reply.right,
                               ![j].user = user]
      BY <1>4, Zenon DEF TakeReply
    <2> HIDE DEF user
    <2>4. call' = [call EXCEPT ![j] = r] BY <1>1, <2>3 DEF CallTyped
    <2>5. r \in CallRecord /\ r.pc = "password" /\ r.user = user
      BY <1>1, <2>1, <2>2 DEF CallRecord, Pcs
    <2> HIDE DEF r
    <2>6. Entitled(r, proven, DOMAIN content) BY <2>2, <2>5 DEF Entitled, LoggedIn
    <2> QED BY <1>1, <2>4, <2>5, <2>6, OneCallsOnly
  <1>5. CASE reply.kind # "password"
    <2>1. PICK p \in {"cancelled", "auth failed", "timed out", "error"} : Goes(j, p)
      BY <1>5, TakenGoes
    <2> QED BY <1>1, <2>1, OneGoes DEF Pcs, Over, LoggedIn
  <1> QED BY <1>4, <1>5

(* The password is accepted, or not.                                       *)
LEMMA LogInSteps ==
  ASSUME MemoryInv, NEW j \in Requests, LogIn(j)
  PROVE  MemoryInv'
  <1> DEFINE q == call[j]
             r == [q EXCEPT !.pc = "load"]
             now == [proven EXCEPT ![q.host] = @ \cup {q.user}]
  <1>1. /\ q \in CallRecord /\ CallTyped /\ Entitled(q, proven, DOMAIN content)
        /\ q.pc = "password" /\ keys' = keys /\ content' = content
        /\ memory' = memory /\ temp' = temp
        /\ \A i \in DOMAIN content : Sound(content[i].map, proven)
    BY DEF MemoryInv, CallTyped, LogIn, CallAt
  <1>2. q.user \in Names BY <1>1 DEF Entitled
  <1>3. CASE proven' = proven /\ \E p \in {"error", "auth failed"} : Goes(j, p)
    BY <1>1, <1>3, OneGoes DEF FilesStay, Pcs, Over, LoggedIn
  <1>4. CASE proven' = now /\ Goes(j, "load")
    <2>1. call' = [call EXCEPT ![j] = r] BY <1>4 DEF Goes
    <2>2. r \in CallRecord /\ r.pc = "load" /\ r.user = q.user /\ r.host = q.host
      BY <1>1 DEF CallRecord, Pcs
    <2>3. q.host \in Hosts /\ proven \in [Hosts -> SUBSET Names]
      BY <1>1 DEF CallRecord, CallTyped
    <2>4. /\ now \in [Hosts -> SUBSET Names] /\ q.user \in now[q.host]
          /\ \A h \in Hosts : proven[h] \subseteq now[h]
      BY <1>2, <2>3
    <2> HIDE DEF r, now
    <2>5. Entitled(r, proven', DOMAIN content')
      BY <1>2, <1>4, <2>2, <2>4 DEF Entitled
    <2>6. \A i \in DOMAIN content' : Sound(content'[i].map, proven')
      BY <1>1, <1>4, <2>4 DEF Sound
    <2>7. /\ keys' \in [Hosts -> [Names -> AuthorizedKeys]]
          /\ proven' \in [Hosts -> SUBSET Names] /\ \A h \in Hosts : proven[h] \subseteq proven'[h]
          /\ content' \in Seq(Versions) /\ DOMAIN content \subseteq DOMAIN content'
          /\ memory' \in DOMAIN content' /\ temp' \in {0} \cup DOMAIN content'
      BY <1>1, <1>4, <2>4 DEF CallTyped
    <2> QED BY <2>1, <2>2, <2>5, <2>6, <2>7, OneCalls
  <1> QED BY <1>3, <1>4, Zenon DEF LogIn

(* The map that is loaded gets the user who was accepted.                  *)
LEMMA LoadSteps ==
  ASSUME MemoryInv, NEW j \in Requests, Load(j)
  PROVE  MemoryInv'
  <1> DEFINE q == call[j]
             map == [Read(memory) EXCEPT ![q.host] = q.user]
             r == [q EXCEPT !.pc = "truncate", !.map = map]
  <1>1. /\ q \in CallRecord /\ CallTyped /\ Entitled(q, proven, DOMAIN content)
        /\ q.pc = "load" /\ FilesStay
    BY DEF MemoryInv, CallTyped, Load, OnlyCall, FilesStay, CallAt
  <1>2. q.user \in Names /\ q.user \in proven[q.host] /\ q.host \in Hosts
    BY <1>1 DEF Entitled, LoggedIn, CallRecord
  <1>3. Read(memory) \in Accounts /\ Sound(Read(memory), proven)
    <2>1. content[memory] \in Versions /\ Sound(content[memory].map, proven)
      BY DEF MemoryInv, CallTyped
    <2> QED BY <2>1 DEF Read, Versions
  <1>4. map \in Accounts /\ Sound(map, proven)
    BY <1>2, <1>3 DEF Accounts, Sound
  <1>5. call' = [call EXCEPT ![j] = r]
    <2>1. call' = [call EXCEPT ![j].pc = "truncate", ![j].map = map]
      BY Zenon DEF Load
    <2> HIDE DEF map
    <2> QED BY <1>1, <2>1 DEF CallTyped
  <1> HIDE DEF map
  <1>6. r \in CallRecord /\ r.pc = "truncate" /\ r.user = q.user /\ r.host = q.host /\ r.map = map
    BY <1>1, <1>4 DEF CallRecord, Pcs
  <1> HIDE DEF r
  <1>7. Entitled(r, proven, DOMAIN content)
    BY <1>2, <1>4, <1>6 DEF Entitled
  <1> QED BY <1>1, <1>5, <1>6, <1>7, OneCallsOnly

(* What a file of users can hold.                                          *)
LEMMA VersionsTyped ==
  /\ Torn \in Versions /\ Torn.map = Forgotten /\ \A h \in Hosts : Forgotten[h] = NoName
  /\ \A map \in Accounts : Whole(map) \in Versions /\ Whole(map).map = map
  BY DEF Torn, Whole, Versions, Accounts, Forgotten

(* The temporary file is created, or emptied under whoever writes it.      *)
LEMMA TruncateSteps ==
  ASSUME MemoryInv, NEW j \in Requests, Truncate(j)
  PROVE  MemoryInv'
  <1> DEFINE q == call[j]
             ino == IF temp = 0 THEN Len(content) + 1 ELSE temp
             r == [q EXCEPT !.pc = "fill", !.fd = ino]
             now == IF temp = 0 THEN Append(content, Torn)
                                ELSE [content EXCEPT ![temp] = Torn]
  <1>1. /\ q \in CallRecord /\ CallTyped /\ Entitled(q, proven, DOMAIN content)
        /\ q.pc = "truncate" /\ keys' = keys /\ proven' = proven /\ memory' = memory
        /\ \A i \in DOMAIN content : Sound(content[i].map, proven)
    BY DEF MemoryInv, CallTyped, Truncate, MemoryStays, CallAt
  <1>2. CASE Goes(j, "remembered") /\ content' = content /\ temp' = temp
    BY <1>1, <1>2, OneGoes DEF FilesStay, Pcs, LoggedIn
  <1>3. CASE /\ temp' = ino /\ content' = now
             /\ call' = [call EXCEPT ![j].pc = "fill", ![j].fd = ino]
    <2>1. content \in Seq(Versions) /\ Torn \in Versions
      BY <1>1, VersionsTyped DEF CallTyped
    <2>2. /\ now \in Seq(Versions) /\ ino \in DOMAIN now /\ DOMAIN content \subseteq DOMAIN now
          /\ ino \in Nat /\ \A i \in DOMAIN now : now[i] = Torn \/ (i \in DOMAIN content /\ now[i] = content[i])
      <3>1. CASE temp = 0 BY <2>1, <3>1
      <3>2. CASE temp # 0
        <4>1. temp \in 1..Len(content) BY <1>1, <2>1, <3>2 DEF CallTyped
        <4> QED BY <2>1, <3>2, <4>1
      <3> QED BY <3>1, <3>2
    <2> HIDE DEF ino, now
    <2>3. call' = [call EXCEPT ![j] = r] BY <1>1, <1>3 DEF CallTyped
    <2>4. /\ r \in CallRecord /\ r.pc = "fill" /\ r.user = q.user /\ r.host = q.host
          /\ r.map = q.map /\ r.fd = ino
      BY <1>1, <2>2 DEF CallRecord, Pcs
    <2> HIDE DEF r
    <2>5. Entitled(r, proven', DOMAIN content')
      BY <1>1, <1>3, <2>2, <2>4 DEF Entitled, LoggedIn
    <2>6. \A i \in DOMAIN content' : Sound(content'[i].map, proven')
      BY <1>1, <1>3, <2>2, VersionsTyped DEF Sound
    <2>7. /\ keys' \in [Hosts -> [Names -> AuthorizedKeys]]
          /\ proven' \in [Hosts -> SUBSET Names] /\ \A h \in Hosts : proven[h] \subseteq proven'[h]
          /\ content' \in Seq(Versions) /\ DOMAIN content \subseteq DOMAIN content'
          /\ memory' \in DOMAIN content' /\ temp' \in {0} \cup DOMAIN content'
      BY <1>1, <1>3, <2>2 DEF CallTyped
    <2> QED BY <2>3, <2>4, <2>5, <2>6, <2>7, OneCalls
  <1> QED BY <1>2, <1>3, Zenon DEF Truncate

(* It is written, perhaps over what another call has written.              *)
LEMMA FillSteps ==
  ASSUME MemoryInv, NEW j \in Requests, Fill(j)
  PROVE  MemoryInv'
  <1> DEFINE q == call[j]
             r == [q EXCEPT !.pc = "rename"]
  <1>1. /\ q \in CallRecord /\ CallTyped /\ Entitled(q, proven, DOMAIN content)
        /\ q.pc = "fill" /\ keys' = keys /\ proven' = proven /\ memory' = memory
        /\ temp' = temp /\ \A i \in DOMAIN content : Sound(content[i].map, proven)
    BY DEF MemoryInv, CallTyped, Fill, MemoryStays, CallAt
  <1>2. CASE Goes(j, "remembered") /\ content' = content
    BY <1>1, <1>2, OneGoes DEF FilesStay, Pcs, LoggedIn
  <1>3. CASE /\ Goes(j, "rename")
             /\ \E c \in {Whole(q.map), Torn} : content' = [content EXCEPT ![q.fd] = c]
    <2>1. PICK c \in {Whole(q.map), Torn} : content' = [content EXCEPT ![q.fd] = c]
      BY <1>3
    <2>2. q.map \in Accounts /\ Sound(q.map, proven) /\ q.fd \in DOMAIN content
      BY <1>1 DEF CallRecord, Entitled
    <2>3. c \in Versions /\ Sound(c.map, proven)
      BY <2>2, VersionsTyped DEF Sound
    <2>4. /\ content' \in Seq(Versions) /\ DOMAIN content' = DOMAIN content
          /\ \A i \in DOMAIN content' : content'[i] = c \/ content'[i] = content[i]
      BY <1>1, <2>1, <2>2, <2>3 DEF CallTyped
    <2>5. call' = [call EXCEPT ![j] = r] BY <1>3 DEF Goes
    <2>6. /\ r \in CallRecord /\ r.pc = "rename" /\ r.user = q.user /\ r.host = q.host
      BY <1>1 DEF CallRecord, Pcs
    <2> HIDE DEF r
    <2>7. Entitled(r, proven', DOMAIN content')
      BY <1>1, <2>6 DEF Entitled, LoggedIn
    <2>8. \A i \in DOMAIN content' : Sound(content'[i].map, proven')
      BY <1>1, <2>3, <2>4
    <2>9. /\ keys' \in [Hosts -> [Names -> AuthorizedKeys]]
          /\ proven' \in [Hosts -> SUBSET Names] /\ \A h \in Hosts : proven[h] \subseteq proven'[h]
          /\ memory' \in DOMAIN content' /\ temp' \in {0} \cup DOMAIN content'
      BY <1>1, <2>4 DEF CallTyped
    <2> QED BY <2>4, <2>5, <2>6, <2>7, <2>8, <2>9, OneCalls
  <1> QED BY <1>2, <1>3, Zenon DEF Fill

(* Whatever stands in the temporary file becomes the memory.               *)
LEMMA RenameSteps ==
  ASSUME MemoryInv, NEW j \in Requests, Rename(j)
  PROVE  MemoryInv'
  <1> DEFINE q == call[j]
             r == [q EXCEPT !.pc = "remembered"]
  <1>1. /\ q \in CallRecord /\ CallTyped /\ Entitled(q, proven, DOMAIN content)
        /\ q.pc = "rename" /\ keys' = keys /\ proven' = proven /\ content' = content
        /\ \A i \in DOMAIN content : Sound(content[i].map, proven)
    BY DEF MemoryInv, CallTyped, Rename, MemoryStays, CallAt
  <1>2. call' = [call EXCEPT ![j] = r] BY DEF Rename, Goes
  <1>3. r \in CallRecord /\ r.pc = "remembered" /\ r.user = q.user /\ r.host = q.host
    BY <1>1 DEF CallRecord, Pcs
  <1> HIDE DEF r
  <1>4. Entitled(r, proven', DOMAIN content')
    BY <1>1, <1>3 DEF Entitled, LoggedIn
  <1>5. memory' \in DOMAIN content' /\ temp' \in {0} \cup DOMAIN content'
    BY <1>1 DEF Rename, CallTyped
  <1>6. /\ keys' \in [Hosts -> [Names -> AuthorizedKeys]]
        /\ proven' \in [Hosts -> SUBSET Names] /\ \A h \in Hosts : proven[h] \subseteq proven'[h]
        /\ content' \in Seq(Versions) /\ DOMAIN content \subseteq DOMAIN content'
        /\ \A i \in DOMAIN content' : Sound(content'[i].map, proven')
    BY <1>1 DEF CallTyped
  <1> QED BY <1>2, <1>3, <1>4, <1>5, <1>6, OneCalls

(* The key is appended: who is accepted does not change.                   *)
LEMMA DeploySteps ==
  ASSUME MemoryInv, NEW j \in Requests, Deploy(j)
  PROVE  /\ MemoryInv'
         /\ \/ keys' = keys
            \/ keys' = [keys EXCEPT ![call[j].host][call[j].user] =
                          AppendKey(keys[call[j].host][call[j].user])]
  <1> DEFINE q == call[j]
             r(at) == [q EXCEPT !.pc = at]
             file == keys[q.host][q.user]
             now == [keys EXCEPT ![q.host][q.user] = AppendKey(file)]
  <1>1. /\ q \in CallRecord /\ CallTyped /\ Entitled(q, proven, DOMAIN content)
        /\ q.pc = "append" /\ proven' = proven /\ memory' = memory
        /\ temp' = temp /\ content' = content
        /\ \A i \in DOMAIN content : Sound(content[i].map, proven)
    BY DEF MemoryInv, CallTyped, Deploy, CallAt
  <1>2. CASE (Goes(j, "error") \/ Goes(j, "verify")) /\ keys' = keys
    BY <1>1, <1>2, OneGoes DEF FilesStay, Pcs, Over, LoggedIn
  <1>3. ASSUME NEW at \in {"error", "verify"}, Goes(j, at), keys' = now
        PROVE  MemoryInv'
    <2>1. q.user \in Names /\ q.host \in Hosts BY <1>1 DEF Entitled, CallRecord
    <2>2. file \in AuthorizedKeys BY <1>1, <2>1 DEF CallTyped
    <2>3. AppendKey(file) \in AuthorizedKeys
      <3>1. file.works \subseteq Keys /\ file.text \subseteq Keys /\ file.end \in Keys
        BY <2>2 DEF AuthorizedKeys
      <3>2. Mine \in Keys BY BootstrapAssumption DEF BootstrapAssumption
      <3>3. AppendKey(file).works \subseteq Keys
        BY <3>1, <3>2 DEF AppendKey
      <3>4. AppendKey(file).last \in {"ended", "comment", "bare"}
        BY BootstrapAssumption DEF BootstrapAssumption, AppendKey
      <3> QED BY <3>1, <3>2, <3>3, <3>4 DEF AppendKey, AuthorizedKeys
    <2>4. now \in [Hosts -> [Names -> AuthorizedKeys]]
      BY <1>1, <2>1, <2>3 DEF CallTyped
    <2>5. call' = [call EXCEPT ![j] = r(at)] BY <1>3 DEF Goes
    <2>6. /\ r(at) \in CallRecord /\ r(at).pc \in {"error", "verify"}
          /\ r(at).user = q.user /\ r(at).host = q.host
      BY <1>1, <1>3 DEF CallRecord, Pcs, Over
    <2> HIDE DEF r, now
    <2>7. Entitled(r(at), proven', DOMAIN content')
      BY <1>1, <2>6 DEF Entitled, LoggedIn
    <2>8. /\ proven' \in [Hosts -> SUBSET Names] /\ \A h \in Hosts : proven[h] \subseteq proven'[h]
          /\ content' \in Seq(Versions) /\ DOMAIN content \subseteq DOMAIN content'
          /\ memory' \in DOMAIN content' /\ temp' \in {0} \cup DOMAIN content'
          /\ \A i \in DOMAIN content' : Sound(content'[i].map, proven')
      BY <1>1 DEF CallTyped
    <2> QED BY <1>3, <2>4, <2>5, <2>6, <2>7, <2>8, OneCalls
  <1>4. Goes(j, "error") \/ Goes(j, "verify") BY Zenon DEF Deploy
  <1>5. keys' = keys \/ keys' = now BY Zenon DEF Deploy
  <1>6. MemoryInv' BY <1>2, <1>3, <1>4, <1>5, Zenon
  <1> QED BY <1>5, <1>6

(* Every call is about to start, and the memory is empty.                  *)
LEMMA FirstCalls ==
  ASSUME Init  PROVE BootInv /\ keys \in OnFile
  <1>1. HelperInv BY HelperFirst DEF Init
  <1>2. PICK c \in Calls :
          call = [j \in Requests |->
                   [pc |-> "new", kind |-> c[j][1], host |-> c[j][2],
                    user |-> NoName, right |-> FALSE, map |-> Forgotten, fd |-> 0]]
    BY DEF Init
  <1>3. /\ keys \in OnFile /\ proven = [h \in Hosts |-> {}]
        /\ content = <<Whole(Forgotten)>> /\ memory = 1 /\ temp = 0
    BY DEF Init
  <1>4. Forgotten \in Accounts BY DEF Forgotten, Accounts
  <1>5. keys \in [Hosts -> [Names -> AuthorizedKeys]] /\ c \in [Requests -> {"bootstrap", "open", "persistent"} \X Hosts]
    BY <1>2, <1>3, BootstrapAssumption DEF BootstrapAssumption
  <1>6. call \in [Requests -> CallRecord]
    BY <1>2, <1>4, <1>5 DEF CallRecord, Pcs
  <1>7. content \in Seq(Versions) /\ DOMAIN content = {1} /\ content[1].map = Forgotten
    BY <1>3, <1>4, VersionsTyped
  <1>8. CallTyped BY <1>3, <1>5, <1>6, <1>7 DEF CallTyped
  <1>9. \A i \in DOMAIN content : Sound(content[i].map, proven)
    BY <1>7, VersionsTyped DEF Sound
  <1>10. \A j \in Requests : Entitled(call[j], proven, DOMAIN content)
    BY <1>2 DEF Entitled, LoggedIn
  <1> QED BY <1>1, <1>3, <1>8, <1>9, <1>10 DEF BootInv, MemoryInv

(* Which of the two each step is about.                                    *)
LEMMA BootKept ==
  ASSUME BootInv, [Next]_vars
  PROVE  BootInv'
  <1>1. HelperInv /\ MemoryInv BY DEF BootInv
  <1>2. CASE UNCHANGED vars
    <2>1. HelperInv' BY <1>1, <1>2, HelperRests DEF vars
    <2>2. MemoryInv' BY <1>1, <1>2 DEF vars, MemoryInv, CallTyped
    <2> QED BY <2>1, <2>2 DEF BootInv
  <1>3. ASSUME NEW j \in Requests, Prompt(j)  PROVE BootInv'
    <2>1. HelperInv' BY <1>1, <1>3, HelperKeepsOrder DEF Prompt
    <2>2. MemoryInv' BY <1>1, <1>3 DEF Prompt, MemoryInv, CallTyped
    <2> QED BY <2>1, <2>2 DEF BootInv
  <1>4. ASSUME NEW j \in Requests, Work(j)  PROVE BootInv'
    <2>1. MemoryInv'
      BY <1>1, <1>4, CallGoesOn, ResolveSteps, TakeSteps, LogInSteps, LoadSteps,
         TruncateSteps, FillSteps, RenameSteps, DeploySteps, Zenon DEF Work
    <2>2. HelperInv'
      <3>1. CASE Ask(j) BY <1>1, <3>1, RequestSteps DEF Ask
      <3>2. CASE TakeReply(j)
        BY <1>1, <3>2, ReplyIsTaken DEF TakeReply, OnlyAsk
      <3>3. CASE UNCHANGED helperVars BY <1>1, <3>3, HelperRests
      <3> QED BY <1>4, <3>1, <3>2, <3>3, Zenon
          DEF Work, Resolve, TryKey, LogIn, Load, Truncate, Fill, Rename, Remembered,
              Grep, Deploy, Verify, OnlyCall, MemoryStays
    <2> QED BY <2>1, <2>2 DEF BootInv
  <1> QED BY <1>2, <1>3, <1>4, Zenon DEF Next

(* In every life, of the helper and of the calls: the endings, guards and  *)
(* replies belong together, the screen and the terminal are in order while *)
(* no two prompts overlapped, and every map of users that is stored, or is *)
(* held by a call that will store it, names only users who were accepted.  *)
THEOREM BootInvariant == Spec => []BootInv
  BY FirstCalls, BootKept, PTL DEF Spec

(* helper.rs and credential/helper.rs: the first answer of the user is the *)
(* reply, and whoever is the last to leave leaves no dialog and an echoing *)
(* terminal, for any number of requests, chains of dialogs and signals.    *)
THEOREM HelperIsTrue == Spec => []HelperServes
  <1>1. BootInv => HelperServes BY OrderServes DEF BootInv
  <1> QED BY <1>1, BootInvariant, PTL

(* username_store.rs: only users who logged in are remembered, although    *)
(* all calls write by way of one temporary file.                           *)
LEMMA MemoryIsProven ==
  ASSUME BootInv  PROVE CallOK /\ UserIsProven
  <1>1. HelperInv /\ MemoryInv /\ CallTyped BY DEF BootInv, MemoryInv
  <1>2. HelperTypeOK
    BY <1>1 DEF HelperInv, HelperTyped, HelperTypeOK, HelperRecord
  <1>3. CallOK BY <1>1, <1>2 DEF CallTyped, CallOK, CallRecord, Pcs
  <1>4. Sound(Read(memory), proven)
    BY <1>1 DEF MemoryInv, CallTyped, Read
  <1> QED BY <1>3, <1>4 DEF Sound, UserIsProven

(* What a step does to the files of the accounts.                          *)
LEMMA KeysChange ==
  ASSUME BootInv, [Next]_vars
  PROVE  \/ keys' = keys
         \/ \E h \in Hosts, u \in Names :
              keys' = [keys EXCEPT ![h][u] = AppendKey(keys[h][u])]
  <1>1. MemoryInv BY DEF BootInv
  <1>2. CASE UNCHANGED vars BY <1>2 DEF vars
  <1>3. ASSUME NEW j \in Requests, Prompt(j) \/ (Work(j) /\ ~Deploy(j))
        PROVE  keys' = keys
    BY <1>3 DEF Prompt, Work, Resolve, TryKey, Ask, TakeReply, LogIn, Load, Truncate, Fill,
              Rename, Remembered, Grep, Verify, OnlyCall, MemoryStays
  <1>4. ASSUME NEW j \in Requests, Deploy(j), keys' # keys
        PROVE  \E h \in Hosts, u \in Names :
                 keys' = [keys EXCEPT ![h][u] = AppendKey(keys[h][u])]
    <2>1. call[j].host \in Hosts /\ call[j].user \in Names
      BY <1>1, <1>4 DEF Deploy, CallAt, MemoryInv, CallTyped, CallRecord, Entitled
    <2> QED BY <1>1, <1>4, <2>1, DeploySteps
  <1> QED BY <1>2, <1>3, <1>4, Zenon DEF Next

(* The deploy command of bootstrap.rs closes no account: whoever could log *)
(* in still can, but for the key of a last line with neither comment nor   *)
(* newline. For any files, hosts and number of calls.                      *)
THEOREM LoginsAreKept == Spec => LoginsKept
  <1> DEFINE Kept == \A h \in Hosts, u \in Names :
               keys[h][u].works \ keys'[h][u].works \subseteq
                 (IF keys[h][u].last = "bare" THEN {keys[h][u].end} ELSE {})
  <1>1. ASSUME BootInv, [Next]_vars  PROVE [Kept]_vars
    <2>1. keys \in [Hosts -> [Names -> AuthorizedKeys]]
      BY <1>1 DEF BootInv, MemoryInv, CallTyped
    <2>2. CASE keys' = keys BY <2>2
    <2>3. ASSUME NEW g \in Hosts, NEW a \in Names,
                 keys' = [keys EXCEPT ![g][a] = AppendKey(keys[g][a])]
          PROVE  Kept
      <3>1. SUFFICES ASSUME NEW h \in Hosts, NEW u \in Names
                     PROVE  keys[h][u].works \ keys'[h][u].works \subseteq
                              (IF keys[h][u].last = "bare" THEN {keys[h][u].end} ELSE {})
        OBVIOUS
      <3>2. \/ keys'[h][u] = keys[h][u]
            \/ keys'[h][u] = AppendKey(keys[h][u])
        BY <2>1, <2>3
      <3>3. keys[h][u].last \in {"ended", "comment", "bare"}
        BY <2>1 DEF AuthorizedKeys
      <3>4. CASE keys'[h][u] = AppendKey(keys[h][u])
        BY <3>3, <3>4 DEF AppendKey
      <3> QED BY <3>2, <3>4
    <2> QED BY <1>1, <2>2, <2>3, KeysChange
  <1>2. Spec => [][Kept]_vars
    BY <1>1, BootInvariant, PTL DEF Spec
  <1> QED BY <1>2 DEF LoginsKept

(* No file ends in a key of this machine without a newline and a comment.  *)
Own == Agent \cup {Mine}
OwnKeyEnds ==
  \A h \in Hosts, u \in Names :
    ~(keys[h][u].last = "bare" /\ keys[h][u].end \in Own)
KeysInv == BootInv /\ OwnKeyEnds /\ BootstrappedIsTrue

(* A call that reported its success can only be refuted by an append that  *)
(* spoils its key, and only a last line of that key alone could be         *)
(* spoiled.                                                                *)
LEMMA KeysKept ==
  ASSUME OwnLine = "comment", KeysInv, [Next]_vars
  PROVE  KeysInv'
  <1>1. BootInv /\ OwnKeyEnds /\ BootstrappedIsTrue /\ BootInv'
    BY BootKept DEF KeysInv
  <1>2. /\ keys \in [Hosts -> [Names -> AuthorizedKeys]]
        /\ call \in [Requests -> CallRecord] /\ call' \in [Requests -> CallRecord]
        /\ \A j \in Requests : Entitled(call'[j], proven', DOMAIN content')
    BY <1>1 DEF BootInv, MemoryInv, CallTyped
  <1>3. \A h \in Hosts, u \in Names :
          keys'[h][u] = keys[h][u] \/ keys'[h][u] = AppendKey(keys[h][u])
    BY <1>1, <1>2, KeysChange
  <1>4. \A h \in Hosts, u \in Names :
          /\ Own \cap keys[h][u].works \subseteq keys'[h][u].works
          /\ ~(keys'[h][u].last = "bare" /\ keys'[h][u].end \in Own)
    <2>1. TAKE h \in Hosts, u \in Names
    <2>2. ~(keys[h][u].last = "bare" /\ keys[h][u].end \in Own)
          /\ keys[h][u].last \in {"ended", "comment", "bare"}
      BY <1>1, <1>2 DEF OwnKeyEnds, AuthorizedKeys
    <2>3. CASE keys'[h][u] = AppendKey(keys[h][u])
      BY <2>2, <2>3 DEF AppendKey
    <2> QED BY <1>3, <2>2, <2>3
  <1>5. OwnKeyEnds' BY <1>4 DEF OwnKeyEnds
  <1>6. BootstrappedIsTrue'
    <2>1. SUFFICES ASSUME NEW j \in Requests, call'[j].pc = "bootstrapped"
                   PROVE  /\ Own \cap keys'[call'[j].host][call'[j].user].works # {}
                          /\ call'[j].user \in proven'[call'[j].host]
      BY DEF BootstrappedIsTrue, CallAt, Accepted, Account, Own
    <2>2. /\ call'[j].user \in proven'[call'[j].host] /\ call'[j].user \in Names
          /\ call'[j].host \in Hosts
      BY <1>2, <2>1 DEF Entitled, LoggedIn, CallRecord
    <2>3. CASE call'[j] = call[j]
      <3>1. Own \cap keys[call[j].host][call[j].user].works # {}
        BY <1>1, <2>1, <2>3 DEF BootstrappedIsTrue, CallAt, Accepted, Account, Own
      <3> QED BY <1>4, <2>2, <2>3, <3>1
    <2>4. CASE call'[j] # call[j]
      <3>1. PICK k \in Requests : Work(k)
        BY <2>4 DEF Next, vars, Prompt
      <3>2. k = j
        BY <1>2, <2>4, <3>1
        DEF Work, Resolve, TryKey, Ask, TakeReply, LogIn, Load, Truncate, Fill, Rename,
            Remembered, Grep, Deploy, Verify, Goes
      <3>3. \A p : Goes(j, p) => call'[j].pc = p
        BY <1>2 DEF Goes, CallRecord
      <3>4. Verify(j)
        <4>1. ~Resolve(j)
          <5>1. ASSUME Resolve(j)
                PROVE  call'[j].pc \in {"key", "error", "prompt"}
            BY <1>2, <5>1 DEF Resolve, CallRecord
          <5> QED BY <2>1, <5>1
        <4>2. ~TakeReply(j)
          <5>1. ASSUME TakeReply(j), ask[j].reply.kind = "password"
                PROVE  call'[j].pc = "password"
            BY <1>2, <5>1 DEF TakeReply, CallRecord
          <5>2. ASSUME TakeReply(j), ask[j].reply.kind # "password"
                PROVE  call'[j].pc \in {"cancelled", "auth failed", "timed out", "error"}
            BY <3>3, <5>2, TakenGoes
          <5> QED BY <2>1, <5>1, <5>2
        <4>3. ~TryKey(j) /\ ~Ask(j) /\ ~LogIn(j) /\ ~Remembered(j) /\ ~Grep(j) /\ ~Deploy(j)
          <5>1. ~TryKey(j) BY <2>1, <3>3 DEF TryKey
          <5>2. ~Ask(j) BY <2>1, <3>3 DEF Ask
          <5>3. ~LogIn(j) BY <2>1, <3>3 DEF LogIn
          <5>4. ~Remembered(j) BY <2>1, <3>3 DEF Remembered
          <5>5. ~Grep(j) BY <2>1, <3>3 DEF Grep
          <5>6. ~Deploy(j) BY <2>1, <3>3 DEF Deploy
          <5> QED BY <5>1, <5>2, <5>3, <5>4, <5>5, <5>6
        <4>4. ~Load(j) /\ ~Truncate(j) /\ ~Fill(j) /\ ~Rename(j)
          BY <1>2, <2>1 DEF Load, Truncate, Fill, Rename, Goes, CallRecord
        <4> QED BY <3>1, <3>2, <4>1, <4>2, <4>3, <4>4, Zenon DEF Work
      <3>5. Accepted(j, {Mine}) /\ keys' = keys /\ call'[j].host = call[j].host /\ call'[j].user = call[j].user
        BY <1>2, <2>1, <3>4 DEF Verify, Goes, OnlyCall, CallRecord
      <3> QED BY <2>2, <3>5 DEF Accepted, Account, Own
    <2> QED BY <2>3, <2>4
  <1> QED BY <1>1, <1>5, <1>6 DEF KeysInv

(* bootstrap.rs: after a reported bootstrap a key of this machine, the     *)
(* deployed one or one of the agent, opens the account of the password,    *)
(* whatever the other calls append, and only proven users are remembered.  *)
(* The line that is deployed ends in a comment, and no file starts with a  *)
(* last line, without newline and comment, of a key of this machine: a     *)
(* second append would spoil the one or the other.                         *)
THEOREM BootstrapsAreTrue ==
  ASSUME OwnLine = "comment",
         \A file \in OnFile, h \in Hosts, u \in Names :
           ~(file[h][u].last = "bare" /\ file[h][u].end \in Own)
  PROVE  Spec => []ProvenOnly
  <1>1. Init => KeysInv
    <2>1. SUFFICES ASSUME Init PROVE OwnKeyEnds /\ BootstrappedIsTrue
      BY FirstCalls DEF KeysInv
    <2>2. OwnKeyEnds
      <3>1. keys \in OnFile BY <2>1, FirstCalls
      <3> QED BY <3>1 DEF OwnKeyEnds
    <2>3. \A j \in Requests : call[j].pc = "new"
      <3>1. PICK c \in Calls :
              call = [j \in Requests |->
                       [pc |-> "new", kind |-> c[j][1], host |-> c[j][2],
                        user |-> NoName, right |-> FALSE, map |-> Forgotten, fd |-> 0]]
        BY <2>1 DEF Init
      <3> QED BY <3>1
    <2> QED BY <2>2, <2>3 DEF BootstrappedIsTrue, CallAt
  <1>2. KeysInv => ProvenOnly BY MemoryIsProven DEF KeysInv, ProvenOnly
  <1> QED BY <1>1, <1>2, KeysKept, PTL DEF Spec
-----------------------------------------------------------------------------
(* The deployment.                                                         *)

(* Where an answered command takes its client.                             *)
LEMMA AnswerGoes ==
  ASSUME DeployTypeOK, NEW c \in Client, NEW next \in Steps, NEW onError \in Steps,
         Answered(c, next, onError)
  PROVE  /\ pc' \in [Client -> Steps] /\ faults' \in 0..MaxFaults
         /\ pc'[c] \in {next, onError}
         /\ \A d \in Client \ {c} : pc'[d] = pc[d]
  BY DeployAssumption DEF DeployAssumption, DeployTypeOK, Answered

LEMMA GoesTo ==
  ASSUME DeployTypeOK, NEW c \in Client, NEW next \in Steps,
         pc' = [pc EXCEPT ![c] = next]
  PROVE  /\ pc' \in [Client -> Steps] /\ pc'[c] = next
         /\ \A d \in Client \ {c} : pc'[d] = pc[d]
  BY DEF DeployTypeOK

(* The host is new, or has the old build.                                  *)
LEMMA DeployFirst ==
  ASSUME DeployInit  PROVE DeployTypeOK
  <1>1. PICK installed \in BOOLEAN, running \in BOOLEAN :
       /\ running => installed
       /\ bin = IF installed THEN [build |-> Old, exec |-> TRUE] ELSE None
       /\ version = IF installed THEN Old ELSE "none"
       /\ socket = (IF running THEN 1 ELSE 0) /\ pidfile = socket
       /\ proc = [p \in Proc |-> IF running /\ p = 1 THEN "serving"
                                                     ELSE "none"]
       /\ runs = [p \in Proc |-> IF running /\ p = 1 THEN Old ELSE "none"]
    BY DEF DeployInit
  <1>2. Old \in Builds /\ "none" \in Builds BY DEF Builds
  <1>3. bin \in Binary /\ tmp \in Binary /\ version \in Builds
    BY <1>1, <1>2 DEF DeployInit, Binary, None
  <1>4. MaxProc \in Nat \ {0} /\ MaxFaults \in Nat
    BY DeployAssumption DEF DeployAssumption
  <1>5. pidfile \in 0..MaxProc /\ socket \in 0..MaxProc /\ faults \in 0..MaxFaults
    BY <1>1, <1>4 DEF DeployInit
  <1>6. /\ proc \in [Proc -> {"none", "started", "unlinked", "serving", "dead", "other"}]
        /\ runs \in [Proc -> Builds]
    BY <1>1, <1>2
  <1>7. /\ pc \in [Client -> Steps] /\ found \in [Client -> Builds]
        /\ pid \in [Client -> 0..MaxProc] /\ talks \in [Client -> 0..MaxProc]
        /\ stopped \in [Client -> BOOLEAN] /\ started \in [Client -> 0..MaxProc]
        /\ boot \in [Client -> {"none", "probe", "spawn", "pid", "wait",
                                "existing", "new", "failed"}]
    BY <1>2, <1>4 DEF DeployInit, Steps
  <1> QED BY <1>3, <1>5, <1>6, <1>7 DEF DeployTypeOK

(* What a client can upload and write is a build.                          *)
LEMMA BuildsKnown ==
  /\ "none" \in Builds /\ Old \in Builds
  /\ \A c \in Client : Build[c] \in Builds /\ LocalBuild(c) \in Builds
  BY DEF Builds, LocalBuild

(* Where a client's step takes it.                                         *)
LEMMA StepsTyped ==
  ASSUME DeployTypeOK, NEW c \in Client, ClientStep(c)
  PROVE  pc' \in [Client -> Steps] /\ faults' \in 0..MaxFaults
  <1>1. /\ pc \in [Client -> Steps] /\ faults \in 0..MaxFaults /\ MaxFaults \in Nat
    BY DeployAssumption DEF DeployTypeOK, DeployAssumption
  <1>2. \A x, y \in Steps : Answered(c, x, y) => /\ pc' \in [Client -> Steps]
                                                 /\ faults' \in 0..MaxFaults
    BY <1>1 DEF Answered
  <1>3. \A x \in Steps : pc' = [pc EXCEPT ![c] = x] => pc' \in [Client -> Steps]
    BY <1>1
  <1>4. CASE Begin(c) BY <1>1, <1>3, <1>4 DEF Begin, Steps
  <1>5. CASE Probe(c) BY <1>1, <1>3, <1>5 DEF Probe, Steps
  <1>6. CASE Prepare(c) BY <1>1, <1>2, <1>3, <1>6 DEF Prepare, Steps
  <1>7. CASE Upload(c) BY <1>2, <1>7 DEF Upload, Steps
  <1>8. CASE UploadRename(c) BY <1>1, <1>2, <1>3, <1>8 DEF UploadRename, Steps
  <1>9. CASE Chmod(c) BY <1>1, <1>2, <1>3, <1>9 DEF Chmod, Steps
  <1>10. CASE Move(c) BY <1>1, <1>2, <1>3, <1>10 DEF Move, Steps
  <1>11. CASE CleanUp(c) BY <1>1, <1>3, <1>11 DEF CleanUp, Steps
  <1>12. CASE WriteVersion(c) BY <1>2, <1>12 DEF WriteVersion, AfterDeploy, Steps
  <1>13. CASE ReadPid(c) BY <1>2, <1>13 DEF ReadPid, Steps
  <1>14. CASE VerifyPid(c) BY <1>2, <1>14 DEF VerifyPid, Steps
  <1>15. CASE Terminate(c) BY <1>2, <1>15 DEF Terminate, Steps
  <1>16. CASE Kill(c) BY <1>1, <1>2, <1>3, <1>16 DEF Kill, Steps
  <1>17. CASE UnlinkSocket(c) BY <1>2, <1>17 DEF UnlinkSocket, Steps
  <1>18. CASE RunBootstrap(c) BY <1>1, <1>2, <1>3, <1>18 DEF RunBootstrap, Steps
  <1>19. CASE TakeAnswer(c) BY <1>1, <1>3, <1>19 DEF TakeAnswer, Steps
  <1>20. CASE Connect(c) BY <1>1, <1>2, <1>3, <1>20 DEF Connect, Steps
  <1> QED BY <1>4, <1>5, <1>6, <1>7, <1>8, <1>9, <1>10, <1>11, <1>12, <1>13, <1>14,
             <1>15, <1>16, <1>17, <1>18, <1>19, <1>20, Zenon DEF ClientStep

(* A file that is put in place, and a process that dies.                   *)
LEMMA BinariesTyped ==
  /\ None \in Binary /\ None.build = "none"
  /\ \A c \in Client : [build |-> LocalBuild(c), exec |-> FALSE] \in Binary
  /\ \A file \in Binary : [file EXCEPT !.exec = TRUE] \in Binary
  BY BuildsKnown DEF Binary, None

Bootings == {"none", "probe", "spawn", "pid", "wait", "existing", "new", "failed"}
Lives == {"none", "started", "unlinked", "serving", "dead", "other"}
FilesTyped == /\ bin \in Binary /\ tmp \in Binary /\ version \in Builds
              /\ pidfile \in 0..MaxProc /\ socket \in 0..MaxProc
ProcsTyped == proc \in [Proc -> Lives] /\ runs \in [Proc -> Builds]
LocalsTyped == /\ found \in [Client -> Builds] /\ pid \in [Client -> 0..MaxProc]
               /\ stopped \in [Client -> BOOLEAN] /\ talks \in [Client -> 0..MaxProc]
BootsTyped == /\ boot \in [Client -> Bootings] /\ started \in [Client -> 0..MaxProc]
PcTyped == pc \in [Client -> Steps] /\ faults \in 0..MaxFaults

(* The type invariant in parts.                                            *)
LEMMA TypesSplit ==
  DeployTypeOK <=> FilesTyped /\ ProcsTyped /\ LocalsTyped /\ BootsTyped /\ PcTyped
  BY Zenon DEF DeployTypeOK, FilesTyped, ProcsTyped, LocalsTyped, BootsTyped, PcTyped,
               Bootings, Lives

LEMMA TypesJoin ==
  ASSUME FilesTyped', ProcsTyped', LocalsTyped', BootsTyped', PcTyped'
  PROVE  DeployTypeOK'
  BY Zenon DEF DeployTypeOK, FilesTyped, ProcsTyped, LocalsTyped, BootsTyped, PcTyped,
               Bootings, Lives

(* Types are kept by the steps of a client,                                *)
LEMMA ClientTypes ==
  ASSUME DeployTypeOK, NEW c \in Client, ClientStep(c)
  PROVE  DeployTypeOK'
  <1>1. PcTyped' BY StepsTyped DEF PcTyped
  <1>2. FilesTyped /\ ProcsTyped /\ LocalsTyped /\ BootsTyped BY TypesSplit
  <1>3. FilesTyped'
    <2> USE <1>2 DEF FilesTyped, files
    <2>1. CASE Upload(c) BY <2>1, BinariesTyped DEF Upload
    <2>2. CASE UploadRename(c) BY <2>2, BinariesTyped DEF UploadRename
    <2>3. CASE Chmod(c) BY <2>3, BinariesTyped DEF Chmod
    <2>4. CASE Move(c) BY <2>4, BinariesTyped DEF Move
    <2>5. CASE CleanUp(c) BY <2>5, BinariesTyped DEF CleanUp
    <2>6. CASE WriteVersion(c) BY <2>6, BuildsKnown DEF WriteVersion
    <2>7. CASE UnlinkSocket(c)
      BY <2>7, DeployAssumption DEF UnlinkSocket, DeployAssumption
    <2>8. CASE UNCHANGED files BY <2>8
    <2> QED BY <2>1, <2>2, <2>3, <2>4, <2>5, <2>6, <2>7, <2>8, Zenon
        DEF ClientStep, Begin, Probe, Prepare, ReadPid, VerifyPid, Terminate, Kill,
            RunBootstrap, TakeAnswer, Connect
  <1>4. ProcsTyped'
    <2> USE <1>2 DEF ProcsTyped, procs
    <2>1. CASE UNCHANGED runs /\ (Dies(pid[c]) \/ UNCHANGED proc)
      BY <2>1 DEF Dies, Lives
    <2>2. CASE UNCHANGED procs BY <2>2
    <2> QED BY <2>1, <2>2, Zenon
        DEF ClientStep, Begin, Probe, Prepare, Upload, UploadRename, Chmod, Move, CleanUp,
            WriteVersion, ReadPid, VerifyPid, Terminate, Kill, UnlinkSocket,
            RunBootstrap, TakeAnswer, Connect
  <1>5. LocalsTyped'
    <2> USE <1>2 DEF LocalsTyped, locals
    <2>1. CASE Probe(c) BY <2>1, <1>2, BuildsKnown DEF Probe, FilesTyped
    <2>2. CASE ReadPid(c) BY <2>2, <1>2 DEF ReadPid, FilesTyped
    <2>3. CASE UNCHANGED <<found, pid, talks>>
               /\ stopped' = [stopped EXCEPT ![c] = (pc'[c] = "unlink")]
      BY <2>3
    <2>4. CASE Connect(c) BY <2>4, <1>2 DEF Connect, FilesTyped
    <2>5. CASE UNCHANGED locals BY <2>5
    <2> QED BY <2>1, <2>2, <2>3, <2>4, <2>5, Zenon
        DEF ClientStep, Begin, Prepare, Upload, UploadRename, Chmod, Move, CleanUp,
            WriteVersion, VerifyPid, Terminate, Kill, UnlinkSocket, RunBootstrap, TakeAnswer
  <1>6. BootsTyped'
    <2> USE <1>2 DEF BootsTyped, boots
    <2>1. CASE Move(c) BY <2>1 DEF Move, Bootings
    <2>2. CASE RunBootstrap(c) BY <2>2 DEF RunBootstrap, Bootings
    <2>3. CASE UNCHANGED boots BY <2>3
    <2> QED BY <2>1, <2>2, <2>3, Zenon
        DEF ClientStep, Begin, Probe, Prepare, Upload, UploadRename, Chmod, CleanUp,
            WriteVersion, ReadPid, VerifyPid, Terminate, Kill, UnlinkSocket,
            TakeAnswer, Connect
  <1> QED BY <1>1, <1>3, <1>4, <1>5, <1>6, TypesJoin

(* and by bootstraps, daemons and failures.                                *)
LEMMA OtherTypes ==
  ASSUME DeployTypeOK,
         \/ \E c \in Client : BootStep(c) \/ CommandFails(c) \/ ClientDies(c)
         \/ \E p \in Proc : Serve(p) \/ DaemonCrashes(p) \/ ReuseNumber(p)
  PROVE  DeployTypeOK'
  <1>1. FilesTyped /\ ProcsTyped /\ LocalsTyped /\ BootsTyped /\ PcTyped BY TypesSplit
  <1>2. MaxProc \in Nat \ {0} /\ MaxFaults \in Nat
    BY DeployAssumption DEF DeployAssumption
  <1>3. FilesTyped /\ (UNCHANGED files => FilesTyped') /\ (UNCHANGED procs => ProcsTyped')
        /\ (UNCHANGED locals => LocalsTyped') /\ (UNCHANGED boots => BootsTyped')
        /\ (UNCHANGED <<pc, faults>> => PcTyped')
    BY <1>1 DEF FilesTyped, ProcsTyped, LocalsTyped, BootsTyped, PcTyped, files, procs,
                locals, boots
  <1>4. ASSUME NEW c \in Client, BootProbe(c)  PROVE DeployTypeOK'
    <2>1. BootsTyped' BY <1>1, <1>4 DEF BootProbe, BootsTyped, Bootings
    <2> QED BY <1>3, <1>4, <2>1, TypesJoin DEF BootProbe, files, procs, locals
  <1>5. ASSUME NEW c \in Client, NEW p \in Proc, BootSpawn(c, p)  PROVE DeployTypeOK'
    <2>1. BootsTyped' BY <1>1, <1>2, <1>5 DEF BootSpawn, BootsTyped, Bootings, Proc
    <2>2. ProcsTyped'
      <3>1. bin.build \in Builds BY <1>1 DEF FilesTyped, Binary
      <3> QED BY <1>1, <1>5, <3>1 DEF BootSpawn, ProcsTyped, Lives
    <2> QED BY <1>3, <1>5, <2>1, <2>2, TypesJoin DEF BootSpawn, files, procs, locals
  <1>6. ASSUME NEW c \in Client, BootWritePid(c)  PROVE DeployTypeOK'
    <2>1. BootsTyped' /\ FilesTyped'
      BY <1>1, <1>6 DEF BootWritePid, BootsTyped, FilesTyped, Bootings
    <2> QED BY <1>3, <1>6, <2>1, TypesJoin DEF BootWritePid, files, procs, locals
  <1>7. ASSUME NEW c \in Client, BootWait(c)  PROVE DeployTypeOK'
    <2>1. BootsTyped' /\ PcTyped'
      BY <1>1, <1>2, <1>7 DEF BootWait, BootsTyped, PcTyped, Bootings
    <2> QED BY <1>3, <1>7, <2>1, TypesJoin DEF BootWait, files, procs, locals
  <1>8. ASSUME NEW c \in Client, CommandFails(c)  PROVE DeployTypeOK'
    <2>1. OnError(pc[c]) \in Steps BY DEF OnError, Steps
    <2>2. PcTyped' BY <1>1, <1>2, <1>8, <2>1 DEF CommandFails, PcTyped
    <2> QED BY <1>3, <1>8, <2>2, TypesJoin DEF CommandFails
  <1>9. ASSUME NEW c \in Client, ClientDies(c)  PROVE DeployTypeOK'
    <2>1. PcTyped' BY <1>1, <1>2, <1>9 DEF ClientDies, PcTyped, Steps
    <2> QED BY <1>3, <1>9, <2>1, TypesJoin DEF ClientDies
  <1>10. ASSUME NEW p \in Proc, ServeUnlink(p)  PROVE DeployTypeOK'
    <2>1. FilesTyped' /\ ProcsTyped'
      BY <1>1, <1>2, <1>10 DEF ServeUnlink, FilesTyped, ProcsTyped, Lives
    <2> QED BY <1>3, <1>10, <2>1, TypesJoin DEF ServeUnlink, files, procs, locals
  <1>11. ASSUME NEW p \in Proc, ServeBind(p)  PROVE DeployTypeOK'
    <2>1. FilesTyped' /\ ProcsTyped'
      BY <1>1, <1>2, <1>11 DEF ServeBind, FilesTyped, ProcsTyped, Lives, Proc
    <2> QED BY <1>3, <1>11, <2>1, TypesJoin DEF ServeBind, files, procs, locals
  <1>12. ASSUME NEW p \in Proc, DaemonCrashes(p)  PROVE DeployTypeOK'
    <2>1. ProcsTyped' /\ PcTyped'
      BY <1>1, <1>2, <1>12 DEF DaemonCrashes, Dies, ProcsTyped, PcTyped, Lives
    <2> QED BY <1>3, <1>12, <2>1, TypesJoin DEF DaemonCrashes, files, procs, locals
  <1>13. ASSUME NEW p \in Proc, ReuseNumber(p)  PROVE DeployTypeOK'
    <2>1. ProcsTyped' BY <1>1, <1>13 DEF ReuseNumber, ProcsTyped, Lives
    <2> QED BY <1>3, <1>13, <2>1, TypesJoin DEF ReuseNumber, files, procs, locals
  <1> QED BY <1>4, <1>5, <1>6, <1>7, <1>8, <1>9, <1>10, <1>11, <1>12, <1>13, Zenon
      DEF BootStep, Serve

LEMMA TypesKept ==
  ASSUME DeployTypeOK, [DeployNext]_deployVars
  PROVE  DeployTypeOK'
  <1>1. CASE UNCHANGED deployVars
    BY <1>1 DEF deployVars, files, procs, locals, boots, DeployTypeOK
  <1> QED BY <1>1, ClientTypes, OtherTypes, Zenon DEF DeployNext

(* What the steps leave alone: who is gone stays gone, a number is never   *)
(* given back, and a client's own matters are its own.                     *)
Gone(p) == proc[p] \in {"dead", "other"}

(* A process that is gone stays so, and what a process runs is settled     *)
(* when it starts.                                                         *)
LEMMA GoneStays ==
  ASSUME DeployTypeOK, [DeployNext]_deployVars, NEW p \in Proc
  PROVE  /\ Gone(p) => Gone(p)'
         /\ proc[p] # "none" => proc'[p] # "none" /\ runs'[p] = runs[p]
  <1>1. proc \in [Proc -> Lives] /\ runs \in [Proc -> Builds]
    BY DEF DeployTypeOK, Lives
  <1> USE DEF Gone
  <1>2. CASE UNCHANGED procs BY <1>2 DEF procs
  <1>3. ASSUME NEW c \in Client, Terminate(c) \/ Kill(c)
        PROVE  /\ Gone(p) => Gone(p)'
               /\ proc[p] # "none" => proc'[p] # "none" /\ runs'[p] = runs[p]
    <2>1. runs' = runs /\ (proc' = proc \/ proc' = [proc EXCEPT ![pid[c]] = "dead"])
      BY <1>3, Zenon DEF Terminate, Kill, Dies
    <2> QED BY <1>1, <2>1
  <1>4. ASSUME NEW c \in Client, NEW q \in Proc, BootSpawn(c, q)
        PROVE  /\ Gone(p) => Gone(p)'
               /\ proc[p] # "none" => proc'[p] # "none" /\ runs'[p] = runs[p]
    BY <1>1, <1>4 DEF BootSpawn
  <1>5. ASSUME NEW q \in Proc, Serve(q) \/ DaemonCrashes(q) \/ ReuseNumber(q)
        PROVE  /\ Gone(p) => Gone(p)'
               /\ proc[p] # "none" => proc'[p] # "none" /\ runs'[p] = runs[p]
    <2>1. runs' = runs /\ \E x \in {"unlinked", "serving", "dead", "other"} :
            /\ proc' = [proc EXCEPT ![q] = x]
            /\ proc[q] \in {"dead", "other"} => x = "other"
      BY <1>5 DEF Serve, ServeUnlink, ServeBind, DaemonCrashes, Living, ReuseNumber, Dies
    <2> QED BY <1>1, <2>1
  <1>6. ASSUME NEW c \in Client, ClientStep(c), ~Terminate(c), ~Kill(c)
        PROVE  UNCHANGED procs
    BY <1>6, Zenon
    DEF ClientStep, Begin, Probe, Prepare, Upload, UploadRename, Chmod, Move, CleanUp,
        WriteVersion, ReadPid, VerifyPid, UnlinkSocket, RunBootstrap, TakeAnswer, Connect
  <1>7. ASSUME NEW c \in Client, BootStep(c), \A q \in Proc : ~BootSpawn(c, q)
        PROVE  UNCHANGED procs
    BY <1>7, Zenon DEF BootStep, BootProbe, BootWritePid, BootWait
  <1>8. ASSUME NEW c \in Client, CommandFails(c) \/ ClientDies(c)
        PROVE  UNCHANGED procs
    BY <1>8, Zenon DEF CommandFails, ClientDies
  <1>9. CASE UNCHANGED deployVars BY <1>9 DEF deployVars, procs
  <1> QED BY <1>2, <1>3, <1>4, <1>5, <1>6, <1>7, <1>8, <1>9, Zenon DEF DeployNext

(* A client changes only what it knows itself.                             *)
LEMMA OthersStay ==
  ASSUME DeployTypeOK, NEW c \in Client, ClientStep(c), NEW d \in Client, d # c
  PROVE  /\ pc'[d] = pc[d] /\ found'[d] = found[d] /\ pid'[d] = pid[d]
         /\ stopped'[d] = stopped[d] /\ talks'[d] = talks[d]
  <1> USE DEF Answered, locals
  <1>1. /\ pc \in [Client -> Steps] /\ found \in [Client -> Builds]
        /\ pid \in [Client -> 0..MaxProc] /\ stopped \in [Client -> BOOLEAN]
        /\ talks \in [Client -> 0..MaxProc]
    BY DEF DeployTypeOK
  <1>2. \E x : pc' = [pc EXCEPT ![c] = x]
    BY Zenon
    DEF ClientStep, Begin, Probe, Prepare, Upload, UploadRename, Chmod, Move, CleanUp,
        WriteVersion, ReadPid, VerifyPid, Terminate, Kill, UnlinkSocket, RunBootstrap,
        TakeAnswer, Connect
  <1>3. /\ found' = found \/ \E x : found' = [found EXCEPT ![c] = x]
        /\ pid' = pid \/ \E x : pid' = [pid EXCEPT ![c] = x]
        /\ stopped' = stopped \/ \E x : stopped' = [stopped EXCEPT ![c] = x]
        /\ talks' = talks \/ \E x : talks' = [talks EXCEPT ![c] = x]
    BY Zenon
    DEF ClientStep, Begin, Probe, Prepare, Upload, UploadRename, Chmod, Move, CleanUp,
        WriteVersion, ReadPid, VerifyPid, Terminate, Kill, UnlinkSocket, RunBootstrap,
        TakeAnswer, Connect
  <1> QED BY <1>1, <1>2, <1>3

(* Steps of which a client's own matters know nothing: of its bootstrap,   *)
(* of daemons.                                                             *)
LEMMA LocalsStay ==
  ASSUME \/ \E c \in Client : BootStep(c)
         \/ \E p \in Proc : Serve(p) \/ DaemonCrashes(p) \/ ReuseNumber(p)
  PROVE  pc' = pc /\ found' = found /\ pid' = pid /\ stopped' = stopped /\ talks' = talks
  BY DEF BootStep, BootProbe, BootSpawn, BootWritePid, BootWait, Serve, ServeUnlink,
         ServeBind, DaemonCrashes, ReuseNumber, locals

(* A client that says it has stopped a daemon has the number of one that   *)
(* is gone, and does not come back to the steps that read or use numbers.  *)
AfterStop == {"unlink", "boot", "await", "connect", "connected", "failed", "dead"}
StopInv ==
  \A c \in Client :
    /\ stopped[c] => pc[c] \in AfterStop /\ pid[c] # 0 /\ Gone(pid[c])
    /\ pc[c] \in {"verify", "term", "kill"} => pid[c] # 0
    /\ pc[c] = "unlink" => stopped[c]

(* Every step keeps this: a number that was read is that of a process      *)
(* which was started, and Terminate and Kill report only what they saw     *)
(* end.                                                                    *)
LEMMA StopKept ==
  ASSUME DeployTypeOK, StopInv, [DeployNext]_deployVars
  PROVE  StopInv'
  <1>1. /\ pc \in [Client -> Steps] /\ pid \in [Client -> 0..MaxProc]
        /\ stopped \in [Client -> BOOLEAN] /\ pidfile \in 0..MaxProc
        /\ MaxProc \in Nat
    BY DeployAssumption DEF DeployTypeOK, DeployAssumption
  <1>2. \A c \in Client : pid[c] # 0 => pid[c] \in Proc
    BY <1>1 DEF Proc
  <1>3. \A c \in Client : pid[c] # 0 /\ Gone(pid[c]) => proc'[pid[c]] \in {"dead", "other"}
    BY <1>2, GoneStays DEF Gone
  <1> DEFINE Fine(d) ==
        /\ stopped[d] => pc[d] \in AfterStop /\ pid[d] # 0 /\ Gone(pid[d])
        /\ pc[d] \in {"verify", "term", "kill"} => pid[d] # 0
        /\ pc[d] = "unlink" => stopped[d]
  <1>4. \A d \in Client : Fine(d) BY DEF StopInv
  <1>5. ASSUME NEW d \in Client, stopped'[d] = stopped[d], pid'[d] = pid[d],
               \/ pc'[d] = pc[d]
               \/ /\ stopped[d] => pc'[d] \in AfterStop
                  /\ pc'[d] \in {"verify", "term", "kill"} => pid[d] # 0
                  /\ pc'[d] = "unlink" => stopped[d]
        PROVE  Fine(d)'
    BY <1>3, <1>4, <1>5 DEF Gone
  <1>6. ASSUME NEW c \in Client, ClientStep(c), NEW d \in Client  PROVE Fine(d)'
    <2>1. CASE d # c BY <1>5, <1>6, <2>1, OthersStay
    <2>2. CASE d = c
      <3> USE <1>1, <2>2 DEF Answered, locals
      <3>1. CASE UnlinkSocket(c) \/ RunBootstrap(c) \/ TakeAnswer(c) \/ Connect(c)
        <4>1. stopped' = stopped /\ pid' = pid BY <3>1
          DEF UnlinkSocket, RunBootstrap, TakeAnswer, Connect
        <4>2. pc'[c] \in {"boot", "await", "connect", "connected", "failed"}
          BY <3>1 DEF UnlinkSocket, RunBootstrap, TakeAnswer, Connect
        <4> QED BY <1>5, <4>1, <4>2 DEF AfterStop
      <3>2. CASE ReadPid(c)
        <4>1. stopped' = stopped /\ ~stopped[c]
          BY <1>4, <3>2 DEF ReadPid, AfterStop
        <4>2. /\ pc'[c] = "boot" \/ (pc'[c] = "verify" /\ pidfile # 0)
              /\ pid'[c] = pidfile
          BY <3>2 DEF ReadPid
        <4> QED BY <4>1, <4>2
      <3>3. CASE VerifyPid(c)
        <4>1. stopped' = stopped /\ pid' = pid /\ ~stopped[c] /\ pid[c] # 0
          BY <1>4, <3>3 DEF VerifyPid, AfterStop
        <4>2. pc'[c] \in {"term", "boot"} BY <3>3 DEF VerifyPid
        <4> QED BY <1>5, <4>1, <4>2
      <3>4. CASE Terminate(c) \/ Kill(c)
        <4>1. pid' = pid /\ pid[c] # 0 /\ stopped'[c] = (pc'[c] = "unlink")
          BY <1>4, <3>4 DEF Terminate, Kill
        <4>2. /\ pc'[c] \in {"unlink", "kill", "failed"}
              /\ pc'[c] = "unlink" => Dies(pid[c])
          BY <3>4 DEF Terminate, Kill
        <4>3. Dies(pid[c]) => proc'[pid[c]] = "dead"
          BY <1>2, <4>1 DEF Dies, DeployTypeOK
        <4> QED BY <4>1, <4>2, <4>3 DEF AfterStop, Gone
      <3>5. CASE \/ Begin(c) \/ Probe(c) \/ Prepare(c) \/ Upload(c) \/ UploadRename(c)
                 \/ Chmod(c) \/ Move(c) \/ CleanUp(c) \/ WriteVersion(c)
        <4>1. stopped' = stopped /\ pid' = pid /\ pc[c] \notin AfterStop
          BY <3>5
          DEF Begin, Probe, Prepare, Upload, UploadRename, Chmod, Move, CleanUp,
              WriteVersion, AfterStop
        <4>2. pc'[c] \notin {"verify", "term", "kill", "unlink"}
          <5>1. CASE Begin(c) \/ Prepare(c) \/ Upload(c) \/ UploadRename(c) \/ Chmod(c)
            BY <5>1 DEF Begin, Prepare, Upload, UploadRename, Chmod
          <5>2. CASE Probe(c) BY <5>2 DEF Probe
          <5>3. CASE Move(c) \/ CleanUp(c) \/ WriteVersion(c)
            BY <5>3 DEF Move, CleanUp, WriteVersion, AfterDeploy
          <5> QED BY <3>5, <5>1, <5>2, <5>3
        <4> QED BY <1>4, <1>5, <4>1, <4>2
      <3> QED BY <1>6, <3>1, <3>2, <3>3, <3>4, <3>5, Zenon DEF ClientStep
    <2> QED BY <2>1, <2>2
  <1>7. CASE \/ \E c \in Client : BootStep(c)
             \/ \E p \in Proc : Serve(p) \/ DaemonCrashes(p) \/ ReuseNumber(p)
    BY <1>5, <1>7, LocalsStay DEF StopInv
  <1>8. ASSUME NEW c \in Client, CommandFails(c) \/ ClientDies(c), NEW d \in Client
        PROVE  Fine(d)'
    <2>1. stopped' = stopped /\ pid' = pid /\ (d # c => pc'[d] = pc[d])
      BY <1>1, <1>8 DEF CommandFails, ClientDies, locals
    <2>2. CASE d = c
      <3>1. pc'[c] = OnError(pc[c]) \/ pc'[c] = "dead"
        BY <1>1, <1>8 DEF CommandFails, ClientDies
      <3>2. OnError(pc[c]) \notin {"verify", "term", "kill", "unlink"}
        BY DEF OnError
      <3>3. pc[c] \in AfterStop => OnError(pc[c]) \in AfterStop
        BY DEF OnError, AfterStop
      <3> QED BY <1>4, <1>5, <2>1, <2>2, <3>1, <3>2, <3>3 DEF AfterStop
    <2> QED BY <1>5, <2>1, <2>2
  <1>9. CASE UNCHANGED deployVars
    BY <1>5, <1>9 DEF StopInv, deployVars, locals
  <1> QED BY <1>6, <1>7, <1>8, <1>9, Zenon DEF StopInv, DeployNext

(* The types, for any number of clients, processes and faults.             *)
THEOREM DeployTypes == DeploySpec => []DeployTypeOK
  BY DeployFirst, TypesKept, PTL DEF DeploySpec

LEMMA StopInvariant == DeploySpec => []StopInv
  <1>1. DeployInit => StopInv BY DEF DeployInit, StopInv
  <1> QED BY <1>1, DeployTypes, StopKept, PTL DEF DeploySpec

(* stop_remote_daemon: what is reported as stopped is dead, for any number *)
(* of clients of any builds, although a number can be given to another     *)
(* program meanwhile.                                                      *)
THEOREM StoppedDaemonsAreGone == DeploySpec => []StoppedIsGone
  <1>1. StopInv /\ DeployTypeOK => StoppedIsGone
    BY DEF StopInv, StoppedIsGone, Living, Gone
  <1> QED BY <1>1, DeployTypes, StopInvariant, PTL

(* A local copy of agentd, where a client has one, is of its own build. A  *)
(* copy of an earlier release would be uploaded under the new version      *)
(* (persistent.rs:1523).                                                   *)
OwnCopies == \A c \in Client : LocalBuild(c) \in {Build[c], "none"}

(* The builds that the clients bring: what they would upload is of those.  *)
Ours == {Build[c] : c \in Client}
OwnBuilds == OwnCopies /\ "none" \notin Ours

Uploading == {"upload", "rename", "chmod", "move"}
BuildInv ==
  /\ tmp = None \/ tmp.build \in Ours
  /\ version \in Ours => bin.build \in Ours
  /\ \A c \in Client : /\ pc[c] \in Uploading => LocalBuild(c) \in Ours
                       /\ pc[c] = "version" => bin.build \in Ours

(* Where the steps lead that deploy, and who else gets there.              *)
LEMMA UploadsLead ==
  ASSUME DeployTypeOK, NEW c \in Client, ClientStep(c)
  PROVE  /\ pc'[c] \in Uploading =>
              pc[c] \in Uploading \/ LocalBuild(c) # "none"
         /\ pc'[c] = "version" => pc[c] = "move" /\ bin' = tmp /\ tmp # None
  <1>1. pc \in [Client -> Steps] BY DEF DeployTypeOK
  <1> USE <1>1 DEF Answered, Uploading
  <1>2. CASE Begin(c) BY <1>2 DEF Begin
  <1>3. CASE Probe(c) BY <1>3 DEF Probe
  <1>4. CASE Prepare(c) BY <1>4 DEF Prepare
  <1>5. CASE Upload(c) BY <1>5 DEF Upload
  <1>6. CASE UploadRename(c) BY <1>6 DEF UploadRename
  <1>7. CASE Chmod(c) BY <1>7 DEF Chmod
  <1>8. CASE Move(c) BY <1>8 DEF Move
  <1>9. CASE CleanUp(c) BY <1>9 DEF CleanUp
  <1>10. CASE WriteVersion(c) BY <1>10 DEF WriteVersion, AfterDeploy
  <1>11. CASE ReadPid(c) \/ VerifyPid(c) BY <1>11 DEF ReadPid, VerifyPid
  <1>12. CASE Terminate(c) \/ Kill(c) BY <1>12 DEF Terminate, Kill
  <1>13. CASE UnlinkSocket(c) \/ RunBootstrap(c) BY <1>13 DEF UnlinkSocket, RunBootstrap
  <1>14. CASE TakeAnswer(c) \/ Connect(c) BY <1>14 DEF TakeAnswer, Connect
  <1> QED BY <1>2, <1>3, <1>4, <1>5, <1>6, <1>7, <1>8, <1>9, <1>10, <1>11, <1>12, <1>13,
             <1>14, Zenon DEF ClientStep

(* What a step does to the binaries and to the version on record.          *)
LEMMA BinariesChange ==
  ASSUME DeployTypeOK, OwnBuilds, BuildInv, [DeployNext]_deployVars
  PROVE  /\ bin' = bin \/ bin'.build \in Ours
         /\ tmp' = None \/ tmp'.build \in Ours
         /\ version' = version \/ (bin.build \in Ours /\ bin' = bin)
  <1> USE DEF files
  <1>1. ASSUME NEW c \in Client, Upload(c) \/ UploadRename(c)
        PROVE  bin' = bin /\ version' = version /\ (tmp' = None \/ tmp'.build \in Ours)
    <2>1. LocalBuild(c) \in Ours BY <1>1 DEF Upload, UploadRename, BuildInv, Uploading
    <2> QED BY <1>1, <2>1 DEF Upload, UploadRename, BuildInv
  <1>2. ASSUME NEW c \in Client, Chmod(c)
        PROVE  bin' = bin /\ version' = version /\ (tmp' = None \/ tmp'.build \in Ours)
    BY <1>2 DEF Chmod, BuildInv, DeployTypeOK, Binary
  <1>3. ASSUME NEW c \in Client, Move(c)
        PROVE  version' = version /\ (bin' = bin \/ bin'.build \in Ours)
               /\ (tmp' = None \/ tmp'.build \in Ours)
    BY <1>3 DEF Move, BuildInv
  <1>4. ASSUME NEW c \in Client, CleanUp(c)
        PROVE  bin' = bin /\ version' = version /\ tmp' = None
    BY <1>4 DEF CleanUp
  <1>5. ASSUME NEW c \in Client, WriteVersion(c)
        PROVE  bin' = bin /\ bin.build \in Ours /\ (tmp' = None \/ tmp'.build \in Ours)
    BY <1>5 DEF WriteVersion, BuildInv
  <1>6. ASSUME NEW c \in Client, ClientStep(c), ~Upload(c), ~UploadRename(c), ~Chmod(c),
               ~Move(c), ~CleanUp(c), ~WriteVersion(c)
        PROVE  bin' = bin /\ tmp' = tmp /\ version' = version
    BY <1>6, Zenon
    DEF ClientStep, Begin, Probe, Prepare, ReadPid, VerifyPid, Terminate, Kill,
        UnlinkSocket, RunBootstrap, TakeAnswer, Connect
  <1>7. ASSUME NEW c \in Client, BootStep(c) \/ CommandFails(c) \/ ClientDies(c)
        PROVE  bin' = bin /\ tmp' = tmp /\ version' = version
    BY <1>7, Zenon
    DEF BootStep, BootProbe, BootSpawn, BootWritePid, BootWait, CommandFails, ClientDies
  <1>8. ASSUME NEW p \in Proc, Serve(p) \/ DaemonCrashes(p) \/ ReuseNumber(p)
        PROVE  bin' = bin /\ tmp' = tmp /\ version' = version
    BY <1>8, Zenon DEF Serve, ServeUnlink, ServeBind, DaemonCrashes, ReuseNumber
  <1>9. CASE UNCHANGED deployVars BY <1>9 DEF deployVars, BuildInv
  <1>10. tmp = None \/ tmp.build \in Ours BY DEF BuildInv
  <1>11. CASE DeployNext
    <2>1. ASSUME NEW c \in Client, ClientStep(c)
          PROVE  /\ bin' = bin \/ bin'.build \in Ours
                 /\ tmp' = None \/ tmp'.build \in Ours
                 /\ version' = version \/ (bin.build \in Ours /\ bin' = bin)
      <3>1. CASE Upload(c) \/ UploadRename(c) \/ Chmod(c) \/ Move(c) \/ CleanUp(c)
                   \/ WriteVersion(c)
        BY <1>1, <1>2, <1>3, <1>4, <1>5, <3>1
      <3>2. CASE ~(Upload(c) \/ UploadRename(c) \/ Chmod(c) \/ Move(c) \/ CleanUp(c)
                     \/ WriteVersion(c))
        BY <1>6, <1>10, <2>1, <3>2
      <3> QED BY <3>1, <3>2
    <2> QED BY <1>7, <1>8, <1>10, <1>11, <2>1 DEF DeployNext
  <1> QED BY <1>9, <1>11

(* Every step keeps the builds in order.                                   *)
LEMMA BuildKept ==
  ASSUME DeployTypeOK, OwnBuilds, BuildInv, [DeployNext]_deployVars
  PROVE  BuildInv'
  <1>1. /\ bin' = bin \/ bin'.build \in Ours
        /\ tmp' = None \/ tmp'.build \in Ours
        /\ version' = version \/ (bin.build \in Ours /\ bin' = bin)
    BY BinariesChange
  <1>2. version' \in Ours => bin'.build \in Ours BY <1>1 DEF BuildInv
  <1>3. ASSUME NEW d \in Client, pc'[d] = pc[d]
        PROVE  /\ pc'[d] \in Uploading => LocalBuild(d) \in Ours
               /\ pc'[d] = "version" => bin'.build \in Ours
    BY <1>1, <1>3 DEF BuildInv
  <1>4. ASSUME NEW d \in Client
        PROVE  /\ pc'[d] \in Uploading => LocalBuild(d) \in Ours
               /\ pc'[d] = "version" => bin'.build \in Ours
    <2>1. ASSUME NEW c \in Client, ClientStep(c)
          PROVE  /\ pc'[d] \in Uploading => LocalBuild(d) \in Ours
                 /\ pc'[d] = "version" => bin'.build \in Ours
      <3>1. CASE c # d BY <1>3, <2>1, <3>1, OthersStay
      <3>2. CASE c = d
        <4>1. LocalBuild(d) # "none" => LocalBuild(d) \in Ours BY DEF OwnBuilds, OwnCopies, Ours
        <4>2. tmp = None \/ tmp.build \in Ours BY DEF BuildInv
        <4> QED BY <2>1, <3>2, <4>1, <4>2, UploadsLead DEF BuildInv
      <3> QED BY <3>1, <3>2
    <2>2. ASSUME NEW c \in Client, CommandFails(c) \/ ClientDies(c)
          PROVE  pc'[d] = pc[d] \/ pc'[d] \notin Uploading \cup {"version"}
      <3>1. OnError(pc[c]) \notin Uploading \cup {"version"} BY DEF OnError, Uploading
      <3> QED BY <2>2, <3>1 DEF CommandFails, ClientDies, DeployTypeOK, Uploading
    <2>3. CASE \/ \E c \in Client : BootStep(c)
               \/ \E p \in Proc : Serve(p) \/ DaemonCrashes(p) \/ ReuseNumber(p)
      BY <1>3, <2>3, LocalsStay
    <2>4. CASE UNCHANGED deployVars BY <1>3, <2>4 DEF deployVars
    <2> QED BY <1>3, <2>1, <2>2, <2>3, <2>4 DEF DeployNext
  <1> QED BY <1>1, <1>2, <1>4 DEF BuildInv

LEMMA BuildFirst ==
  ASSUME DeployInit, OwnBuilds  PROVE BuildInv
  <1>1. tmp = None /\ \A c \in Client : pc[c] = "idle" BY DEF DeployInit
  <1>2. version \in Ours => bin.build \in Ours BY DEF DeployInit, OwnBuilds
  <1> QED BY <1>1, <1>2 DEF BuildInv, Uploading

LEMMA BuildInvariant ==
  ASSUME OwnBuilds
  PROVE  DeploySpec => []BuildInv
  <1>1. DeployInit => BuildInv BY BuildFirst DEF OwnBuilds, OwnCopies, Ours
  <1> QED BY <1>1, DeployTypes, BuildKept, PTL DEF DeploySpec


(* While deployments of different builds have not overlapped: those under  *)
(* way are of one build, and a client's temporary file is still its own.   *)
Orderly ==
  /\ \A c \in Client : pc[c] \in Deploying => LocalBuild(c) = Build[c]
  /\ \A c, d \in Client :
       pc[c] \in Deploying /\ pc[d] \in Deploying => LocalBuild(c) = LocalBuild(d)
  /\ \A c \in Client :
       /\ pc[c] \in {"chmod", "move"} => tmp = None \/ tmp.build = LocalBuild(c)
       /\ pc[c] = "version" => bin.build = LocalBuild(c)
HistoryInv == overlapped \/ (Orderly /\ VersionIsBinary)

(* What the steps of a client do to the files it deploys, and where they   *)
(* take it.                                                                *)
LEMMA DeployMoves ==
  ASSUME DeployTypeOK, NEW c \in Client, ClientStep(c)
  PROVE  \/ /\ bin' = bin /\ version' = version
            /\ pc[c] \in {"upload", "rename"}
            /\ tmp' = tmp \/ tmp' = None \/ tmp'.build = LocalBuild(c)
            /\ \/ pc'[c] \in {"rename", "clean"}
               \/ pc'[c] = "chmod" /\ tmp'.build = LocalBuild(c)
         \/ /\ bin' = bin /\ version' = version
            /\ pc[c] = "chmod" /\ pc'[c] \in {"move", "clean"}
            /\ tmp' = tmp \/ (tmp # None /\ tmp'.build = tmp.build)
         \/ /\ bin' = tmp /\ tmp # None /\ tmp' = None /\ version' = version
            /\ pc[c] = "move" /\ pc'[c] \in {"version", "clean"}
         \/ /\ bin' = bin /\ version' = version /\ tmp' \in {tmp, None}
            /\ pc[c] \in {"move", "clean"}
            /\ pc'[c] = IF pc[c] = "move" THEN "clean" ELSE "failed"
         \/ /\ bin' = bin /\ tmp' = tmp /\ version' = Build[c]
            /\ pc[c] = "version" /\ pc'[c] \notin Deploying
         \/ /\ bin' = bin /\ tmp' = tmp /\ version' = version
            /\ pc[c] \notin Deploying \cup {"clean", "failed", "dead"}
            /\ pc'[c] \in Deploying => pc'[c] = "upload" /\ LocalBuild(c) # "none"
  <1>1. pc \in [Client -> Steps] /\ tmp \in Binary BY DEF DeployTypeOK
  <1> USE <1>1 DEF Answered, Deploying
  <1>2. CASE Begin(c) BY <1>2 DEF Begin, files
  <1>3. CASE Probe(c) BY <1>3 DEF Probe, files
  <1>4. CASE Prepare(c) BY <1>4 DEF Prepare, files
  <1>5. CASE Upload(c) BY <1>5 DEF Upload
  <1>6. CASE UploadRename(c) BY <1>6 DEF UploadRename
  <1>7. CASE Chmod(c) BY <1>7 DEF Chmod, Binary
  <1>8. CASE Move(c) BY <1>8 DEF Move
  <1>9. CASE CleanUp(c) BY <1>9 DEF CleanUp
  <1>10. CASE WriteVersion(c) BY <1>10 DEF WriteVersion, AfterDeploy
  <1>11. CASE ReadPid(c) \/ VerifyPid(c) BY <1>11 DEF ReadPid, VerifyPid, files
  <1>12. CASE Terminate(c) \/ Kill(c) BY <1>12 DEF Terminate, Kill, files
  <1>13. CASE UnlinkSocket(c) \/ RunBootstrap(c)
    BY <1>13 DEF UnlinkSocket, RunBootstrap, files
  <1>14. CASE TakeAnswer(c) \/ Connect(c) BY <1>14 DEF TakeAnswer, Connect, files
  <1> QED BY <1>2, <1>3, <1>4, <1>5, <1>6, <1>7, <1>8, <1>9, <1>10, <1>11, <1>12, <1>13,
             <1>14, Zenon DEF ClientStep

(* A step of a client keeps the order, unless it makes two deployments     *)
(* overlap.                                                                *)
LEMMA OrderlyDeploys ==
  ASSUME DeployTypeOK, OwnCopies, Orderly, VersionIsBinary, ~overlapped,
         NEW c \in Client, ClientStep(c), ~Overlap'
  PROVE  Orderly' /\ VersionIsBinary'
  <1>1. \A d \in Client \ {c} : pc'[d] = pc[d] BY OthersStay
  <1>2. \A d \in Client : pc'[d] \in Deploying => LocalBuild(d) = Build[d]
    <2>1. pc'[c] \in Deploying => pc[c] \in Deploying \/ LocalBuild(c) # "none"
      BY DeployMoves DEF Deploying
    <2> QED BY <1>1, <2>1 DEF Orderly, OwnCopies
  <1>3. \A d, e \in Client :
          pc'[d] \in Deploying /\ pc'[e] \in Deploying => LocalBuild(d) = LocalBuild(e)
    BY DEF Overlap, LocalBuild
  <1>4. \A d \in Client :
          pc[c] \in Deploying /\ pc[d] \in Deploying => LocalBuild(d) = LocalBuild(c)
    BY DEF Orderly
  <1>5. ASSUME NEW d \in Client, pc'[d] \in {"chmod", "move"}
        PROVE  tmp' = None \/ tmp'.build = LocalBuild(d)
    <2>1. CASE d = c BY <1>5, <2>1, DeployMoves DEF Orderly, Deploying
    <2>2. CASE d # c
      <3>1. pc[d] \in {"chmod", "move"} BY <1>1, <1>5, <2>2
      <3>2. tmp = None \/ tmp.build = LocalBuild(d) BY <3>1 DEF Orderly
      <3> QED BY <1>4, <3>1, <3>2, DeployMoves DEF Deploying
    <2> QED BY <2>1, <2>2
  <1>6. ASSUME NEW d \in Client, pc'[d] = "version"
        PROVE  bin'.build = LocalBuild(d)
    <2>1. CASE d = c BY <1>6, <2>1, DeployMoves DEF Orderly, Deploying
    <2>2. CASE d # c
      <3>1. pc[d] = "version" /\ bin.build = LocalBuild(d) BY <1>1, <1>6, <2>2 DEF Orderly
      <3>2. pc[c] = "move" => tmp = None \/ tmp.build = LocalBuild(d)
        BY <1>4, <3>1 DEF Orderly, Deploying
      <3> QED BY <3>1, <3>2, DeployMoves
    <2> QED BY <2>1, <2>2
  <1>7. VersionIsBinary'
    <2>1. CASE version' = version /\ bin' = bin
      <3>1. ASSUME NEW d \in Client, pc[d] \in {"version", "clean", "failed", "dead"}
            PROVE  pc'[d] \in {"clean", "failed", "dead", "version"} \/ version' = Build[d]
        BY <1>1, <3>1, DeployMoves DEF Deploying
      <3>2. ASSUME NEW d \in Client, pc[d] = "version", pc'[d] # pc[d]
            PROVE  version' = bin'.build
        BY <1>1, <3>2, DeployMoves DEF Orderly, Deploying
      <3>3. ASSUME NEW d \in Client, pc[d] \in {"clean", "failed", "dead"}
            PROVE  pc'[d] \in {"clean", "failed", "dead"}
        BY <1>1, <3>3, DeployMoves DEF Deploying
      <3> QED BY <2>1, <3>2, <3>3 DEF VersionIsBinary, LocalBuild
    <2>2. CASE bin' = tmp /\ tmp # None /\ pc[c] = "move" /\ pc'[c] \in {"version", "clean"}
      BY <2>2 DEF VersionIsBinary, Orderly, LocalBuild
    <2>3. CASE bin' = bin /\ version' = Build[c] /\ pc[c] = "version"
      BY <2>3 DEF VersionIsBinary, Orderly, Deploying
    <2> QED BY <2>1, <2>2, <2>3, DeployMoves
  <1> QED BY <1>2, <1>3, <1>5, <1>6, <1>7 DEF Orderly, LocalBuild

(* Nor do failures, bootstraps and daemons disturb it.                     *)
LEMMA OrderlyElse ==
  ASSUME DeployTypeOK, Orderly, VersionIsBinary, ~overlapped,
         \/ \E c \in Client : BootStep(c) \/ CommandFails(c) \/ ClientDies(c)
         \/ \E p \in Proc : Serve(p) \/ DaemonCrashes(p) \/ ReuseNumber(p)
         \/ UNCHANGED deployVars
  PROVE  Orderly' /\ VersionIsBinary'
  <1>1. bin' = bin /\ tmp' = tmp /\ version' = version
    <2>1. ASSUME NEW c \in Client, BootStep(c) \/ CommandFails(c) \/ ClientDies(c)
          PROVE  bin' = bin /\ tmp' = tmp /\ version' = version
      BY <2>1, Zenon
      DEF BootStep, BootProbe, BootSpawn, BootWritePid, BootWait, CommandFails, ClientDies,
          files
    <2>2. ASSUME NEW p \in Proc, Serve(p) \/ DaemonCrashes(p) \/ ReuseNumber(p)
          PROVE  bin' = bin /\ tmp' = tmp /\ version' = version
      BY <2>2, Zenon DEF Serve, ServeUnlink, ServeBind, DaemonCrashes, ReuseNumber, files
    <2>3. CASE UNCHANGED deployVars BY <2>3 DEF deployVars, files
    <2> QED BY <2>1, <2>2, <2>3
  <1>2. \A d \in Client :
          /\ pc'[d] \in Deploying => pc'[d] = pc[d]
          /\ pc[d] \in {"version", "clean", "failed", "dead"} =>
               pc'[d] \in {"version", "clean", "failed", "dead"}
    <2>1. pc \in [Client -> Steps] BY DEF DeployTypeOK
    <2>2. ASSUME NEW c \in Client, CommandFails(c) \/ ClientDies(c), NEW d \in Client
          PROVE  /\ pc'[d] \in Deploying => pc'[d] = pc[d]
                 /\ pc[d] \in {"version", "clean", "failed", "dead"} =>
                      pc'[d] \in {"version", "clean", "failed", "dead"}
      <3>1. /\ OnError(pc[c]) \notin Deploying
            /\ pc[c] \in {"version", "clean"} => OnError(pc[c]) = "failed"
        BY DEF OnError, Deploying
      <3>2. pc[c] \notin Ended /\ pc' \in {[pc EXCEPT ![c] = OnError(pc[c])],
                                          [pc EXCEPT ![c] = "dead"]}
        BY <2>2 DEF CommandFails, ClientDies
      <3> QED BY <2>1, <3>1, <3>2 DEF Deploying, Ended
    <2>3. CASE UNCHANGED deployVars BY <2>3 DEF deployVars
    <2> QED BY <2>2, <2>3, LocalsStay
  <1>3. Orderly'
    <2>1. \A d \in Client : pc'[d] \in {"chmod", "move", "version"} => pc'[d] = pc[d]
      BY <1>2 DEF Deploying
    <2> QED BY <1>1, <1>2, <2>1 DEF Orderly, LocalBuild
  <1>4. VersionIsBinary' BY <1>1, <1>2 DEF VersionIsBinary, LocalBuild
  <1> QED BY <1>3, <1>4

LEMMA HistoryKept ==
  ASSUME DeployTypeOK, OwnCopies, HistoryInv, [HistoryNext]_historyVars
  PROVE  HistoryInv'
  <1>1. CASE overlapped' \/ overlapped
    <2>1. overlapped => overlapped' BY Zenon DEF HistoryNext, historyVars
    <2> QED BY <1>1, <2>1 DEF HistoryInv
  <1>2. CASE ~overlapped' /\ ~overlapped
    <2>1. Orderly /\ VersionIsBinary BY <1>2 DEF HistoryInv
    <2>2. CASE HistoryNext
      <3>1. ~Overlap' /\ DeployNext BY <1>2, <2>2, Zenon DEF HistoryNext
      <3> QED BY <1>2, <2>1, <3>1, OrderlyDeploys, OrderlyElse, Zenon DEF DeployNext, HistoryInv
    <2>3. CASE UNCHANGED historyVars
      BY <1>2, <2>1, <2>3, OrderlyElse DEF historyVars, HistoryInv
    <2> QED BY <2>2, <2>3
  <1> QED BY <1>1, <1>2

(* deploy_runtime: the version file names the binary in place wherever     *)
(* deployments stopped, except between the replacing of the binary and the *)
(* writing of its version, and unless deployments of different builds      *)
(* overlapped; a stopped daemon is gone. For any number of clients of any  *)
(* builds whose local copies are of their own build.                       *)
THEOREM RecordsTrue ==
  ASSUME OwnCopies
  PROVE  HistorySpec => []RecordsAreTrue
  <1>1. HistorySpec => DeploySpec
    <2>1. [HistoryNext]_historyVars => [DeployNext]_deployVars
      BY DEF HistoryNext, historyVars
    <2>2. HistoryInit => DeployInit BY DEF HistoryInit
    <2> QED BY <2>1, <2>2, PTL DEF HistorySpec, DeploySpec
  <1>2. HistoryInit => HistoryInv
    <2>1. SUFFICES ASSUME HistoryInit PROVE HistoryInv
      OBVIOUS
    <2>2. \A c \in Client : pc[c] = "idle" BY <2>1 DEF HistoryInit, DeployInit
    <2>3. version \in {"none", bin.build} BY <2>1 DEF HistoryInit, DeployInit
    <2> QED BY <2>2, <2>3 DEF HistoryInv, Orderly, VersionIsBinary, Deploying
  <1>3. HistorySpec => []DeployTypeOK BY <1>1, DeployTypes, PTL
  <1>4. HistorySpec => []HistoryInv BY <1>2, <1>3, HistoryKept, PTL DEF HistorySpec
  <1>5. HistoryInv => VersionIsBinary BY DEF HistoryInv, VersionIsBinary
  <1> QED BY <1>1, <1>3, <1>4, <1>5, StoppedDaemonsAreGone, PTL DEF RecordsAreTrue

(* Clients that deploy before they start or stop anything: nothing is      *)
(* started, and nobody is about to, before the binary is in place.         *)
Starters == {"readpid", "verify", "term", "kill", "unlink", "boot", "await",
             "connect", "connected"}
NoLists == \A c \in Client : Does[c] # "list"
InPlace ==
  bin.build \notin Ours => \A c \in Client : boot[c] = "none" /\ pc[c] \notin Starters

(* How a client that does not list gets to the steps that start or stop a  *)
(* daemon: by having deployed, or by having found its version on record.   *)
LEMMA StartersCome ==
  ASSUME DeployTypeOK, NoLists, NEW c \in Client, ClientStep(c), pc'[c] \in Starters
  PROVE  \/ pc[c] \in Starters \cup {"version"}
         \/ pc[c] = "probe" /\ (version = Build[c] \/ Build[c] = "none")
  <1>1. pc \in [Client -> Steps] /\ found \in [Client -> Builds] BY DEF DeployTypeOK
  <1> USE <1>1 DEF Answered, Starters
  <1>2. CASE Begin(c) BY <1>2 DEF Begin, NoLists
  <1>3. CASE Probe(c)
    <2>1. found'[c] = Build[c] BY <1>3 DEF Probe
    <2>2. found'[c] \in {version, "none"} BY <1>3 DEF Probe
    <2> QED BY <1>3, <2>1, <2>2 DEF Probe
  <1>4. CASE Prepare(c) BY <1>4 DEF Prepare
  <1>5. CASE Upload(c) BY <1>5 DEF Upload
  <1>6. CASE UploadRename(c) BY <1>6 DEF UploadRename
  <1>7. CASE Chmod(c) BY <1>7 DEF Chmod
  <1>8. CASE Move(c) BY <1>8 DEF Move
  <1>9. CASE CleanUp(c) BY <1>9 DEF CleanUp
  <1>10. CASE WriteVersion(c) BY <1>10 DEF WriteVersion
  <1>11. CASE pc[c] \in Starters BY <1>11
  <1> QED BY <1>2, <1>3, <1>4, <1>5, <1>6, <1>7, <1>8, <1>9, <1>10, <1>11, Zenon
      DEF ClientStep, ReadPid, VerifyPid, Terminate, Kill, UnlinkSocket, RunBootstrap,
          TakeAnswer, Connect

(* How the bootstrap of a client goes on.                                  *)
LEMMA BootsChange ==
  ASSUME DeployTypeOK, [DeployNext]_deployVars, NEW d \in Client
  PROVE  \/ boot'[d] = boot[d]
         \/ RunBootstrap(d) /\ pc[d] = "boot" /\ boot'[d] = "probe"
         \/ boot[d] \in {"probe", "spawn"} /\ boot'[d] = "failed"
         \/ boot[d] = "probe" /\ boot'[d] = (IF Serves(socket) THEN "existing" ELSE "spawn")
         \/ boot[d] \in {"spawn", "pid", "wait"}
  <1>1. boot \in [Client -> Bootings] BY DEF DeployTypeOK, Bootings
  <1> USE <1>1 DEF boots
  <1>2. ASSUME NEW c \in Client, RunBootstrap(c)
        PROVE  \/ boot'[d] = boot[d]
               \/ RunBootstrap(d) /\ pc[d] = "boot" /\ boot'[d] = "probe"
    BY <1>2 DEF RunBootstrap
  <1>3. ASSUME NEW c \in Client, Move(c)
        PROVE  \/ boot'[d] = boot[d]
               \/ boot[d] \in {"probe", "spawn"} /\ boot'[d] = "failed"
    BY <1>3 DEF Move
  <1>4. ASSUME NEW c \in Client, ClientStep(c), ~RunBootstrap(c), ~Move(c)
        PROVE  boot' = boot
    BY <1>4, Zenon
    DEF ClientStep, Begin, Probe, Prepare, Upload, UploadRename, Chmod, CleanUp,
        WriteVersion, ReadPid, VerifyPid, Terminate, Kill, UnlinkSocket, TakeAnswer, Connect
  <1>5. ASSUME NEW c \in Client, BootProbe(c)
        PROVE  \/ boot'[d] = boot[d]
               \/ boot[d] = "probe" /\ boot'[d] = (IF Serves(socket) THEN "existing" ELSE "spawn")
    BY <1>5 DEF BootProbe
  <1>6. ASSUME NEW c \in Client, BootStep(c), ~BootProbe(c)
        PROVE  boot'[d] = boot[d] \/ boot[d] \in {"spawn", "pid", "wait"}
    BY <1>6 DEF BootStep, BootSpawn, BootWritePid, BootWait
  <1>7. ASSUME NEW c \in Client, CommandFails(c) \/ ClientDies(c)
        PROVE  boot' = boot
    BY <1>7, Zenon DEF CommandFails, ClientDies
  <1>8. ASSUME NEW p \in Proc, Serve(p) \/ DaemonCrashes(p) \/ ReuseNumber(p)
        PROVE  boot' = boot
    BY <1>8, Zenon DEF Serve, ServeUnlink, ServeBind, DaemonCrashes, ReuseNumber
  <1>9. CASE UNCHANGED deployVars BY <1>9 DEF deployVars
  <1> QED BY <1>2, <1>3, <1>4, <1>5, <1>6, <1>7, <1>8, <1>9, Zenon DEF DeployNext

LEMMA InPlaceKept ==
  ASSUME DeployTypeOK, OwnBuilds, NoLists, BuildInv, InPlace,
         [DeployNext]_deployVars
  PROVE  InPlace'
  <1>1. SUFFICES ASSUME bin'.build \notin Ours, NEW d \in Client
                 PROVE  boot'[d] = "none" /\ pc'[d] \notin Starters
    BY DEF InPlace
  <1>2. bin' = bin /\ bin.build \notin Ours /\ version \notin Ours BY <1>1, BinariesChange DEF BuildInv
  <1>3. /\ boot[d] = "none"
        /\ \A c \in Client : pc[c] \notin Starters \cup {"version"}
    BY <1>2 DEF InPlace, BuildInv
  <1>4. boot'[d] = "none" BY <1>3, BootsChange DEF Starters
  <1>5. pc'[d] \notin Starters
    <2>1. ASSUME NEW c \in Client, ClientStep(c)  PROVE pc'[d] \notin Starters
      <3>1. CASE c # d BY <1>3, <2>1, <3>1, OthersStay
      <3>2. CASE c = d BY <1>2, <1>3, <2>1, <3>2, StartersCome DEF OwnBuilds, OwnCopies, Ours
      <3> QED BY <3>1, <3>2
    <2>2. ASSUME NEW c \in Client, CommandFails(c) \/ ClientDies(c)
          PROVE  pc'[d] \notin Starters
      <3>1. pc[c] \notin Starters => OnError(pc[c]) \notin Starters
        BY DEF OnError, Starters
      <3>2. \A x : pc' = [pc EXCEPT ![c] = x] => pc'[d] \in {x, pc[d]}
        BY DEF DeployTypeOK
      <3> QED BY <1>3, <2>2, <3>1, <3>2 DEF CommandFails, ClientDies, Starters
    <2>3. CASE \/ \E c \in Client : BootStep(c)
               \/ \E p \in Proc : Serve(p) \/ DaemonCrashes(p) \/ ReuseNumber(p)
      BY <1>3, <2>3, LocalsStay
    <2>4. CASE UNCHANGED deployVars BY <1>3, <2>4 DEF deployVars
    <2> QED BY <2>1, <2>2, <2>3, <2>4 DEF DeployNext
  <1> QED BY <1>4, <1>5

(* A living daemon that is of no client's build came with the host: it     *)
(* serves, the files name it, there has been no other, and nobody is about *)
(* to start one or knows the number of another.                            *)
Stale(p) == Living(p) /\ runs[p] \notin Ours
Ancient(p) ==
  /\ proc[p] = "serving" /\ socket = p /\ pidfile = p
  /\ \A q \in Proc \ {p} : proc[q] = "none"
  /\ \A c \in Client : /\ pid[c] \in {0, p}
                       /\ boot[c] \in {"none", "probe", "existing", "failed"}
StaleInv == \A p \in Proc : Stale(p) => Ancient(p)

(* No daemon of such a build is started.                                   *)
LEMMA StaleWasStale ==
  ASSUME DeployTypeOK, InPlace, [DeployNext]_deployVars, NEW p \in Proc,
         Stale(p)'
  PROVE  Stale(p)
  <1>1. /\ proc'[p] \in {"started", "unlinked", "serving"} /\ runs'[p] \notin Ours /\ p # 0
    BY DEF Stale, Living
  <1>2. proc \in [Proc -> Lives] /\ runs \in [Proc -> Builds] BY DEF DeployTypeOK, Lives
  <1>3. CASE proc[p] # "none"
    <2>1. ~Gone(p) /\ runs[p] = runs'[p] BY <1>1, <1>3, GoneStays DEF Gone
    <2> QED BY <1>1, <1>2, <1>3, <2>1 DEF Gone, Stale, Living, Lives
  <1>4. CASE proc[p] = "none"
    <2>1. PICK c \in Client : BootSpawn(c, p)
      <3>1. ASSUME NEW c \in Client, ClientStep(c)  PROVE FALSE
        <4>1. CASE Terminate(c) \/ Kill(c)
          BY <1>1, <1>2, <1>4, <4>1 DEF Terminate, Kill, Dies
        <4>2. CASE ~Terminate(c) /\ ~Kill(c)
          <5>1. proc' = proc BY <3>1, <4>2, Zenon
            DEF ClientStep, Begin, Probe, Prepare, Upload, UploadRename, Chmod, Move,
                CleanUp, WriteVersion, ReadPid, VerifyPid, UnlinkSocket, RunBootstrap,
                TakeAnswer, Connect, procs
          <5> QED BY <1>1, <1>4, <5>1
        <4> QED BY <4>1, <4>2
      <3>2. ASSUME NEW c \in Client, CommandFails(c) \/ ClientDies(c)  PROVE FALSE
        BY <1>1, <1>4, <3>2 DEF CommandFails, ClientDies, procs
      <3>3. ASSUME NEW c \in Client, BootProbe(c) \/ BootWritePid(c) \/ BootWait(c)
            PROVE  FALSE
        BY <1>1, <1>4, <3>3 DEF BootProbe, BootWritePid, BootWait, procs
      <3>4. ASSUME NEW q \in Proc, Serve(q) \/ DaemonCrashes(q) \/ ReuseNumber(q)
            PROVE  FALSE
        BY <1>1, <1>2, <1>4, <3>4
        DEF Serve, ServeUnlink, ServeBind, DaemonCrashes, Living, Dies, ReuseNumber
      <3>5. ASSUME NEW c \in Client, NEW q \in Proc, BootSpawn(c, q)  PROVE q = p
        BY <1>1, <1>2, <1>4, <3>5 DEF BootSpawn
      <3>6. ~UNCHANGED deployVars BY <1>1, <1>4 DEF deployVars, procs
      <3> QED BY <3>1, <3>2, <3>3, <3>4, <3>5, <3>6 DEF DeployNext, BootStep
    <2>2. runs'[p] = bin.build /\ boot[c] # "none" BY <1>2, <2>1 DEF BootSpawn
    <2>3. bin.build \in Ours BY <2>2 DEF InPlace
    <2> QED BY <1>1, <2>2, <2>3
  <1> QED BY <1>3, <1>4

(* Nor does such a daemon lose its files, until it is stopped: whoever     *)
(* bootstraps finds it, and whoever reads a number reads its.              *)
LEMMA StaleKept ==
  ASSUME DeployTypeOK, StopInv, InPlace, StaleInv, [DeployNext]_deployVars
  PROVE  StaleInv'
  <1>1. SUFFICES ASSUME NEW p \in Proc, Stale(p)'  PROVE Ancient(p)'
    BY DEF StaleInv
  <1>2. Stale(p) /\ Ancient(p) BY <1>1, StaleWasStale DEF StaleInv
  <1>3. /\ proc \in [Proc -> Lives] /\ pid \in [Client -> 0..MaxProc]
        /\ boot \in [Client -> Bootings] /\ p # 0
    BY <1>2 DEF DeployTypeOK, Lives, Bootings, Stale, Living
  <1>4. \A c \in Client : boot'[c] \in {"none", "probe", "existing", "failed"}
    <2>1. Serves(socket) BY <1>2, <1>3 DEF Serves, Ancient
    <2> QED BY <1>2, <2>1, BootsChange DEF Ancient
  <1>5. proc' = proc
    <2>1. proc'[p] \in {"started", "unlinked", "serving"} BY <1>1 DEF Stale, Living
    <2>2. ASSUME NEW c \in Client, Terminate(c) \/ Kill(c)  PROVE proc' = proc
      <3>1. pid[c] = p BY <1>2, <2>2 DEF StopInv, Ancient, Terminate, Kill
      <3>2. Dies(pid[c]) \/ proc' = proc BY <2>2 DEF Terminate, Kill
      <3> QED BY <1>3, <2>1, <3>1, <3>2 DEF Dies
    <2>3. ASSUME NEW c \in Client, ClientStep(c), ~Terminate(c), ~Kill(c)
          PROVE  proc' = proc
      BY <2>3, Zenon
      DEF ClientStep, Begin, Probe, Prepare, Upload, UploadRename, Chmod, Move,
          CleanUp, WriteVersion, ReadPid, VerifyPid, UnlinkSocket, RunBootstrap,
          TakeAnswer, Connect, procs
    <2>4. ASSUME NEW c \in Client, CommandFails(c) \/ ClientDies(c)  PROVE proc' = proc
      BY <2>4 DEF CommandFails, ClientDies, procs
    <2>5. ASSUME NEW c \in Client, BootStep(c)  PROVE proc' = proc
      BY <1>2, <2>5 DEF BootStep, BootProbe, BootSpawn, BootWritePid, BootWait, procs, Ancient
    <2>6. ASSUME NEW q \in Proc, Serve(q) \/ DaemonCrashes(q) \/ ReuseNumber(q)
          PROVE  proc' = proc
      <3>1. proc[q] \in {"none", "serving"} /\ (q # p => proc[q] = "none")
        BY <1>2 DEF Ancient
      <3>2. DaemonCrashes(q) /\ q = p
        BY <2>6, <3>1
        DEF Serve, ServeUnlink, ServeBind, DaemonCrashes, Living, ReuseNumber
      <3> QED BY <1>3, <2>1, <3>2 DEF DaemonCrashes, Dies
    <2>7. CASE UNCHANGED deployVars BY <2>7 DEF deployVars, procs
    <2> QED BY <2>2, <2>3, <2>4, <2>5, <2>6, <2>7, Zenon DEF DeployNext
  <1>6. socket' = p /\ pidfile' = p
    <2>1. ASSUME NEW c \in Client  PROVE ~UnlinkSocket(c)
      <3>1. stopped[c] => pid[c] = p /\ Gone(p) BY <1>2 DEF StopInv, Ancient
      <3>2. ~Gone(p) BY <1>2 DEF Gone, Ancient
      <3> QED BY <3>1, <3>2 DEF UnlinkSocket, StopInv
    <2>2. ASSUME NEW c \in Client, ClientStep(c)  PROVE socket' = socket /\ pidfile' = pidfile
      BY <2>1, <2>2, Zenon
      DEF ClientStep, Begin, Probe, Prepare, Upload, UploadRename, Chmod, Move,
          CleanUp, WriteVersion, ReadPid, VerifyPid, Terminate, Kill, RunBootstrap,
          TakeAnswer, Connect, files
    <2>3. ASSUME NEW c \in Client, CommandFails(c) \/ ClientDies(c)
          PROVE  socket' = socket /\ pidfile' = pidfile
      BY <2>3 DEF CommandFails, ClientDies, files
    <2>4. ASSUME NEW c \in Client, BootStep(c)  PROVE socket' = socket /\ pidfile' = pidfile
      BY <1>2, <2>4 DEF BootStep, BootProbe, BootSpawn, BootWritePid, BootWait, files, Ancient
    <2>5. ASSUME NEW q \in Proc, Serve(q) \/ DaemonCrashes(q) \/ ReuseNumber(q)
          PROVE  socket' = socket /\ pidfile' = pidfile
      <3>1. proc[q] \in {"none", "serving"} BY <1>2 DEF Ancient
      <3>2. ~Serve(q) BY <3>1 DEF Serve, ServeUnlink, ServeBind
      <3> QED BY <2>5, <3>2, Zenon DEF DaemonCrashes, ReuseNumber, files
    <2>6. UNCHANGED deployVars => socket' = socket /\ pidfile' = pidfile
      BY DEF deployVars, files
    <2>7. socket' = socket /\ pidfile' = pidfile
      BY <2>2, <2>3, <2>4, <2>5, <2>6, Zenon DEF DeployNext
    <2>8. socket = p /\ pidfile = p BY <1>2 DEF Ancient
    <2> QED BY <2>7, <2>8
  <1>7. \A d \in Client : pid'[d] \in {0, p}
    <2>1. \A d \in Client : pid[d] \in {0, p} /\ pidfile = p BY <1>2 DEF Ancient
    <2>2. ASSUME NEW c \in Client, ReadPid(c)  PROVE \A d \in Client : pid'[d] \in {0, p}
      BY <1>3, <2>1, <2>2 DEF ReadPid
    <2>3. ASSUME NEW c \in Client, ClientStep(c), ~ReadPid(c)  PROVE pid' = pid
      BY <2>3, Zenon
      DEF ClientStep, Begin, Probe, Prepare, Upload, UploadRename, Chmod, Move,
          CleanUp, WriteVersion, VerifyPid, Terminate, Kill, UnlinkSocket, RunBootstrap,
          TakeAnswer, Connect, locals
    <2>4. ASSUME NEW c \in Client, CommandFails(c) \/ ClientDies(c)  PROVE pid' = pid
      BY <2>4 DEF CommandFails, ClientDies, locals
    <2>5. CASE UNCHANGED deployVars BY <2>1, <2>5 DEF deployVars, locals
    <2> QED BY <2>1, <2>2, <2>3, <2>4, <2>5, LocalsStay DEF DeployNext
  <1> QED BY <1>2, <1>4, <1>5, <1>6, <1>7 DEF Ancient

(* What a client that is connected talks to, if it stopped a daemon.       *)
Talking ==
  \A c \in Client :
    /\ talks[c] # 0 => proc[talks[c]] # "none"
    /\ stopped[c] /\ pc[c] = "connected" => talks[c] # 0 /\ runs[talks[c]] \in Ours

(* A client gets a connection only by connecting to a daemon that serves.  *)
LEMMA ConnectionsCome ==
  ASSUME DeployTypeOK, [DeployNext]_deployVars, NEW d \in Client
  PROVE  /\ talks'[d] = talks[d] \/ (Serves(socket) /\ talks'[d] = socket)
         /\ pc'[d] = "connected" =>
              /\ stopped'[d] = stopped[d]
              /\ \/ pc[d] = "connected" /\ talks'[d] = talks[d]
                 \/ Serves(socket) /\ talks'[d] = socket
  <1>1. pc \in [Client -> Steps] /\ talks \in [Client -> 0..MaxProc] BY DEF DeployTypeOK
  <1>2. CASE \E c \in Client : ClientStep(c) /\ c # d BY <1>2, OthersStay
  <1>3. CASE ClientStep(d)
    <2> USE <1>1 DEF Answered, locals
    <2>1. CASE Connect(d) BY <2>1 DEF Connect
    <2>2. CASE Terminate(d) \/ Kill(d) BY <2>2 DEF Terminate, Kill
    <2>3. CASE ~Connect(d) /\ ~Terminate(d) /\ ~Kill(d)
      <3>1. talks' = talks /\ stopped' = stopped
        BY <1>3, <2>3, Zenon
        DEF ClientStep, Begin, Probe, Prepare, Upload, UploadRename, Chmod, Move, CleanUp,
            WriteVersion, ReadPid, VerifyPid, UnlinkSocket, RunBootstrap, TakeAnswer
      <3>2. pc'[d] # "connected"
        <4>1. CASE Begin(d) BY <4>1 DEF Begin
        <4>2. CASE Probe(d) BY <4>2 DEF Probe
        <4>3. CASE Prepare(d) \/ CleanUp(d) BY <4>3 DEF Prepare, CleanUp
        <4>4. CASE Upload(d) \/ UploadRename(d) BY <4>4 DEF Upload, UploadRename
        <4>5. CASE Chmod(d) \/ Move(d) BY <4>5 DEF Chmod, Move
        <4>6. CASE WriteVersion(d) BY <4>6 DEF WriteVersion, AfterDeploy
        <4>7. CASE ReadPid(d) \/ VerifyPid(d) BY <4>7 DEF ReadPid, VerifyPid
        <4>8. CASE UnlinkSocket(d) \/ RunBootstrap(d) \/ TakeAnswer(d)
          BY <4>8 DEF UnlinkSocket, RunBootstrap, TakeAnswer
        <4> QED BY <1>3, <2>3, <4>1, <4>2, <4>3, <4>4, <4>5, <4>6, <4>7, <4>8, Zenon
            DEF ClientStep
      <3> QED BY <3>1, <3>2
    <2> QED BY <2>1, <2>2, <2>3
  <1>4. ASSUME NEW c \in Client, CommandFails(c) \/ ClientDies(c)
        PROVE  talks' = talks /\ stopped' = stopped /\ (pc'[d] = "connected" => pc'[d] = pc[d])
    <2>1. OnError(pc[c]) # "connected" BY DEF OnError
    <2> QED BY <1>1, <1>4, <2>1 DEF CommandFails, ClientDies, locals
  <1>5. CASE \/ \E c \in Client : BootStep(c)
             \/ \E p \in Proc : Serve(p) \/ DaemonCrashes(p) \/ ReuseNumber(p)
    BY <1>5, LocalsStay
  <1>6. CASE UNCHANGED deployVars BY <1>6 DEF deployVars, locals
  <1> QED BY <1>2, <1>3, <1>4, <1>5, <1>6 DEF DeployNext

(* Who has stopped a daemon and connects cannot meet one of such a build:  *)
(* the number it stopped would be that daemon's.                           *)
LEMMA TalkingKept ==
  ASSUME DeployTypeOK, StopInv, StaleInv, Talking, [DeployNext]_deployVars
  PROVE  Talking'
  <1>1. /\ talks \in [Client -> 0..MaxProc] /\ socket \in 0..MaxProc
        /\ \A p \in (0..MaxProc) \ {0} : p \in Proc
    BY DeployAssumption DEF DeployTypeOK, Proc, DeployAssumption
  <1> SUFFICES ASSUME NEW d \in Client
               PROVE  /\ talks'[d] # 0 => proc'[talks'[d]] # "none"
                      /\ stopped'[d] /\ pc'[d] = "connected" =>
                           talks'[d] # 0 /\ runs'[talks'[d]] \in Ours
    BY DEF Talking
  <1>2. talks'[d] # 0 => proc[talks'[d]] # "none" /\ talks'[d] \in Proc
    BY <1>1, ConnectionsCome DEF Talking, Serves
  <1>3. talks'[d] # 0 => /\ proc'[talks'[d]] # "none"
                         /\ runs'[talks'[d]] = runs[talks'[d]]
    BY <1>2, GoneStays
  <1>4. ASSUME stopped[d], Serves(socket)  PROVE runs[socket] \in Ours
    <2>1. SUFFICES ASSUME runs[socket] \notin Ours  PROVE FALSE
      OBVIOUS
    <2>2. socket \in Proc /\ proc[socket] = "serving" BY <1>1, <1>4 DEF Serves
    <2>3. Ancient(socket) BY <1>4, <2>1, <2>2 DEF StaleInv, Stale, Living, Serves
    <2>4. pid[d] = socket /\ Gone(socket) BY <1>4, <2>3 DEF Ancient, StopInv
    <2> QED BY <2>2, <2>4 DEF Gone
  <1>5. ASSUME stopped'[d], pc'[d] = "connected"
        PROVE  talks'[d] # 0 /\ runs[talks'[d]] \in Ours
    <2>1. stopped[d] BY <1>5, ConnectionsCome
    <2>2. CASE pc[d] = "connected" /\ talks'[d] = talks[d] BY <2>1, <2>2 DEF Talking
    <2>3. CASE Serves(socket) /\ talks'[d] = socket BY <1>4, <2>1, <2>3 DEF Serves
    <2> QED BY <1>5, <2>2, <2>3, ConnectionsCome
  <1> QED BY <1>3, <1>5

LEMMA UpgradeFirst ==
  ASSUME DeployInit  PROVE InPlace /\ StaleInv /\ Talking
  <1>1. /\ \A c \in Client : /\ pc[c] = "idle" /\ boot[c] = "none" /\ pid[c] = 0
                             /\ talks[c] = 0 /\ ~stopped[c]
        /\ pidfile = socket
    BY DEF DeployInit
  <1>2. InPlace /\ Talking BY <1>1 DEF InPlace, Talking, Starters
  <1>3. ASSUME NEW p \in Proc, Stale(p)  PROVE Ancient(p)
    <2>1. /\ p = 1 /\ socket = 1 /\ proc[p] = "serving"
          /\ \A q \in Proc \ {p} : proc[q] = "none"
      BY <1>3 DEF DeployInit, Stale, Living
    <2> QED BY <1>1, <2>1 DEF Ancient
  <1> QED BY <1>2, <1>3 DEF StaleInv

(* open_remote_session and restart_remote_daemon: whoever stopped a daemon *)
(* and connects talks to one of a build that a client has brought, never   *)
(* to the one that was there, however many others open and restart at the  *)
(* same time. The clients may be of any builds, with copies of their own;  *)
(* none lists or attaches: those bootstrap without a look at the version,  *)
(* and a daemon so started from the old binary can take the socket after   *)
(* the old daemon was stopped.                                             *)
THEOREM UpgradesTakeEffect ==
  ASSUME OwnBuilds, NoLists
  PROVE  DeploySpec => []UpgradeTakesEffect
  <1>1. Talking => UpgradeTakesEffect
    BY DEF Talking, UpgradeTakesEffect, OwnBuilds, OwnCopies, Ours
  <1>2. DeployInit => InPlace /\ StaleInv /\ Talking BY UpgradeFirst
  <1>3. DeploySpec => []InPlace
    BY <1>2, DeployTypes, BuildInvariant, InPlaceKept, PTL DEF DeploySpec
  <1>4. DeploySpec => []StaleInv
    BY <1>2, <1>3, DeployTypes, StopInvariant, StaleKept, PTL DEF DeploySpec
  <1>5. DeploySpec => []Talking
    BY <1>2, <1>4, DeployTypes, StopInvariant, TalkingKept, PTL DEF DeploySpec
  <1> QED BY <1>1, <1>5, PTL
=============================================================================
