--------------------------- MODULE SshHandleProofs ---------------------------
(***************************************************************************)
(* Theorems about connecting and about the handle, for any hosts, jumps,   *)
(* keys, known_hosts files, identities and commands, and any number of     *)
(* attempts, jobs and missed pings: only known hosts are trusted, no       *)
(* identity is skipped (RightHost), and nothing that a connection still    *)
(* had to give is cut off (NotCutShort).                                   *)
(***************************************************************************)
EXTENDS SshHandle, TLAPS

Steps == Ended \cup Connecting \cup
           {"new", "resolve", "password", "tunnel", "channel", "shell", "exec"}
Messages == {"data", "exit 0", "exit 1"} \cup Ends
Record == [pc : Steps, kind : {"open", "password", "exec", "stream"},
           chain : Seq(Hosts), hop : Nat, key : Keys \cup {NoKey},
           prior : SUBSET Keys, tries : Nat, script : Seq(Messages),
           lost : BOOLEAN, code : Messages \cup {"none"},
           error : {"none", "ConnectFailed", "InvalidArgument", "AuthFailed",
                    "ChannelError", "HostKeyRejected"}]

ConnectTyped ==
  /\ TypeOK
  /\ known \in Seq(SUBSET ((Hosts \X Keys) \cup {Damage}))
  /\ present \in [Hosts -> Keys] /\ att \in [Attempts -> Record]

(* What an attempt has made up is there when it is needed, and what it     *)
(* counts starts at zero on every hop.                                     *)
Placed(r) ==
  /\ r.pc \in {"new", "resolve"} => r.hop = 0
  /\ r.pc = "resolve" => r.chain # <<>>
  /\ r.pc \notin {"new", "resolve", "failed"} => r.hop \in 1..Len(r.chain)
  /\ r.pc \in {"key", "learn"} => r.key \in Keys
  /\ r.pc \notin {"agent", "files"} => r.tries = 0
  /\ r.pc \notin {"exec", "done", "failed"} => r.script = <<>>
  /\ r.pc = "password" => r.kind = "password"

(* The identities tried so far, of those that the server looks at, are not *)
(* good there.                                                             *)
Identities == Agent \o Files
Useless(r, m) == \A n \in 1..Len(Identities) :
  n <= m /\ n <= MaxTries => Identities[n] \notin Good[r.chain[r.hop]]
Tried(r) ==
  /\ r.pc = "agent" => r.tries <= Len(Agent) /\ Useless(r, r.tries)
  /\ r.pc = "files" => /\ r.tries \in Len(Agent)..Len(Identities)
                       /\ Useless(r, r.tries)
  /\ r.pc = "failed" /\ r.error = "AuthFailed" /\ r.kind # "password"
       => Useless(r, MaxTries)

(* What a command still has to send ends, and in that order.               *)
Whole(r) ==
  /\ r.pc = "exec" =>
       /\ Has(r.script, Ends)
       /\ \A i, j \in DOMAIN r.script :
            i < j /\ r.script[i] \in Ends => r.script[j] # "data"
  /\ r.pc = "done" => \/ ~Has(r.script, {"data"})
                      \/ Has(r.script, Ends) /\ r.lost

(* While the key of a host is in question, the files but the first are as  *)
(* they were when it was dialled, and what has been added to the first is  *)
(* of no kind that the others have a key of.                               *)
Others(h) == {e \in Hosts \X Keys :
                e[1] = h /\ \E f \in Readable : f # 1 /\ e \in known[f]}
NoneLike(S, key) == \A k \in S : Alg[k] # Alg[key]
KeyOf(r) ==
  LET h == r.chain[r.hop] IN
  /\ r.pc = "key" =>
       /\ r.prior \subseteq OnRecord(h)
       /\ \A e \in Others(h) : e[2] \in r.prior
       /\ 1 \in Readable =>
            \A x \in Keys : <<h, x>> \in known[1] =>
              x \in r.prior \/ \A e \in Others(h) : Alg[e[2]] # Alg[x]
  /\ r.pc = "learn" =>
       /\ known # <<>> /\ NoneLike(r.prior, r.key)
       /\ \A e \in Others(h) : Alg[e[2]] # Alg[r.key]
  /\ r.pc \in {"agent", "files", "password"} /\ Strict[h] # "no"
       /\ 1 \in Readable =>
       r.key \in OnRecord(h) /\ (r.key \in r.prior \/ NoneLike(r.prior, r.key))

Fits(r) == Placed(r) /\ Tried(r) /\ Whole(r)
ConnectInv == /\ ConnectTyped
              /\ \A a \in Attempts : Fits(att[a]) /\ KeyOf(att[a])

(* Before there is a terminal the keepalive is off; afterwards no attempt  *)
(* moves.  It counts the pings that went unanswered in a row.              *)
Counted ==
  /\ pings \in Nat
  /\ term = "none" => ka.pc = "off" /\ pings = 0
  /\ ka.pc \in {"sleep", "want", "ping"} => pings = ka.misses /\ pings < MaxMisses
  /\ ka.pc \in {"give up", "disconnect"} => pings = MaxMisses
Nested == \E n \in Nat : linked = 1..n

Phases == {"off", "sleep", "want", "ping", "give up", "disconnect", "ended"}
JobPhases == {"new", "want", "open", "exec", "done", "failed"}
HandleTyped ==
  /\ ka \in [pc : Phases, misses : Nat] /\ jobs \in [Jobs -> JobPhases]
  /\ session \in {"held", "taken"} /\ link \in {"up", "cut"}
  /\ reader \in {"waiting", "ended"}
  /\ closer \in {"idle", "eof", "take", "bastions", "closed", "dropped"}

HandleInv == HandleTyped /\ Counted /\ Nested
SshInv == ConnectInv /\ HandleInv
-----------------------------------------------------------------------------
Errors == {"none", "ConnectFailed", "InvalidArgument", "AuthFailed",
           "ChannelError", "HostKeyRejected"}
Still == UNCHANGED <<known, present, silent, rekeys>>

LEMMA EmptyRecord == Idle \in Record
<1>1. "new" \in Steps /\ <<>> \in Seq(Hosts) /\ <<>> \in Seq(Messages)
  BY DEF Steps
<1>2. QED
  BY <1>1 DEF Idle, Record

(* An attempt may become any record that fits.                             *)
LEMMA Becoming ==
  ASSUME ConnectInv, Still, NEW a \in Attempts, NEW r \in Record, Become(a, r),
         Fits(r), KeyOf(r)
  PROVE  ConnectInv'
<1>1. att' = [att EXCEPT ![a] = r] /\ att \in [Attempts -> Record]
  BY DEF Become, ConnectInv, ConnectTyped
<1>2. ConnectTyped'
  <2>1. att' \in [Attempts -> Record]
    BY <1>1
  <2>2. \A b \in Attempts : att'[b].pc \in Steps
    BY <2>1 DEF Record
  <2>3. QED
    BY <2>1, <2>2 DEF ConnectInv, ConnectTyped, TypeOK, Still, Steps
<1>3. ASSUME NEW b \in Attempts
      PROVE  (Fits(att[b]) /\ KeyOf(att[b]))'
  <2>1. att'[b] = IF b = a THEN r ELSE att[b]
    BY <1>1
  <2>2. Fits(att[b]) /\ KeyOf(att[b])
    BY DEF ConnectInv
  <2>3. known' = known
    BY DEF Still
  <2>4. Fits(att'[b])
    BY <2>1, <2>2
  <2>5. KeyOf(att[b])'
    BY <2>1, <2>2, <2>3 DEF KeyOf, OnRecord, Readable, Others, NoneLike
  <2>6. QED
    BY <2>4, <2>5 DEF Fits, Placed, Tried, Useless, Whole, Has
<1>4. QED
  BY <1>2, <1>3 DEF ConnectInv

LEMMA Failing ==
  ASSUME ConnectInv, Still, NEW a \in Attempts, NEW error \in Errors,
         Fail(a, error), att[a].pc # "failed",
         error = "AuthFailed" => \/ att[a].kind = "password"
                                 \/ att[a].hop > 0 /\ Useless(att[a], MaxTries)
  PROVE  ConnectInv'
<1> DEFINE r == [Idle EXCEPT !.pc = "failed", !.error = error, !.kind = att[a].kind,
                   !.chain = IF att[a].hop > 0 THEN <<Target(a)>> ELSE <<>>,
                   !.hop = 1]
<1>1. att[a] \in Record /\ Placed(att[a])
  BY DEF ConnectInv, ConnectTyped, Fits
<1>2. r \in Record
  <2>1. att[a].hop > 0 => att[a].hop \in 1..Len(att[a].chain)
    BY <1>1 DEF Placed, Record
  <2>2. att[a].hop > 0 => Target(a) \in Hosts
    BY <1>1, <2>1 DEF Target, Record
  <2>3. (IF att[a].hop > 0 THEN <<Target(a)>> ELSE <<>>) \in Seq(Hosts)
    BY <2>2
  <2>4. <<>> \in Seq(Messages) /\ "failed" \in Steps
    BY DEF Steps, Ended
  <2>5. Idle \in Record
    BY <2>4, EmptyRecord
  <2>6. att[a].kind \in {"open", "password", "exec", "stream"}
    BY <1>1 DEF Record
  <2>7. QED
    BY <2>3, <2>4, <2>5, <2>6 DEF Record, Errors
<1>3. Fits(r)
  <2>1. Placed(r) /\ Whole(r)
    BY DEF Placed, Whole, Idle
  <2>2. error = "AuthFailed" /\ att[a].kind # "password" => Useless(r, MaxTries)
    <3>1. SUFFICES ASSUME error = "AuthFailed", att[a].kind # "password"
                   PROVE  Useless(r, MaxTries)
      OBVIOUS
    <3>2. r.chain[r.hop] = att[a].chain[att[a].hop]
      BY <3>1 DEF Target, Idle
    <3>3. QED
      BY <3>1, <3>2 DEF Useless
  <2>3. Tried(r)
    BY <2>2 DEF Tried, Idle
  <2>4. QED
    BY <2>1, <2>3 DEF Fits
<1>4. KeyOf(r)
  BY DEF KeyOf, Idle
<1>5. Become(a, r)
  BY DEF Fail
<1>6. QED
  BY <1>2, <1>3, <1>4, <1>5, Becoming
LEMMA Held ==
  ASSUME ConnectInv, NEW a \in Attempts
  PROVE  /\ att[a] \in Record /\ Fits(att[a]) /\ KeyOf(att[a])
         /\ Placed(att[a]) /\ Tried(att[a]) /\ Whole(att[a])
BY DEF ConnectInv, ConnectTyped, Fits

(* A step that leaves the hop and what is known of its key alone.          *)
LEMMA Onward ==
  ASSUME ConnectInv, Still, NEW a \in Attempts, NEW pc \in Steps, Go(a, pc),
         Fits([att[a] EXCEPT !.pc = pc]), KeyOf([att[a] EXCEPT !.pc = pc])
  PROVE  ConnectInv'
<1>1. [att[a] EXCEPT !.pc = pc] \in Record
  BY Held DEF Record
<1>2. QED
  BY <1>1, Becoming DEF Go

-----------------------------------------------------------------------------
(* Resolving.                                                              *)

LEMMA StartStep ==
  ASSUME ConnectInv, NEW a \in Attempts, NEW c \in Calls, Start(a, c[1], c[2])
  PROVE  ConnectInv'
<1> DEFINE r == [Idle EXCEPT !.pc = "resolve", !.kind = c[1], !.chain = <<c[2]>>]
<1>1. c[1] \in {"open", "password", "exec", "stream"} /\ c[2] \in Hosts
  BY ConnectAssumption
<1>2. <<c[2]>> \in Seq(Hosts) /\ "resolve" \in Steps /\ <<c[2]>> # <<>>
  BY <1>1 DEF Steps
<1>3. r \in Record
  BY <1>1, <1>2, EmptyRecord DEF Record
<1>4. Fits(r)
  BY <1>2 DEF Fits, Placed, Tried, Whole, Idle
<1>5. KeyOf(r)
  BY DEF KeyOf, Idle
<1>6. QED
  BY <1>3, <1>4, <1>5, Becoming DEF Start, Still

LEMMA DescendStep ==
  ASSUME ConnectInv, NEW a \in Attempts, Descend(a)
  PROVE  ConnectInv'
<1> DEFINE via == Via[Last(att[a].chain)]
           r == [att[a] EXCEPT !.chain = Append(att[a].chain, via)]
<1>1. att[a].pc = "resolve" /\ Still /\ via # NoHost
  BY DEF Descend, At, Still
<1>2. CASE Fail(a, "InvalidArgument") \/ Fail(a, "ConnectFailed")
  <2>1. "InvalidArgument" \in Errors /\ "ConnectFailed" \in Errors
    BY DEF Errors
  <2>2. QED
    BY <1>1, <1>2, <2>1, Failing
<1>3. CASE ~Refused(via) /\ Become(a, r)
  <2>1. att[a].chain \in Seq(Hosts) /\ att[a].chain # <<>>
    BY <1>1, Held DEF Record, Placed
  <2>2. via \in Hosts
    <3>1. Len(att[a].chain) \in 1..Len(att[a].chain)
      BY <2>1
    <3>2. Last(att[a].chain) \in Hosts
      BY <2>1, <3>1 DEF Last
    <3>3. QED
      BY <1>1, <1>3, <3>2, ConnectAssumption DEF Refused
  <2>3. Append(att[a].chain, via) \in Seq(Hosts) /\ Append(att[a].chain, via) # <<>>
    BY <2>1, <2>2
  <2>4. r \in Record
    BY <2>3, Held DEF Record
  <2>5. Fits(r)
    BY <1>1, <2>3, <2>4, Held DEF Fits, Placed, Tried, Whole, Record
  <2>6. KeyOf(r)
    BY <1>1, Held DEF KeyOf, Record
  <2>7. QED
    BY <1>1, <1>3, <2>4, <2>5, <2>6, Becoming
<1>4. QED
  BY <1>2, <1>3 DEF Descend, ResolveFails

LEMMA OutermostStep ==
  ASSUME ConnectInv, NEW a \in Attempts, Outermost(a)
  PROVE  ConnectInv'
<1> DEFINE r == [att[a] EXCEPT !.pc = "dial", !.hop = Len(att[a].chain)]
<1>1. att[a].pc = "resolve" /\ Still /\ Become(a, r)
  BY DEF Outermost, At, Still
<1>2. att[a] \in Record /\ att[a].chain \in Seq(Hosts) /\ att[a].chain # <<>>
  BY <1>1, Held DEF Record, Placed
<1>3. Len(att[a].chain) \in Nat /\ Len(att[a].chain) \in 1..Len(att[a].chain)
  BY <1>2
<1>4. r \in Record
  BY <1>2, <1>3 DEF Record, Steps, Connecting
<1>5. Fits(r)
  BY <1>1, <1>2, <1>3, Held DEF Fits, Placed, Tried, Whole, Record
<1>6. KeyOf(r)
  BY <1>2 DEF KeyOf, Record
<1>7. QED
  BY <1>1, <1>4, <1>5, <1>6, Becoming
-----------------------------------------------------------------------------
(* Host keys.                                                              *)

(* A readable file holds nothing but records.                              *)
LEMMA Records ==
  ASSUME ConnectInv, NEW f \in Readable
  PROVE  f \in 1..Len(known) /\ known[f] \subseteq Hosts \X Keys
<1>1. known \in Seq(SUBSET ((Hosts \X Keys) \cup {Damage}))
  BY DEF ConnectInv, ConnectTyped
<1>2. f \in 1..Len(known) /\ Damage \notin known[f]
  BY <1>1 DEF Readable
<1>3. known[f] \in SUBSET ((Hosts \X Keys) \cup {Damage})
  BY <1>1, <1>2
<1>4. QED
  BY <1>2, <1>3

LEMMA Recorded ==
  ASSUME ConnectInv, NEW h \in Hosts
  PROVE  /\ OnRecord(h) \subseteq Keys
         /\ \A k : k \in OnRecord(h) <=> \E f \in Readable : <<h, k>> \in known[f]
<1>1. ASSUME NEW k, k \in OnRecord(h)
      PROVE  k \in Keys /\ \E f \in Readable : <<h, k>> \in known[f]
  <2>1. PICK f \in Readable : \E e \in known[f] : e[1] = h /\ e[2] = k
    BY <1>1 DEF OnRecord
  <2>2. PICK e \in known[f] : e[1] = h /\ e[2] = k
    BY <2>1
  <2>3. e \in Hosts \X Keys
    BY Records
  <2>4. e = <<h, k>> /\ k \in Keys
    BY <2>2, <2>3
  <2>5. QED
    BY <2>4
<1>2. ASSUME NEW k, NEW f \in Readable, <<h, k>> \in known[f]
      PROVE  k \in OnRecord(h)
  <2>1. <<h, k>> \in UNION {known[g] : g \in Readable}
    BY <1>2
  <2>2. <<h, k>>[1] = h /\ <<h, k>>[2] = k
    OBVIOUS
  <2>3. QED
    BY <2>1, <2>2 DEF OnRecord
<1>3. QED
  BY <1>1, <1>2

LEMMA Saying ==
  ASSUME ConnectInv, NEW f \in Readable, NEW h \in Hosts, NEW key \in Keys
  PROVE  /\ InFile(f, h, key) \in {"match", "absent", "changed"}
         /\ InFile(f, h, key) = "match" => <<h, key>> \in known[f]
         /\ InFile(f, h, key) = "absent" => <<h, key>> \notin known[f]
         /\ InFile(f, h, key) # "changed" =>
              \A k \in Keys : <<h, k>> \in known[f] => k = key \/ Alg[k] # Alg[key]
<1> DEFINE mine == {e[2] : e \in {x \in known[f] : x[1] = h}}
<1>1. \A k : <<h, k>> \in known[f] <=> k \in mine
  <2>1. ASSUME NEW k, <<h, k>> \in known[f]
        PROVE  k \in mine
    <3>1. <<h, k>>[1] = h /\ <<h, k>>[2] = k
      OBVIOUS
    <3>2. QED
      BY <2>1, <3>1
  <2>2. ASSUME NEW k \in mine
        PROVE  <<h, k>> \in known[f]
    <3>1. PICK e \in known[f] : e[1] = h /\ e[2] = k
      OBVIOUS
    <3>2. e \in Hosts \X Keys
      BY Records
    <3>3. QED
      BY <3>1, <3>2
  <2>3. QED
    BY <2>1, <2>2
<1>2. InFile(f, h, key) =
        IF \E k \in mine : k # key /\ Alg[k] = Alg[key] THEN "changed"
        ELSE IF key \in mine THEN "match" ELSE "absent"
  BY DEF InFile
<1>3. QED
  BY <1>1, <1>2
LEMMA TargetIsHost ==
  ASSUME ConnectInv, NEW a \in Attempts, att[a].pc \notin {"new", "resolve", "failed"}
  PROVE  Target(a) \in Hosts /\ att[a].hop \in 1..Len(att[a].chain)
<1>1. att[a].chain \in Seq(Hosts) /\ att[a].hop \in 1..Len(att[a].chain)
  BY Held DEF Record, Placed
<1>2. QED
  BY <1>1 DEF Target

LEMMA DialStep ==
  ASSUME ConnectInv, NEW a \in Attempts, Dial(a)
  PROVE  ConnectInv'
<1> DEFINE h == Target(a)
           r == [att[a] EXCEPT !.pc = "key", !.key = present[h],
                               !.prior = OnRecord(h)]
<1>1. att[a].pc = "dial" /\ Still
  BY DEF Dial, At, Still
<1>2. CASE Fail(a, "ConnectFailed")
  <2>1. "ConnectFailed" \in Errors
    BY DEF Errors
  <2>2. QED
    BY <1>1, <1>2, <2>1, Failing
<1>3. CASE Become(a, r)
  <2>1. h \in Hosts /\ att[a] \in Record /\ Placed(att[a])
    BY <1>1, TargetIsHost, Held
  <2>2. present[h] \in Keys /\ OnRecord(h) \subseteq Keys
    BY <2>1, Recorded DEF ConnectInv, ConnectTyped
  <2>3. r \in Record
    BY <2>1, <2>2 DEF Record, Steps, Connecting
  <2>4. Fits(r)
    BY <1>1, <2>1, <2>2, Held DEF Fits, Placed, Tried, Whole, Record
  <2>5. r.pc = "key" /\ r.prior = OnRecord(h) /\ r.chain[r.hop] = h
    BY <2>1 DEF Record, Target
  <2>6. \A e \in Others(h) : e[2] \in OnRecord(h)
    <3>1. TAKE e \in Others(h)
    <3>2. PICK f \in Readable : e \in known[f]
      BY DEF Others
    <3>3. e = <<h, e[2]>>
      BY DEF Others
    <3>4. QED
      BY <2>1, <3>2, <3>3, Recorded
  <2>7. 1 \in Readable => \A x \in Keys : <<h, x>> \in known[1] => x \in OnRecord(h)
    BY <2>1, Recorded
  <2>8. KeyOf(r)
    BY <2>5, <2>6, <2>7 DEF KeyOf
  <2>9. QED
    BY <1>1, <1>3, <2>3, <2>4, <2>8, Becoming
<1>4. QED
  BY <1>2, <1>3 DEF Dial

(* Where the search ends, no earlier file has anything to say.             *)
LEMMA Searching ==
  ASSUME ConnectInv, NEW h \in Hosts, NEW key \in Keys
  PROVE  /\ LookUp(h, key) \in {"match", "changed", "absent"}
         /\ LookUp(h, key) = "absent" =>
              \A f \in Readable : InFile(f, h, key) = "absent"
         /\ LookUp(h, key) = "match" =>
              \E f \in Readable :
                /\ InFile(f, h, key) = "match"
                /\ \A g \in Readable : g < f => InFile(g, h, key) = "absent"
<1> DEFINE hits == {f \in Readable : InFile(f, h, key) # "absent"}
           first == {f \in hits : \A g \in hits : f <= g}
<1>1. LookUp(h, key) = IF hits = {} THEN "absent"
                       ELSE IF \E f \in first : InFile(f, h, key) = "match"
                       THEN "match" ELSE "changed"
  BY DEF LookUp
<1>2. ASSUME NEW f \in first
      PROVE  f \in Readable /\ \A g \in Readable : g < f => InFile(g, h, key) = "absent"
  <2>1. ASSUME NEW g \in Readable, g < f, InFile(g, h, key) # "absent"
        PROVE  FALSE
    <3>1. f <= g
      BY <2>1
    <3>2. f \in 1..Len(known) /\ g \in 1..Len(known) /\ Len(known) \in Nat
      BY Records DEF ConnectInv, ConnectTyped
    <3>3. QED
      BY <2>1, <3>1, <3>2
  <2>2. QED
    BY <2>1
<1>3. QED
  BY <1>1, <1>2

(* What a verdict on a key means for the files.                            *)
LEMMA Judging ==
  ASSUME ConnectInv, NEW a \in Attempts, At(a, "key"), Strict[Target(a)] # "no"
  PROVE  LET h == Target(a)
             key == att[a].key
         IN /\ Verdict(h, key) = "accept" /\ 1 \in Readable =>
                 /\ key \in OnRecord(h)
                 /\ key \in att[a].prior \/ NoneLike(att[a].prior, key)
            /\ Verdict(h, key) = "learn" =>
                 /\ known # <<>> /\ NoneLike(att[a].prior, key)
                 /\ \A e \in Others(h) : Alg[e[2]] # Alg[key]
<1> DEFINE h == Target(a)
           key == att[a].key
           prior == att[a].prior
<1>1. h \in Hosts /\ key \in Keys /\ prior \subseteq Keys
  BY TargetIsHost, Held DEF At, Placed, Record
<1>2. /\ prior \subseteq OnRecord(h)
      /\ \A e \in Others(h) : e[2] \in prior
      /\ 1 \in Readable =>
           \A x \in Keys : <<h, x>> \in known[1] =>
             x \in prior \/ \A e \in Others(h) : Alg[e[2]] # Alg[x]
  BY Held DEF At, KeyOf, Target
<1>3. \A k \in OnRecord(h) : k \in Keys /\ \E f \in Readable : <<h, k>> \in known[f]
  BY <1>1, Recorded
<1>4. ASSUME NEW f \in Readable, f # 1, NEW k \in Keys, <<h, k>> \in known[f]
      PROVE  <<h, k>> \in Others(h)
  BY <1>1, <1>4 DEF Others
<1>5. CASE LookUp(h, key) = "absent"
  <2>1. \A f \in Readable, k \in Keys : <<h, k>> \in known[f] => Alg[k] # Alg[key]
    <3>1. TAKE f \in Readable, k \in Keys
    <3>2. InFile(f, h, key) = "absent"
      BY <1>1, <1>5, Searching
    <3>3. QED
      BY <1>1, <3>2, Saying
  <2>2. NoneLike(prior, key)
    BY <1>2, <1>3, <2>1 DEF NoneLike
  <2>3. \A e \in Others(h) : Alg[e[2]] # Alg[key]
    <3>1. TAKE e \in Others(h)
    <3>2. PICK f \in Readable : e \in known[f]
      BY DEF Others
    <3>3. e = <<h, e[2]>> /\ e[2] \in Keys
      BY DEF Others
    <3>4. QED
      BY <2>1, <3>2, <3>3
  <2>4. Verdict(h, key) # "accept"
    BY <1>5 DEF Verdict
  <2>5. Verdict(h, key) = "learn" => known # <<>>
    BY DEF Verdict
  <2>6. QED
    BY <2>2, <2>3, <2>4, <2>5
<1>6. CASE LookUp(h, key) = "match"
  <2>1. PICK f \in Readable :
          /\ InFile(f, h, key) = "match"
          /\ \A g \in Readable : g < f => InFile(g, h, key) = "absent"
    BY <1>1, <1>6, Searching
  <2>2. <<h, key>> \in known[f] /\ key \in OnRecord(h)
    BY <1>1, <2>1, Saying, Recorded
  <2>3. ASSUME key \notin prior, NEW k \in prior, Alg[k] = Alg[key], 1 \in Readable
        PROVE  FALSE
    <3>1. f = 1
      BY <1>1, <1>2, <1>4, <2>2, <2>3
    <3>2. \A e \in Others(h) : Alg[e[2]] # Alg[key]
      BY <1>1, <1>2, <2>2, <2>3, <3>1
    <3>3. k \in Keys /\ k # key
      BY <1>1, <2>3
    <3>4. PICK g \in Readable : <<h, k>> \in known[g]
      BY <1>2, <1>3, <2>3
    <3>5. g = 1
      BY <1>4, <2>3, <3>2, <3>3, <3>4
    <3>6. QED
      BY <1>1, <2>1, <2>3, <3>1, <3>3, <3>4, <3>5, Saying
  <2>4. Verdict(h, key) # "learn"
    BY <1>6 DEF Verdict
  <2>5. QED
    BY <2>2, <2>3, <2>4 DEF NoneLike
<1>7. CASE LookUp(h, key) = "changed"
  <2>1. Verdict(h, key) = "reject"
    BY <1>7 DEF Verdict
  <2>2. QED
    BY <2>1
<1>8. QED
  BY <1>1, <1>5, <1>6, <1>7, Searching
LEMMA CheckKeyStep ==
  ASSUME ConnectInv, NEW a \in Attempts, CheckKey(a)
  PROVE  ConnectInv'
<1> DEFINE h == Target(a)
           verdict == Verdict(h, att[a].key)
<1>1. att[a].pc = "key" /\ Still
  BY DEF CheckKey, At, Still
<1>2. att[a] \in Record /\ Placed(att[a]) /\ h \in Hosts
  BY <1>1, Held, TargetIsHost
<1>3. CASE Fail(a, "HostKeyRejected")
  <2>1. "HostKeyRejected" \in Errors
    BY DEF Errors
  <2>2. QED
    BY <1>1, <1>3, <2>1, Failing
<1>4. CASE verdict = "accept" /\ Go(a, Authenticate(a))
  <2> DEFINE r == [att[a] EXCEPT !.pc = Authenticate(a)]
  <2>1. Authenticate(a) = IF att[a].kind = "password" THEN "password" ELSE "agent"
    BY DEF Authenticate
  <2>2. Authenticate(a) \in Steps
    BY <2>1 DEF Steps, Connecting
  <2>3. /\ r.pc = Authenticate(a) /\ r.kind = att[a].kind /\ r.chain[r.hop] = h
        /\ r.key = att[a].key /\ r.prior = att[a].prior /\ r.tries = 0
        /\ r.hop = att[a].hop /\ r.chain = att[a].chain /\ r.script = att[a].script
    BY <1>1, <1>2 DEF Record, Target, Placed
  <2>4. Useless(r, 0)
    BY DEF Useless
  <2>5. Fits(r)
    BY <1>1, <1>2, <2>1, <2>3, <2>4, IdentityAssumption
    DEF Fits, Placed, Tried, Whole
  <2>6. KeyOf(r)
    BY <1>1, <1>4, <2>1, <2>3, Judging DEF KeyOf, At
  <2>7. QED
    BY <1>1, <1>4, <2>2, <2>5, <2>6, Onward
<1>5. CASE verdict = "learn" /\ Go(a, "learn")
  <2> DEFINE r == [att[a] EXCEPT !.pc = "learn"]
  <2>1. /\ r.pc = "learn" /\ r.chain[r.hop] = h /\ r.key = att[a].key
        /\ r.prior = att[a].prior /\ r.tries = 0 /\ r.hop = att[a].hop
        /\ r.chain = att[a].chain /\ r.script = att[a].script
    BY <1>1, <1>2 DEF Record, Target, Placed
  <2>2. Fits(r)
    BY <1>1, <1>2, <2>1 DEF Fits, Placed, Tried, Whole
  <2>3. Strict[h] # "no"
    BY <1>5 DEF Verdict
  <2>4. KeyOf(r)
    BY <1>1, <1>5, <2>1, <2>3, Judging DEF KeyOf, At
  <2>5. "learn" \in Steps
    BY DEF Steps, Connecting
  <2>6. QED
    BY <1>1, <1>5, <2>2, <2>4, <2>5, Onward
<1>6. QED
  BY <1>3, <1>4, <1>5 DEF CheckKey

(* Adding a record to the first file leaves the others as they are and     *)
(* takes nothing away.                                                     *)
LEMMA Adding ==
  ASSUME ConnectInv, NEW h \in Hosts, NEW key \in Keys, known # <<>>,
         known' = [known EXCEPT ![1] = @ \cup {<<h, key>>}]
  PROVE  /\ known' \in Seq(SUBSET ((Hosts \X Keys) \cup {Damage}))
         /\ Readable' = Readable
         /\ \A g \in Hosts : Others(g)' = Others(g)
         /\ \A g \in Hosts : OnRecord(g) \subseteq OnRecord(g)'
         /\ 1 \in Readable => key \in OnRecord(h)'
         /\ known'[1] = known[1] \cup {<<h, key>>}
<1> DEFINE File == SUBSET ((Hosts \X Keys) \cup {Damage})
<1>1. known \in Seq(File)
  BY DEF ConnectInv, ConnectTyped
<1>2. 1 \in 1..Len(known) /\ Len(known) \in Nat /\ DOMAIN known = 1..Len(known)
  BY <1>1
<1>3. known[1] \in File /\ known[1] \cup {<<h, key>>} \in File
  BY <1>1, <1>2
<1>4. known' \in Seq(File)
  BY <1>1, <1>2, <1>3
<1>5. /\ DOMAIN known' = DOMAIN known
      /\ known'[1] = known[1] \cup {<<h, key>>}
      /\ \A f \in DOMAIN known : f # 1 => known'[f] = known[f]
  BY <1>2
<1>6. Damage # <<h, key>>
  BY KeyAssumption
<1>7. Readable' = Readable
  BY <1>5, <1>6 DEF Readable
<1>8. Readable \subseteq DOMAIN known
  BY DEF Readable
<1>9. \A g \in Hosts : Others(g)' = Others(g)
  BY <1>5, <1>7, <1>8 DEF Others
<1>10. \A g \in Hosts : OnRecord(g) \subseteq OnRecord(g)'
  <2>1. UNION {known[f] : f \in Readable} \subseteq UNION {known'[f] : f \in Readable}
    BY <1>5, <1>8
  <2>2. QED
    BY <1>7, <2>1 DEF OnRecord
<1>11. 1 \in Readable => key \in OnRecord(h)'
  <2>1. SUFFICES ASSUME 1 \in Readable
                 PROVE  key \in OnRecord(h)'
    OBVIOUS
  <2>2. <<h, key>> \in UNION {known'[f] : f \in Readable'}
    BY <1>5, <1>7, <2>1
  <2>3. <<h, key>>[1] = h /\ <<h, key>>[2] = key
    OBVIOUS
  <2>4. QED
    BY <2>2, <2>3 DEF OnRecord
<1>12. QED
  BY <1>4, <1>5, <1>7, <1>9, <1>10, <1>11

LEMMA LearnStep ==
  ASSUME ConnectInv, NEW a \in Attempts, Learn(a)
  PROVE  ConnectInv'
<1> DEFINE r == [att[a] EXCEPT !.pc = Authenticate(a)]
<1>1. att[a].pc = "learn" /\ UNCHANGED <<present, silent, rekeys>>
  BY DEF Learn, At
<1>2. att[a] \in Record /\ Placed(att[a])
  BY Held
<1>3. PICK h \in Hosts, key \in Keys : h = Target(a) /\ key = att[a].key
  BY <1>1, Held, TargetIsHost DEF Placed
<1>4. CASE Fail(a, "HostKeyRejected") /\ UNCHANGED known
  <2>1. "HostKeyRejected" \in Errors
    BY DEF Errors
  <2>2. QED
    BY <1>1, <1>4, <2>1, Failing DEF Still
<1>5. CASE /\ known' = [known EXCEPT ![1] = @ \cup {<<h, key>>}]
           /\ Go(a, Authenticate(a))
  <2>1. /\ known # <<>> /\ NoneLike(att[a].prior, key)
        /\ \A e \in Others(h) : Alg[e[2]] # Alg[key]
    BY <1>1, <1>3, Held DEF KeyOf, Target
  <2>2. /\ known' \in Seq(SUBSET ((Hosts \X Keys) \cup {Damage}))
        /\ Readable' = Readable
        /\ \A g \in Hosts : Others(g)' = Others(g)
        /\ \A g \in Hosts : OnRecord(g) \subseteq OnRecord(g)'
        /\ 1 \in Readable => key \in OnRecord(h)'
        /\ known'[1] = known[1] \cup {<<h, key>>}
    BY <1>3, <1>5, <2>1, Adding
  <2>3. Authenticate(a) = IF att[a].kind = "password" THEN "password" ELSE "agent"
    BY DEF Authenticate
  <2>4. Authenticate(a) \in Steps
    BY <2>3 DEF Steps, Connecting
  <2>5. r \in Record
    BY <1>2, <2>4 DEF Record
  <2>6. /\ r.pc = Authenticate(a) /\ r.kind = att[a].kind /\ r.chain[r.hop] = h
        /\ r.key = key /\ r.prior = att[a].prior /\ r.tries = 0
        /\ r.hop = att[a].hop /\ r.chain = att[a].chain /\ r.script = att[a].script
    BY <1>1, <1>2, <1>3 DEF Record, Target, Placed
  <2>7. Fits(r)
    <3>1. Useless(r, 0)
      BY DEF Useless
    <3>2. QED
      BY <1>1, <1>2, <2>3, <2>6, <3>1, IdentityAssumption
      DEF Fits, Placed, Tried, Whole
  <2>8. att' = [att EXCEPT ![a] = r] /\ att \in [Attempts -> Record]
    BY <1>5 DEF Go, Become, ConnectInv, ConnectTyped
  <2>9. ConnectTyped'
    <3>1. att' \in [Attempts -> Record]
      BY <2>5, <2>8
    <3>2. \A b \in Attempts : att'[b].pc \in Steps
      BY <3>1 DEF Record
    <3>3. QED
      BY <1>1, <2>2, <3>1, <3>2 DEF ConnectInv, ConnectTyped, TypeOK, Steps
  <2>10. ASSUME NEW b \in Attempts
         PROVE  (Fits(att[b]) /\ KeyOf(att[b]))'
    <3>1. att'[b] = IF b = a THEN r ELSE att[b]
      BY <2>8
    <3>2. Fits(att'[b])
      BY <2>7, <3>1, Held
    <3>3. CASE b = a
      <4>1. KeyOf(att[b])'
        BY <2>1, <2>2, <2>3, <2>6, <3>1, <3>3 DEF KeyOf
      <4>2. QED
        BY <3>2, <4>1 DEF Fits, Placed, Tried, Useless, Whole, Has
    <3>4. CASE b # a /\ att[b].pc \notin {"key", "learn", "agent", "files", "password"}
      BY <3>1, <3>2, <3>4 DEF KeyOf, Fits, Placed, Tried, Useless, Whole, Has
    <3>5. CASE b # a /\ att[b].pc \in {"key", "learn", "agent", "files", "password"}
      <4>1. att'[b] = att[b] /\ KeyOf(att[b])
        BY <3>1, <3>5, Held
      <4>2. PICK g \in Hosts : g = att[b].chain[att[b].hop]
        BY <3>5, TargetIsHost DEF Target
      <4>3. known' # <<>>
        BY <1>5, <2>1
      <4>4. CASE att[b].pc = "key"
        <5>1. att[b].prior \subseteq OnRecord(g)'
          BY <2>2, <4>1, <4>2, <4>4 DEF KeyOf
        <5>2. \A e \in Others(g)' : e[2] \in att[b].prior
          BY <2>2, <4>1, <4>2, <4>4 DEF KeyOf
        <5>3. ASSUME 1 \in Readable', NEW x \in Keys, <<g, x>> \in known'[1]
              PROVE  \/ x \in att[b].prior
                     \/ \A e \in Others(g)' : Alg[e[2]] # Alg[x]
          <6>1. CASE <<g, x>> \in known[1]
            BY <2>2, <4>1, <4>2, <4>4, <5>3, <6>1 DEF KeyOf
          <6>2. CASE <<g, x>> = <<h, key>>
            BY <2>1, <2>2, <4>2, <4>4, <6>2
          <6>3. QED
            BY <2>2, <5>3, <6>1, <6>2
        <5>4. KeyOf(att[b])'
          BY <4>1, <4>2, <4>4, <5>1, <5>2, <5>3 DEF KeyOf
        <5>5. QED
          BY <3>2, <5>4 DEF Fits, Placed, Tried, Useless, Whole, Has
      <4>5. CASE att[b].pc = "learn"
        <5>1. KeyOf(att[b])'
          BY <2>2, <4>1, <4>2, <4>3, <4>5 DEF KeyOf, NoneLike
        <5>2. QED
          BY <3>2, <5>1 DEF Fits, Placed, Tried, Useless, Whole, Has
      <4>6. CASE att[b].pc \notin {"key", "learn"}
        <5>1. KeyOf(att[b])'
          BY <2>2, <4>1, <4>2, <4>6 DEF KeyOf, NoneLike
        <5>2. QED
          BY <3>2, <5>1 DEF Fits, Placed, Tried, Useless, Whole, Has
      <4>7. QED
        BY <4>4, <4>5, <4>6
    <3>6. QED
      BY <3>3, <3>4, <3>5
  <2>11. QED
    BY <2>9, <2>10 DEF ConnectInv
<1>6. QED
  BY <1>3, <1>4, <1>5 DEF Learn
-----------------------------------------------------------------------------
(* Authentication.                                                         *)

LEMMA AuthenticatedStep ==
  ASSUME ConnectInv, Still, NEW a \in Attempts,
         att[a].pc \in {"agent", "files", "password"}, Authenticated(a)
  PROVE  ConnectInv'
<1> DEFINE next == [att[a] EXCEPT !.tries = 0, !.key = NoKey, !.prior = {}]
<1>1. att[a] \in Record /\ Placed(att[a]) /\ att[a].chain \in Seq(Hosts)
      /\ att[a].hop \in Nat
  BY Held DEF Record
<1>2. PICK s \in Record : s = next
  BY <1>1 DEF Record
<1> DEFINE up == [s EXCEPT !.pc = "tunnel", !.hop = @ - 1]
           in == [s EXCEPT !.pc = "channel"]
<1>3. /\ s.hop = att[a].hop /\ s.chain = att[a].chain /\ s.script = att[a].script
      /\ s.tries = 0
  BY <1>1, <1>2 DEF Record
<1>4. att[a].hop \in 1..Len(att[a].chain) /\ att[a].script = <<>>
      /\ Len(att[a].chain) \in Nat
  BY <1>1 DEF Placed
<1>5. "tunnel" \in Steps /\ "channel" \in Steps
  BY DEF Steps
<1>6. CASE s.hop > 1 /\ Become(a, up)
  <2>1. s.hop - 1 \in 1..Len(att[a].chain) /\ s.hop - 1 \in Nat
    BY <1>3, <1>4, <1>6
  <2>2. up \in Record
    <3>1. \A i \in Nat : [s EXCEPT !.pc = "tunnel", !.hop = i] \in Record
      BY <1>5 DEF Record
    <3>2. QED
      BY <2>1, <3>1
  <2>3. /\ up.pc = "tunnel" /\ up.hop = s.hop - 1 /\ up.tries = 0
        /\ up.chain = att[a].chain /\ up.script = <<>>
    BY <1>2, <1>3, <1>4 DEF Record
  <2>4. Fits(up) /\ KeyOf(up)
    BY <2>1, <2>3 DEF Fits, Placed, Tried, Whole, KeyOf
  <2>5. QED
    BY <1>6, <2>2, <2>4, Becoming
<1>7. CASE Become(a, in)
  <2>1. in \in Record
    BY <1>2, <1>5 DEF Record
  <2>2. /\ in.pc = "channel" /\ in.hop = s.hop /\ in.tries = 0
        /\ in.chain = att[a].chain /\ in.script = <<>>
    BY <1>2, <1>3, <1>4 DEF Record
  <2>3. Fits(in) /\ KeyOf(in)
    BY <1>3, <1>4, <2>2 DEF Fits, Placed, Tried, Whole, KeyOf
  <2>4. QED
    BY <1>7, <2>1, <2>3, Becoming
<1>8. QED
  BY <1>2, <1>6, <1>7 DEF Authenticated

(* One more identity that was no use.                                      *)
LEMMA Identity ==
  /\ Identities \in Seq(ToSet(Agent) \cup ToSet(Files))
  /\ Len(Identities) = Len(Agent) + Len(Files)
  /\ Len(Agent) \in Nat /\ Len(Files) \in Nat
  /\ \A n \in 1..Len(Agent) : Identities[n] = Agent[n]
  /\ \A n \in 1..Len(Files) : Identities[Len(Agent) + n] = Files[n]
<1> DEFINE S == ToSet(Agent) \cup ToSet(Files)
<1>1. Agent \in Seq(S) /\ Files \in Seq(S)
  BY IdentityAssumption
<1>2. QED
  BY <1>1 DEF Identities

LEMMA OneMore ==
  ASSUME ConnectInv, NEW a \in Attempts, Useless(att[a], att[a].tries),
         att[a].tries < Len(Identities),
         ~Accepts(a, Identities[att[a].tries + 1])
  PROVE  Useless(att[a], att[a].tries + 1)
<1>1. att[a].tries \in Nat /\ MaxTries \in Nat
  BY Held, ConnectAssumption DEF Record
<1>2. ASSUME NEW n \in 1..Len(Identities), n <= att[a].tries + 1, n <= MaxTries
      PROVE  Identities[n] \notin Good[att[a].chain[att[a].hop]]
  <2>1. CASE n <= att[a].tries
    BY <1>2, <2>1 DEF Useless
  <2>2. CASE n = att[a].tries + 1
    BY <1>1, <1>2, <2>2 DEF Accepts, Target
  <2>3. QED
    BY <1>1, <1>2, <2>1, <2>2
<1>3. QED
  BY <1>2 DEF Useless

LEMMA TryStep ==
  ASSUME ConnectInv, Still, NEW a \in Attempts, att[a].pc \in {"agent", "files"},
         Become(a, [att[a] EXCEPT !.tries = @ + 1]),
         Useless(att[a], att[a].tries + 1), att[a].tries < Len(Identities),
         att[a].pc = "agent" => att[a].tries < Len(Agent)
  PROVE  ConnectInv'
<1> DEFINE r == [att[a] EXCEPT !.tries = @ + 1]
<1>1. att[a] \in Record /\ Placed(att[a]) /\ Tried(att[a]) /\ KeyOf(att[a])
  BY Held
<1>2. att[a].tries \in Nat /\ Len(Agent) \in Nat /\ Len(Identities) \in Nat
  BY <1>1, Identity DEF Record
<1>3. r \in Record
  BY <1>1, <1>2 DEF Record
<1>4. /\ r.pc = att[a].pc /\ r.tries = att[a].tries + 1 /\ r.hop = att[a].hop
      /\ r.chain = att[a].chain /\ r.script = att[a].script /\ r.kind = att[a].kind
      /\ r.key = att[a].key /\ r.prior = att[a].prior
  BY <1>1 DEF Record
<1>5. Useless(r, r.tries)
  BY <1>4 DEF Useless
<1>6. Placed(r) /\ Whole(r)
  BY <1>1, <1>4 DEF Placed, Whole
<1>7. Tried(r)
  BY <1>1, <1>2, <1>4, <1>5 DEF Tried
<1>8. KeyOf(r)
  BY <1>1, <1>4 DEF KeyOf
<1>9. QED
  BY <1>3, <1>6, <1>7, <1>8, Becoming DEF Fits

LEMMA TryAgentStep ==
  ASSUME ConnectInv, NEW a \in Attempts, TryAgent(a)
  PROVE  ConnectInv'
<1>1. att[a].pc = "agent" /\ Still
  BY DEF TryAgent, At, Still
<1>2. /\ att[a] \in Record /\ Placed(att[a]) /\ Tried(att[a]) /\ KeyOf(att[a])
      /\ att[a].tries \in Nat /\ att[a].tries <= Len(Agent)
      /\ Useless(att[a], att[a].tries)
  BY <1>1, Held DEF Record, Tried
<1>3. CASE att[a].tries = Len(Agent) /\ Go(a, "files")
  <2> DEFINE r == [att[a] EXCEPT !.pc = "files"]
  <2>1. /\ r.pc = "files" /\ r.tries = att[a].tries /\ r.hop = att[a].hop
        /\ r.chain = att[a].chain /\ r.script = att[a].script
        /\ r.kind = att[a].kind /\ r.key = att[a].key /\ r.prior = att[a].prior
    BY <1>2 DEF Record
  <2>2. Useless(r, r.tries)
    BY <1>2, <2>1 DEF Useless
  <2>3. r.tries \in Len(Agent)..Len(Identities)
    BY <1>3, <2>1, Identity
  <2>4. Fits(r)
    BY <1>1, <1>2, <2>1, <2>2, <2>3 DEF Fits, Placed, Tried, Whole
  <2>5. KeyOf(r)
    BY <1>1, <1>2, <2>1 DEF KeyOf
  <2>6. "files" \in Steps
    BY DEF Steps, Connecting
  <2>7. QED
    BY <1>1, <1>3, <2>4, <2>5, <2>6, Onward
<1>4. CASE Authenticated(a)
  BY <1>1, <1>4, AuthenticatedStep
<1>5. CASE /\ att[a].tries # Len(Agent)
           /\ ~Accepts(a, Agent[att[a].tries + 1])
           /\ Become(a, [att[a] EXCEPT !.tries = @ + 1])
  <2>1. att[a].tries < Len(Agent) /\ att[a].tries < Len(Identities)
    BY <1>2, <1>5, Identity
  <2>2. Agent[att[a].tries + 1] = Identities[att[a].tries + 1]
    BY <1>2, <2>1, Identity
  <2>3. Useless(att[a], att[a].tries + 1)
    BY <1>2, <1>5, <2>1, <2>2, OneMore
  <2>4. QED
    BY <1>1, <1>5, <2>1, <2>3, TryStep
<1>6. QED
  BY <1>3, <1>4, <1>5 DEF TryAgent

LEMMA TryFilesStep ==
  ASSUME ConnectInv, NEW a \in Attempts, TryFiles(a)
  PROVE  ConnectInv'
<1> DEFINE n == att[a].tries - Len(Agent) + 1
<1>1. att[a].pc = "files" /\ Still
  BY DEF TryFiles, At, Still
<1>2. /\ att[a] \in Record /\ Placed(att[a]) /\ att[a].tries \in Nat
      /\ att[a].tries \in Len(Agent)..Len(Identities)
      /\ Useless(att[a], att[a].tries)
  BY <1>1, Held DEF Record, Tried
<1>3. CASE n > Len(Files) /\ Fail(a, "AuthFailed")
  <2>1. att[a].tries = Len(Identities)
    <3>1. Len(Agent) \in Nat /\ Len(Files) \in Nat /\ att[a].tries \in Nat
          /\ Len(Identities) = Len(Agent) + Len(Files)
      BY <1>2, Identity
    <3>2. att[a].tries <= Len(Identities)
      BY <1>2, <3>1
    <3>3. QED
      BY <1>3, <3>1, <3>2
  <2>2. Useless(att[a], MaxTries)
    BY <1>2, <2>1 DEF Useless
  <2>3. att[a].hop > 0
    BY <1>1, <1>2 DEF Placed
  <2>4. "AuthFailed" \in Errors
    BY DEF Errors
  <2>5. QED
    BY <1>1, <1>3, <2>2, <2>3, <2>4, Failing
<1>4. CASE Authenticated(a)
  BY <1>1, <1>4, AuthenticatedStep
<1>5. CASE /\ ~(n > Len(Files)) /\ ~Accepts(a, Files[n])
           /\ Become(a, [att[a] EXCEPT !.tries = @ + 1])
  <2>1. n \in 1..Len(Files) /\ att[a].tries < Len(Identities)
        /\ att[a].tries + 1 = Len(Agent) + n
    BY <1>2, <1>5, Identity
  <2>2. Files[n] = Identities[att[a].tries + 1]
    BY <2>1, Identity
  <2>3. Useless(att[a], att[a].tries + 1)
    BY <1>2, <1>5, <2>1, <2>2, OneMore
  <2>4. QED
    BY <1>1, <1>5, <2>1, <2>3, TryStep
<1>6. QED
  BY <1>3, <1>4, <1>5 DEF TryFiles

LEMMA PasswordStep ==
  ASSUME ConnectInv, NEW a \in Attempts, Password(a)
  PROVE  ConnectInv'
<1>1. att[a].pc = "password" /\ Still /\ att[a].kind = "password"
  BY Held DEF Password, At, Still, Placed
<1>2. CASE Fail(a, "AuthFailed") \/ Fail(a, "ChannelError")
  <2>1. "AuthFailed" \in Errors /\ "ChannelError" \in Errors
    BY DEF Errors
  <2>2. QED
    BY <1>1, <1>2, <2>1, Failing
<1>3. CASE Authenticated(a)
  BY <1>1, <1>3, AuthenticatedStep
<1>4. QED
  BY <1>2, <1>3 DEF Password
-----------------------------------------------------------------------------
(* Tunnels, channels and commands.                                         *)

LEMMA PlainStep ==
  ASSUME ConnectInv, Still, NEW a \in Attempts,
         att[a].pc \in {"tunnel", "channel", "shell"},
         NEW pc \in {"dial", "shell", "up", "done"}, Go(a, pc)
  PROVE  ConnectInv'
<1> DEFINE r == [att[a] EXCEPT !.pc = pc]
<1>1. att[a] \in Record /\ Placed(att[a])
  BY Held
<1>2. /\ r.pc = pc /\ r.tries = 0 /\ r.hop = att[a].hop /\ r.script = <<>>
      /\ r.chain = att[a].chain
  BY <1>1 DEF Record, Placed
<1>3. ~Has(r.script, {"data"})
  BY <1>2 DEF Has
<1>4. Fits(r) /\ KeyOf(r)
  BY <1>1, <1>2, <1>3 DEF Fits, Placed, Tried, Whole, KeyOf
<1>5. pc \in Steps
  BY DEF Steps, Ended, Connecting
<1>6. QED
  BY <1>4, <1>5, Onward

LEMMA TunnelStep ==
  ASSUME ConnectInv, NEW a \in Attempts, Tunnel(a)
  PROVE  ConnectInv'
<1>1. att[a].pc = "tunnel" /\ Still
  BY DEF Tunnel, At, Still
<1>2. CASE Fail(a, "ConnectFailed")
  <2>1. "ConnectFailed" \in Errors
    BY DEF Errors
  <2>2. QED
    BY <1>1, <1>2, <2>1, Failing
<1>3. CASE Go(a, "dial")
  BY <1>1, <1>3, PlainStep
<1>4. QED
  BY <1>2, <1>3 DEF Tunnel

LEMMA ChannelStep ==
  ASSUME ConnectInv, NEW a \in Attempts, Channel(a)
  PROVE  ConnectInv'
<1>1. att[a].pc = "channel" /\ Still
  BY DEF Channel, At, Still
<1>2. CASE Fail(a, "ChannelError")
  <2>1. "ChannelError" \in Errors
    BY DEF Errors
  <2>2. QED
    BY <1>1, <1>2, <2>1, Failing
<1>3. CASE Go(a, "shell")
  BY <1>1, <1>3, PlainStep
<1>4. ASSUME NEW s \in Scripts,
             Become(a, [att[a] EXCEPT !.pc = "exec", !.script = s])
      PROVE  ConnectInv'
  <2> DEFINE r == [att[a] EXCEPT !.pc = "exec", !.script = s]
  <2>1. att[a] \in Record /\ Placed(att[a])
    BY Held
  <2>2. /\ s \in Seq(Messages) /\ Has(s, Ends)
        /\ \A i, j \in DOMAIN s : i < j /\ s[i] \in Ends => s[j] # "data"
    BY ScriptAssumption DEF Messages
  <2>3. r \in Record
    BY <2>1, <2>2 DEF Record, Steps
  <2>4. /\ r.pc = "exec" /\ r.script = s /\ r.tries = 0 /\ r.hop = att[a].hop
        /\ r.chain = att[a].chain
    BY <1>1, <2>1 DEF Record, Placed
  <2>5. Fits(r) /\ KeyOf(r)
    BY <1>1, <2>1, <2>2, <2>4 DEF Fits, Placed, Tried, Whole, KeyOf
  <2>6. QED
    BY <1>1, <1>4, <2>3, <2>5, Becoming
<1>5. QED
  BY <1>2, <1>3, <1>4 DEF Channel

LEMMA StreamStep ==
  ASSUME ConnectInv, NEW a \in Attempts, Stream(a)
  PROVE  ConnectInv'
<1>1. att[a].pc = "channel" /\ Still /\ Go(a, "done")
  BY DEF Stream, At, Still
<1>2. QED
  BY <1>1, PlainStep

LEMMA ShellStep ==
  ASSUME ConnectInv, NEW a \in Attempts, Shell(a)
  PROVE  ConnectInv'
<1>1. att[a].pc = "shell" /\ Still
  BY DEF Shell, At, Still
<1>2. CASE Fail(a, "ChannelError")
  <2>1. "ChannelError" \in Errors
    BY DEF Errors
  <2>2. QED
    BY <1>1, <1>2, <2>1, Failing
<1>3. CASE Go(a, "up")
  BY <1>1, <1>3, PlainStep
<1>4. QED
  BY <1>2, <1>3 DEF Shell

(* What a message leaves of the record.                                    *)
LEMMA Collecting ==
  ASSUME NEW r \in Record, NEW msg \in Messages, r.pc = "exec"
  PROVE  LET c == Collect(r, msg) IN
         /\ c \in Record /\ c.script = r.script /\ c.hop = r.hop
         /\ c.chain = r.chain /\ c.tries = r.tries /\ c.lost = r.lost
         /\ \/ c.pc = "exec" /\ msg \notin Ends
            \/ c.pc \in {"done", "failed"} /\ msg \in Ends
         /\ c.pc = "failed" => c.error # "AuthFailed"
<1>1. CASE msg = "data"
  <2>1. Collect(r, msg) = r /\ msg \notin Ends
    BY <1>1 DEF Collect, Ends
  <2>2. QED
    BY <2>1
<1>2. CASE msg \in {"exit 0", "exit 1"}
  <2>1. Collect(r, msg) = [r EXCEPT !.code = msg]
    <3>1. msg # "data"
      BY <1>2
    <3>2. QED
      BY <1>2, <3>1, Zenon DEF Collect
  <2>2. msg \notin Ends
    BY <1>2 DEF Ends
  <2>3. QED
    BY <2>1, <2>2 DEF Record
<1>3. CASE msg \notin {"data", "exit 0", "exit 1"}
  <2> DEFINE error == Result(r.code)
             pc == IF error = "none" THEN "done" ELSE "failed"
  <2>1. Collect(r, msg) = [r EXCEPT !.pc = pc, !.error = error]
    BY <1>3 DEF Collect
  <2>2. error \in {"none", "ChannelError"}
    BY DEF Result
  <2>3. pc \in {"done", "failed"} /\ pc \in Steps
    BY DEF Steps, Ended
  <2>4. msg \in Ends
    BY <1>3 DEF Messages
  <2> HIDE DEF error, pc
  <2>5. QED
    BY <2>1, <2>2, <2>3, <2>4 DEF Record
<1>4. QED
  BY <1>1, <1>2, <1>3

LEMMA ReceiveStep ==
  ASSUME ConnectInv, NEW a \in Attempts, Receive(a)
  PROVE  ConnectInv'
<1>1. att[a].pc = "exec" /\ Still
  BY DEF Receive, At, Still
<1>2. PICK s \in Seq(Messages) : s = att[a].script
  BY Held DEF Record
<1>3. /\ att[a] \in Record /\ Has(s, Ends) /\ att[a].tries = 0
      /\ \A i, j \in DOMAIN s : i < j /\ s[i] \in Ends => s[j] # "data"
      /\ att[a].hop \in 1..Len(att[a].chain)
  BY <1>1, <1>2, Held DEF Whole, Placed
<1>4. CASE /\ s # <<>>
           /\ Become(a, [Collect(att[a], Head(s)) EXCEPT !.script = Tail(@)])
  <2>1. Head(s) \in Messages /\ Tail(s) \in Seq(Messages)
    BY <1>4
  <2>2. PICK c \in Record :
          /\ c = Collect(att[a], Head(s)) /\ c.script = s
          /\ c.hop = att[a].hop /\ c.chain = att[a].chain /\ c.tries = 0
          /\ \/ c.pc = "exec" /\ Head(s) \notin Ends
             \/ c.pc \in {"done", "failed"} /\ Head(s) \in Ends
          /\ c.pc = "failed" => c.error # "AuthFailed"
    BY <1>1, <1>2, <1>3, <2>1, Collecting
  <2> DEFINE r == [c EXCEPT !.script = Tail(s)]
  <2>3. r \in Record /\ Become(a, r)
    BY <1>4, <2>1, <2>2 DEF Record
  <2>4. /\ r.pc = c.pc /\ r.script = Tail(s) /\ r.hop = c.hop
        /\ r.chain = c.chain /\ r.tries = 0 /\ r.error = c.error
    BY <2>2 DEF Record
  <2>5. \A i \in DOMAIN Tail(s) : i \in Nat /\ i + 1 \in DOMAIN s
                                  /\ Tail(s)[i] = s[i + 1]
    BY <1>4
  <2>6. 1 \in DOMAIN s /\ s[1] = Head(s)
    BY <1>4
  <2>7. Whole(r)
    <3>1. CASE c.pc = "exec"
      <4>1. PICK i \in DOMAIN s : s[i] \in Ends
        BY <1>3 DEF Has
      <4>2. i # 1
        BY <2>2, <2>6, <3>1, <4>1
      <4>3. i \in 1..Len(s) /\ Len(s) \in Nat /\ Len(Tail(s)) = Len(s) - 1
            /\ DOMAIN Tail(s) = 1..Len(Tail(s))
        BY <1>4, <2>1, <4>1
      <4>4. i - 1 \in DOMAIN Tail(s) /\ (i - 1) + 1 = i
        BY <4>2, <4>3
      <4>5. Tail(s)[i - 1] \in Ends
        BY <2>5, <4>1, <4>4
      <4>6. Has(Tail(s), Ends)
        BY <4>4, <4>5 DEF Has
      <4>7. ASSUME NEW m \in DOMAIN Tail(s), NEW n \in DOMAIN Tail(s), m < n,
                   Tail(s)[m] \in Ends
            PROVE  Tail(s)[n] # "data"
        <5>1. m + 1 < n + 1 /\ m + 1 \in DOMAIN s /\ n + 1 \in DOMAIN s
          BY <2>5, <4>7
        <5>2. QED
          BY <1>3, <2>5, <4>7, <5>1
      <4>8. QED
        BY <2>4, <3>1, <4>6, <4>7 DEF Whole
    <3>2. CASE c.pc \in {"done", "failed"}
      <4>1. ASSUME NEW n \in DOMAIN Tail(s)
            PROVE  Tail(s)[n] # "data"
        <5>1. n \in DOMAIN Tail(s) /\ DOMAIN Tail(s) = 1..Len(Tail(s))
          BY <2>1
        <5>2. 1 < n + 1 /\ n + 1 \in DOMAIN s /\ Tail(s)[n] = s[n + 1]
          BY <2>1, <2>5, <5>1
        <5>3. s[1] \in Ends
          BY <2>2, <2>6, <3>2
        <5>4. QED
          BY <1>3, <2>6, <5>2, <5>3
      <4>2. ~Has(Tail(s), {"data"})
        BY <4>1 DEF Has
      <4>3. QED
        BY <2>4, <3>2, <4>2 DEF Whole
    <3>3. QED
      BY <2>2, <3>1, <3>2
  <2>8. Placed(r) /\ Tried(r) /\ KeyOf(r)
    BY <1>3, <2>2, <2>4 DEF Placed, Tried, KeyOf
  <2>9. QED
    BY <1>1, <2>3, <2>7, <2>8, Becoming DEF Fits
<1>5. CASE Become(a, [Collect(att[a], "close") EXCEPT !.lost = TRUE])
  <2>1. "close" \in Messages /\ "close" \in Ends
    BY DEF Messages, Ends
  <2>2. PICK c \in Record :
          /\ c = Collect(att[a], "close") /\ c.script = s
          /\ c.hop = att[a].hop /\ c.chain = att[a].chain /\ c.tries = 0
          /\ c.pc \in {"done", "failed"}
          /\ c.pc = "failed" => c.error # "AuthFailed"
    BY <1>1, <1>2, <1>3, <2>1, Collecting
  <2> DEFINE r == [c EXCEPT !.lost = TRUE]
  <2>3. r \in Record /\ Become(a, r)
    BY <1>5, <2>2 DEF Record
  <2>4. /\ r.pc = c.pc /\ r.script = s /\ r.hop = c.hop /\ r.lost
        /\ r.chain = c.chain /\ r.tries = 0 /\ r.error = c.error
    BY <2>2 DEF Record
  <2>5. Fits(r) /\ KeyOf(r)
    BY <1>3, <2>2, <2>4 DEF Fits, Placed, Tried, Whole, KeyOf
  <2>6. QED
    BY <1>1, <2>3, <2>5, Becoming
<1>6. QED
  BY <1>2, <1>4, <1>5 DEF Receive
LEMMA TimeOutStep ==
  ASSUME ConnectInv, NEW a \in Attempts, TimeOut(a)
  PROVE  ConnectInv'
<1>1. PICK error \in {"ConnectFailed", "ChannelError"} : Fail(a, error)
  BY DEF TimeOut
<1>2. Still /\ att[a].pc # "failed"
  BY DEF TimeOut, Timed, Still, Connecting
<1>3. error \in Errors /\ error # "AuthFailed"
  BY DEF Errors
<1>4. QED
  BY <1>1, <1>2, <1>3, Failing
-----------------------------------------------------------------------------
(* The whole of connecting.                                                *)

(* Nothing that ConnectInv says of the attempts looks at the hosts.        *)
LEMMA HazardStep ==
  ASSUME ConnectInv, NEW h \in Shaky, FallSilent(h) \/ Rekey(h)
  PROVE  ConnectInv'
<1>1. UNCHANGED <<known, att>>
  BY DEF FallSilent, Rekey
<1>2. ConnectTyped'
  <2>1. CASE FallSilent(h)
    BY <2>1, ConnectAssumption DEF FallSilent, ConnectInv, ConnectTyped, TypeOK
  <2>2. CASE Rekey(h)
    <3>1. present' \in [Hosts -> Keys]
      BY <2>2 DEF Rekey, ConnectInv, ConnectTyped
    <3>2. rekeys' \in 0..MaxRekeys
      <4>1. rekeys \in 0..MaxRekeys
        BY DEF ConnectInv, ConnectTyped, TypeOK
      <4>2. MaxRekeys \in Nat /\ rekeys < MaxRekeys /\ rekeys' = rekeys + 1
        BY <2>2, ConnectAssumption DEF Rekey
      <4>3. QED
        BY <4>1, <4>2
    <3>3. QED
      BY <2>2, <3>1, <3>2 DEF Rekey, ConnectInv, ConnectTyped, TypeOK
  <2>3. QED
    BY <2>1, <2>2
<1>3. \A a \in Attempts : (Fits(att[a]) /\ KeyOf(att[a]))'
  BY <1>1, Held DEF Fits, Placed, Tried, Useless, Whole, Has, KeyOf, OnRecord,
                    Readable, Others, NoneLike
<1>4. QED
  BY <1>2, <1>3 DEF ConnectInv

LEMMA ConnectStep == ConnectInv /\ ConnectNext => ConnectInv'
<1> SUFFICES ASSUME ConnectInv, ConnectNext
             PROVE  ConnectInv'
  OBVIOUS
<1>1. CASE Hazard
  BY <1>1, HazardStep DEF Hazard
<1>2. ASSUME NEW a \in Attempts, Begin(a)
      PROVE  ConnectInv'
  BY <1>2, StartStep DEF Begin
<1>3. ASSUME NEW a \in Attempts, Work(a)
      PROVE  ConnectInv'
  BY <1>3, DescendStep, OutermostStep, DialStep, CheckKeyStep, LearnStep,
     TryAgentStep, TryFilesStep, PasswordStep, TunnelStep, ChannelStep,
     StreamStep, ShellStep, ReceiveStep, TimeOutStep DEF Work
<1>4. QED
  BY <1>1, <1>2, <1>3 DEF ConnectNext

(* A record of an attempt that is over, or has not begun.                  *)
LEMMA Settled ==
  ASSUME NEW r \in Record, r.pc \in Ended \cup {"new"}
  PROVE  KeyOf(r) /\ KeyOf(r)'
BY DEF KeyOf, Ended

LEMMA IdleFits == Fits(Idle) /\ Idle.pc = "new"
BY DEF Fits, Placed, Tried, Whole, Idle

LEMMA InitConnect == ConnectInit => ConnectInv
<1> SUFFICES ASSUME ConnectInit
             PROVE  ConnectInv
  OBVIOUS
<1>1. att = [a \in Attempts |-> Idle]
  BY DEF ConnectInit
<1>2. att \in [Attempts -> Record]
  BY <1>1, EmptyRecord
<1>3. present \in [Hosts -> Keys]
      /\ known \in Seq(SUBSET ((Hosts \X Keys) \cup {Damage}))
  BY KeyAssumption DEF ConnectInit
<1>4. \A a \in Attempts : att[a].pc \in Steps
  BY <1>2 DEF Record
<1>5. silent \subseteq Hosts /\ rekeys \in 0..MaxRekeys
  <2>1. MaxRekeys \in Nat /\ silent = {} /\ rekeys = 0
    BY ConnectAssumption DEF ConnectInit
  <2>2. QED
    BY <2>1
<1>6. ConnectTyped
  BY <1>2, <1>3, <1>4, <1>5 DEF ConnectTyped, TypeOK, Steps
<1>7. \A a \in Attempts : Fits(att[a]) /\ KeyOf(att[a])
  BY <1>1, EmptyRecord, IdleFits, Settled
<1>8. QED
  BY <1>6, <1>7 DEF ConnectInv
-----------------------------------------------------------------------------
(* The handle.                                                             *)

LEMMA EstablishStep ==
  ASSUME SshInv, NEW a \in Attempts, Establish(a)
  PROVE  SshInv'
<1>1. ConnectInv /\ HandleTyped /\ Counted /\ Nested
  BY DEF SshInv, HandleInv
<1>2. /\ att' = [b \in Attempts |-> IF b = a THEN att[a] ELSE Idle]
      /\ known' = <<>> /\ rekeys' = 0 /\ UNCHANGED <<present, silent>>
      /\ att[a].pc = "up" /\ term = "none" /\ term' = a
  BY DEF Establish, At
<1>3. ConnectInv'
  <2>1. att[a] \in Record /\ Fits(att[a]) /\ att[a].pc = "up"
    BY <1>1, <1>2, Held
  <2>2. \A b \in Attempts :
          /\ att'[b] \in Record /\ Fits(att'[b])
          /\ att'[b].pc \in Ended \cup {"new"}
    BY <1>2, <2>1, EmptyRecord, IdleFits DEF Ended
  <2>3. att' \in [Attempts -> Record]
    BY <1>2, <2>2
  <2>4. <<>> \in Seq(SUBSET ((Hosts \X Keys) \cup {Damage})) /\ 0 \in 0..MaxRekeys
    <3>1. MaxRekeys \in Nat
      BY ConnectAssumption
    <3>2. QED
      BY <3>1
  <2>5. ConnectTyped'
    BY <1>1, <1>2, <2>2, <2>3, <2>4
    DEF ConnectInv, ConnectTyped, TypeOK, Record, Steps
  <2>6. \A b \in Attempts : KeyOf(att[b])'
    BY <2>2 DEF KeyOf, Ended
  <2>7. QED
    BY <2>2, <2>5, <2>6
    DEF ConnectInv, Fits, Placed, Tried, Useless, Whole, Has
<1>4. HandleInv'
  <2>1. /\ ka' = [pc |-> "sleep", misses |-> 0] /\ linked' = 1..(Len(att[a].chain) - 1)
        /\ UNCHANGED <<lock, session, link, pings, jobs, reader, writer, closer>>
    BY DEF Establish
  <2>2. HandleTyped'
    BY <1>1, <2>1 DEF HandleTyped, Phases
  <2>3. Counted'
    <3>1. ka'.pc = "sleep" /\ ka'.misses = 0
      BY <2>1
    <3>2. pings' = 0 /\ term' # "none"
      BY <1>1, <1>2, <2>1, HandleAssumption DEF Counted
    <3>3. 0 < MaxMisses
      BY HandleAssumption
    <3>4. QED
      BY <3>1, <3>2, <3>3 DEF Counted
  <2>4. Nested'
    <3>1. att[a].chain \in Seq(Hosts) /\ att[a].hop \in 1..Len(att[a].chain)
      BY <1>1, <1>2, Held DEF Record, Placed
    <3>2. Len(att[a].chain) - 1 \in Nat
      BY <3>1
    <3>3. QED
      BY <2>1, <3>2 DEF Nested
  <2>5. QED
    BY <2>2, <2>3, <2>4 DEF HandleInv
<1>5. QED
  BY <1>3, <1>4 DEF SshInv

(* Where nothing of an attempt changes.                                    *)
LEMMA ConnectKept ==
  ASSUME ConnectInv, UNCHANGED connectVars
  PROVE  ConnectInv'
<1>1. UNCHANGED <<known, present, silent, rekeys, att>>
  BY DEF connectVars
<1>2. ConnectTyped'
  BY <1>1 DEF ConnectInv, ConnectTyped, TypeOK
<1>3. \A a \in Attempts : (Fits(att[a]) /\ KeyOf(att[a]))'
  BY <1>1, Held DEF Fits, Placed, Tried, Useless, Whole, Has, KeyOf, OnRecord,
                    Readable, Others, NoneLike
<1>4. QED
  BY <1>2, <1>3 DEF ConnectInv

(* The keepalive counts, and only an answer starts it again.               *)
LEMMA KeepaliveStep ==
  ASSUME HandleInv, Keepalive
  PROVE  HandleInv' /\ UNCHANGED connectVars
<1>1. HandleTyped /\ Counted /\ Nested /\ ka \in [pc : Phases, misses : Nat]
  BY DEF HandleInv, HandleTyped
<1>2. UNCHANGED connectVars /\ UNCHANGED <<term, linked, jobs, reader, closer>>
  BY DEF Keepalive, KaWake, KaLocked, Pong, Miss, KaTake, KaDisconnect, KaStays
<1>3. Nested'
  BY <1>1, <1>2 DEF Nested
<1>4. ka.pc # "off"
  BY DEF Keepalive, KaWake, KaLocked, Pong, Miss, KaTake, KaDisconnect
<1>5. term # "none"
  BY <1>1, <1>4 DEF Counted
<1>6. CASE KaWake
  <2>1. ka' = [ka EXCEPT !.pc = "want"] /\ UNCHANGED <<session, link, pings>>
        /\ ka.pc = "sleep"
    BY <1>6 DEF KaWake
  <2>2. ka'.pc = "want" /\ ka'.misses = ka.misses
        /\ ka' \in [pc : Phases, misses : Nat]
    BY <1>1, <2>1 DEF Phases
  <2>3. QED
    BY <1>1, <1>2, <1>3, <1>5, <2>1, <2>2 DEF HandleInv, HandleTyped, Counted
<1>7. CASE KaLocked
  <2>1. PICK pc \in {"ping", "ended"} : ka' = [ka EXCEPT !.pc = pc]
    BY <1>7 DEF KaLocked
  <2>2. UNCHANGED <<session, link, pings>> /\ ka.pc = "want"
    BY <1>7 DEF KaLocked
  <2>3. ka'.pc = pc /\ ka'.misses = ka.misses
        /\ ka' \in [pc : Phases, misses : Nat]
    BY <1>1, <2>1 DEF Phases
  <2>4. QED
    BY <1>1, <1>2, <1>3, <1>5, <2>2, <2>3 DEF HandleInv, HandleTyped, Counted
<1>8. CASE Pong
  <2>1. ka' = [pc |-> "sleep", misses |-> 0] /\ pings' = 0
        /\ UNCHANGED <<session, link>>
    BY <1>8 DEF Pong
  <2>2. ka' \in [pc : Phases, misses : Nat] /\ 0 < MaxMisses
    BY <2>1, HandleAssumption DEF Phases
  <2>3. QED
    BY <1>1, <1>2, <1>3, <1>5, <2>1, <2>2 DEF HandleInv, HandleTyped, Counted
<1>9. CASE Miss
  <2> DEFINE n == ka.misses + 1
             pc == IF n >= MaxMisses THEN "give up" ELSE "sleep"
  <2>1. /\ ka.pc = "ping" /\ ka' = [pc |-> pc, misses |-> n]
        /\ pings' = (IF pings = MaxMisses THEN pings ELSE pings + 1)
        /\ UNCHANGED <<session, link>>
    BY <1>9 DEF Miss
  <2>2. /\ pings = ka.misses /\ pings < MaxMisses /\ pings \in Nat
        /\ MaxMisses \in Nat
    BY <1>1, <2>1, HandleAssumption DEF Counted
  <2>3. pings' = n /\ n \in Nat /\ n <= MaxMisses
    <3>1. pings # MaxMisses /\ n = pings + 1
      BY <2>2
    <3>2. pings' = pings + 1
      BY <2>1, <3>1
    <3>3. QED
      BY <2>2, <3>1, <3>2
  <2>4. ka' \in [pc : Phases, misses : Nat] /\ ka'.pc = pc /\ ka'.misses = n
    BY <2>1, <2>3 DEF Phases
  <2>5. \/ pc = "give up" /\ n = MaxMisses
        \/ pc = "sleep" /\ n < MaxMisses
    BY <2>2, <2>3
  <2> HIDE DEF n, pc
  <2>6. Counted'
    BY <1>2, <1>5, <2>3, <2>4, <2>5 DEF Counted
  <2>7. QED
    BY <1>1, <1>2, <1>3, <2>1, <2>4, <2>6 DEF HandleInv, HandleTyped
<1>10. CASE KaTake
  <2>1. PICK pc \in {"disconnect", "ended"} : ka' = [ka EXCEPT !.pc = pc]
    BY <1>10 DEF KaTake
  <2>2. ka.pc = "give up" /\ session' \in {session, "taken"}
        /\ UNCHANGED <<link, pings>>
    BY <1>10 DEF KaTake
  <2>3. ka'.pc = pc /\ ka' \in [pc : Phases, misses : Nat]
    BY <1>1, <2>1 DEF Phases
  <2>4. Counted'
    BY <1>1, <1>2, <1>5, <2>2, <2>3 DEF Counted
  <2>5. QED
    BY <1>1, <1>2, <1>3, <2>2, <2>3, <2>4 DEF HandleInv, HandleTyped
<1>11. CASE KaDisconnect
  <2>1. ka' = [ka EXCEPT !.pc = "ended"] /\ link' = "cut"
        /\ UNCHANGED <<session, pings>>
    BY <1>11 DEF KaDisconnect
  <2>2. ka'.pc = "ended" /\ ka' \in [pc : Phases, misses : Nat]
    BY <1>1, <2>1 DEF Phases
  <2>3. Counted'
    BY <1>1, <1>2, <1>5, <2>1, <2>2 DEF Counted
  <2>4. QED
    BY <1>1, <1>2, <1>3, <2>1, <2>2, <2>3 DEF HandleInv, HandleTyped
<1>12. QED
  BY <1>2, <1>6, <1>7, <1>8, <1>9, <1>10, <1>11 DEF Keepalive

LEMMA JobStep ==
  ASSUME HandleInv, NEW j \in Jobs, Ask(j) \/ Work2(j)
  PROVE  HandleInv' /\ UNCHANGED connectVars
<1>1. /\ UNCHANGED connectVars
      /\ UNCHANGED <<term, session, link, linked, ka, pings, reader, closer>>
  BY DEF Ask, Work2, Locked, Opened, OpenFails, ExecEnds, JobStays
<1>2. \E pc \in JobPhases : jobs' = [jobs EXCEPT ![j] = pc]
  BY DEF Ask, Work2, Locked, Opened, OpenFails, ExecEnds, Job, JobPhases
<1>3. HandleTyped'
  BY <1>1, <1>2 DEF HandleInv, HandleTyped
<1>4. Counted' /\ Nested'
  BY <1>1 DEF HandleInv, Counted, Nested
<1>5. QED
  BY <1>1, <1>3, <1>4 DEF HandleInv

LEMMA PtyStep ==
  ASSUME HandleInv, ReadEnds \/ Write \/ WriteEnds
  PROVE  HandleInv' /\ UNCHANGED connectVars
<1>1. /\ UNCHANGED connectVars /\ reader' \in {reader, "ended"}
      /\ UNCHANGED <<term, session, link, linked, ka, pings, jobs, closer>>
  BY DEF ReadEnds, Write, WriteEnds, PtyStays
<1>2. HandleTyped'
  BY <1>1 DEF HandleInv, HandleTyped
<1>3. Counted' /\ Nested'
  BY <1>1 DEF HandleInv, Counted, Nested
<1>4. QED
  BY <1>1, <1>2, <1>3 DEF HandleInv

(* The keepalive that close aborts counts no more.                         *)
LEMMA CloseStep ==
  ASSUME HandleInv, Close
  PROVE  HandleInv' /\ UNCHANGED connectVars
<1>1. /\ UNCHANGED connectVars
      /\ UNCHANGED <<term, session, link, linked, pings, jobs, reader>>
      /\ closer' = "eof" /\ ka' = [ka EXCEPT !.pc = "ended"] /\ term # "none"
  BY DEF Close, CloseStays, Open
<1>2. ka'.pc = "ended" /\ ka' \in [pc : Phases, misses : Nat]
  BY <1>1 DEF HandleInv, HandleTyped, Phases
<1>3. HandleTyped'
  BY <1>1, <1>2 DEF HandleInv, HandleTyped
<1>4. Counted' /\ Nested'
  BY <1>1, <1>2 DEF HandleInv, Counted, Nested
<1>5. QED
  BY <1>1, <1>3, <1>4 DEF HandleInv

LEMMA ClosingStep ==
  ASSUME HandleInv, Closing
  PROVE  HandleInv' /\ UNCHANGED connectVars
<1>1. /\ UNCHANGED connectVars /\ UNCHANGED <<term, ka, pings, jobs, reader>>
      /\ session' \in {session, "taken"} /\ link' \in {link, "cut"}
      /\ closer' \in {closer, "take", "bastions", "closed"}
  BY DEF Closing, CloseEof, CloseTake, CloseBastion, CloseStays
<1>2. HandleTyped'
  BY <1>1 DEF HandleInv, HandleTyped
<1>3. Counted'
  BY <1>1 DEF HandleInv, Counted
<1>4. Nested'
  <2>1. PICK n \in Nat : linked = 1..n
    BY DEF HandleInv, Nested
  <2>2. CASE linked' = linked
    BY <2>1, <2>2 DEF Nested
  <2>3. CASE linked # {} /\ linked' = linked \ {NextBastion}
    <3>1. n \in linked /\ \A k \in linked : n >= k
      BY <2>1, <2>3
    <3>2. NextBastion \in linked /\ \A k \in linked : NextBastion >= k
      BY <3>1 DEF NextBastion
    <3>3. NextBastion = n
      BY <2>1, <3>1, <3>2
    <3>4. linked' = 1..(n - 1) /\ n - 1 \in Nat
      BY <2>1, <2>3, <3>1, <3>3
    <3>5. QED
      BY <3>4 DEF Nested
  <2>4. QED
    BY <2>2, <2>3 DEF Closing, CloseEof, CloseTake, CloseBastion
<1>5. QED
  BY <1>1, <1>2, <1>3, <1>4 DEF HandleInv

LEMMA DropStep ==
  ASSUME HandleInv, Drop
  PROVE  HandleInv' /\ UNCHANGED connectVars
<1>1. /\ UNCHANGED connectVars /\ UNCHANGED <<term, pings, jobs>>
      /\ closer' = "dropped" /\ link' = "cut" /\ linked' = {}
      /\ session' = "taken" /\ reader' = "ended" /\ term # "none"
      /\ ka' = [ka EXCEPT !.pc = "ended"]
  BY DEF Drop, Open
<1>2. ka'.pc = "ended" /\ ka' \in [pc : Phases, misses : Nat]
  BY <1>1 DEF HandleInv, HandleTyped, Phases
<1>3. HandleTyped'
  BY <1>1, <1>2 DEF HandleInv, HandleTyped
<1>4. Counted'
  BY <1>1, <1>2 DEF HandleInv, Counted
<1>5. Nested'
  <2>1. {} = 1..0
    OBVIOUS
  <2>2. QED
    BY <1>1, <2>1 DEF Nested
<1>6. QED
  BY <1>1, <1>3, <1>4, <1>5 DEF HandleInv

LEMMA HandleKept ==
  ASSUME HandleInv, UNCHANGED handleVars
  PROVE  HandleInv'
BY DEF HandleInv, HandleTyped, Counted, Nested, handleVars
-----------------------------------------------------------------------------
LEMMA SshStep == SshInv /\ [Next]_vars => SshInv'
<1> SUFFICES ASSUME SshInv, [Next]_vars
             PROVE  SshInv'
  OBVIOUS
<1>1. ConnectInv /\ HandleInv
  BY DEF SshInv
<1>2. ASSUME NEW a \in Attempts, Establish(a)
      PROVE  SshInv'
  BY <1>2, EstablishStep
<1>3. CASE Keepalive
  BY <1>1, <1>3, KeepaliveStep, ConnectKept DEF SshInv
<1>4. CASE ReadEnds \/ Write \/ WriteEnds
  BY <1>1, <1>4, PtyStep, ConnectKept DEF SshInv
<1>5. CASE Close
  BY <1>1, <1>5, CloseStep, ConnectKept DEF SshInv
<1>6. CASE Closing
  BY <1>1, <1>6, ClosingStep, ConnectKept DEF SshInv
<1>7. CASE Drop
  BY <1>1, <1>7, DropStep, ConnectKept DEF SshInv
<1>8. ASSUME NEW j \in Jobs, Ask(j) \/ Work2(j)
      PROVE  SshInv'
  BY <1>1, <1>8, JobStep, ConnectKept DEF SshInv
<1>9. CASE ConnectNext /\ UNCHANGED handleVars
  BY <1>1, <1>9, ConnectStep, HandleKept DEF SshInv
<1>10. ASSUME NEW h \in Shaky, FallSilent(h), UNCHANGED handleVars
       PROVE  SshInv'
  BY <1>1, <1>10, HazardStep, HandleKept DEF SshInv
<1>11. CASE UNCHANGED vars
  BY <1>1, <1>11, ConnectKept, HandleKept DEF SshInv, vars
<1>12. QED
  BY <1>2, <1>3, <1>4, <1>5, <1>6, <1>7, <1>8, <1>9, <1>10, <1>11
  DEF Next, HandleNext

LEMMA InitSsh == Init => SshInv
<1> SUFFICES ASSUME Init
             PROVE  SshInv
  OBVIOUS
<1>1. ConnectInv
  BY InitConnect DEF Init
<1>2. /\ ka = [pc |-> "off", misses |-> 0] /\ jobs = [j \in Jobs |-> "new"]
      /\ session = "held" /\ link = "up" /\ reader = "waiting"
      /\ closer = "idle" /\ linked = {} /\ pings = 0
  BY DEF Init
<1>3. HandleTyped
  BY <1>2 DEF HandleTyped, Phases, JobPhases
<1>4. Counted
  BY <1>2 DEF Counted
<1>5. Nested
  <2>1. {} = 1..0
    OBVIOUS
  <2>2. QED
    BY <1>2, <2>1 DEF Nested
<1>6. QED
  BY <1>1, <1>3, <1>4, <1>5 DEF SshInv, HandleInv

(* The inductive invariant of connecting and of the handle: what is known  *)
(* of a host's key while it is checked, which identities have been tried,  *)
(* what a command still has to send, how many pings went unanswered and    *)
(* which bastions stand (ssh.rs).                                          *)
THEOREM SshInvariant == Spec => []SshInv
<1>1. Init => SshInv
  BY InitSsh
<1>2. SshInv /\ [Next]_vars => SshInv'
  BY SshStep
<1>3. QED
  BY <1>1, <1>2, PTL DEF Spec

LEMMA Typed == SshInv => HandleTypeOK
BY DEF SshInv, ConnectInv, ConnectTyped, HandleInv, HandleTyped, HandleTypeOK,
       Phases, JobPhases

LEMMA Bound == SshInv => KeysBind
<1> SUFFICES ASSUME SshInv, NEW a \in Attempts, Trusted(a),
                    Strict[Target(a)] # "no", 1 \in Readable
             PROVE  /\ att[a].key \in OnRecord(Target(a))
                    /\ \/ att[a].key \in att[a].prior
                       \/ \A k \in att[a].prior : Alg[k] # Alg[att[a].key]
  BY DEF KeysBind
<1>1. KeyOf(att[a])
  BY Held DEF SshInv
<1>2. QED
  BY <1>1 DEF KeyOf, NoneLike, Trusted, Target

LEMMA Offered == SshInv => GoodKeyFound
<1> SUFFICES ASSUME SshInv, NEW a \in Attempts, At(a, "failed"),
                    att[a].error = "AuthFailed", att[a].kind # "password",
                    NEW n \in 1..MaxTries, n <= Len(Agent) + Len(Files)
             PROVE  (Agent \o Files)[n] \notin Good[Target(a)]
  BY DEF GoodKeyFound
<1>1. Useless(att[a], MaxTries)
  BY Held DEF SshInv, Tried, At
<1>2. n \in 1..Len(Identities) /\ n <= MaxTries
  <2>1. n \in Nat /\ 1 <= n /\ n <= MaxTries
    <3>1. MaxTries \in Nat
      BY ConnectAssumption
    <3>2. QED
      BY <3>1
  <2>2. /\ Len(Identities) = Len(Agent) + Len(Files)
        /\ Len(Agent) \in Nat /\ Len(Files) \in Nat
    BY Identity
  <2>3. n \in Nat /\ 1 <= n /\ n <= Len(Identities) /\ Len(Identities) \in Nat
    BY <2>1, <2>2
  <2>4. QED
    BY <2>1, <2>3
<1>3. Identities[n] \notin Good[Target(a)]
  BY <1>1, <1>2 DEF Useless, Target
<1>4. QED
  BY <1>3 DEF Identities

(* No connection is made to a host whose key is not on record, and no      *)
(* attempt fails while an identity the server would have taken is left     *)
(* (check_server_key, agent_auth_loop, authenticate_with_identity_files).  *)
THEOREM HostsAreRight == Spec => []RightHost
<1>1. SshInv => RightHost
  BY Typed, Bound, Offered DEF RightHost
<1>2. QED
  BY <1>1, SshInvariant, PTL

(* Output is collected whole, the keepalive cuts only what did not answer  *)
(* MaxMisses times in a row, and bastions go from the inside out           *)
(* (SshProvider::exec, keepalive_loop, SshTerminalHandle::close).          *)
THEOREM NothingIsCutShort == Spec => []NotCutShort
<1>1. SshInv => OutputWhole
  <2> SUFFICES ASSUME SshInv, NEW a \in Attempts, At(a, "done")
               PROVE  \/ ~Has(att[a].script, {"data"})
                      \/ Has(att[a].script, Ends) /\ att[a].lost
    BY DEF OutputWhole
  <2>1. Whole(att[a])
    BY Held DEF SshInv
  <2>2. QED
    BY <2>1 DEF Whole, At
<1>2. SshInv => CutOnSilence
  BY DEF SshInv, HandleInv, Counted, CutOnSilence
<1>3. SshInv => InnermostFirst
  BY DEF SshInv, HandleInv, Nested, InnermostFirst
<1>4. SshInv => NotCutShort
  BY <1>1, <1>2, <1>3 DEF NotCutShort
<1>5. QED
  BY <1>4, SshInvariant, PTL
=============================================================================
