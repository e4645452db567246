---------------------------- MODULE HostBootstrap ----------------------------
(***************************************************************************)
(* From a password to a key: BootstrapHost::bootstrap                      *)
(* (src/application/bootstrap.rs), open_session of a host whose policy     *)
(* says auth = "password" (src/application/sessions.rs), and the user      *)
(* names both remember (src/infrastructure/username_store.rs).             *)
(*                                                                         *)
(* One client machine, which has one key to deploy; its calls run side by  *)
(* side, in one process or in several, and share the memory of user names. *)
(* What a host has in an account's authorized_keys is kept by what         *)
(* matters: the keys that work, the keys whose text occurs, and how the    *)
(* last line ends, each key having one line.                               *)
(***************************************************************************)
EXTENDS AuthHelper

CONSTANTS
  Hosts, Keys, Mine,  \* all public keys, and the one that is deployed
  Agent,              \* the keys the ssh-agent answers with
  Identities,         \* the keys of ssh config's identity files: none, or
                      \* Mine is the first of them
  OwnLine,            \* how the line of Mine ends, "comment" or "bare"
  Calls,              \* what is called: functions from calls to <<kind, host>>
                      \* with the kinds "bootstrap", "open" and "persistent",
                      \* an open_session that wants a persistent session
  ConfigUser,         \* host -> the user ssh config names
  OnFile              \* authorized_keys to start with: what keys can be

AuthorizedKeys == [works : SUBSET Keys, text : SUBSET Keys,
                   last : {"ended", "comment", "bare"}, end : Keys]
ASSUME BootstrapAssumption ==
  /\ Mine \in Keys /\ Agent \subseteq Keys /\ Identities \subseteq Keys
  /\ OwnLine \in {"comment", "bare"} /\ ConfigUser \in [Hosts -> Names]
  /\ Calls \subseteq [Requests -> {"bootstrap", "open", "persistent"} \X Hosts]
  /\ OnFile \subseteq [Hosts -> [Names -> AuthorizedKeys]]

VARIABLES
  keys,    \* host -> user -> [works, text, last, end]
  proven,  \* host -> the users a password has been accepted for
  call,    \* call -> what it holds
  content, \* inode -> what is written there: [whole, map]
  memory,  \* the inode of username-memory.json
  temp     \* the inode of username-memory.json.tmp, or 0
vars == <<helperVars, keys, proven, call, content, memory, temp>>

Accounts == [Hosts -> Names \cup {NoName}]
Forgotten == [h \in Hosts |-> NoName]
Torn == [whole |-> FALSE, map |-> Forgotten]
Whole(map) == [whole |-> TRUE, map |-> map]
Over == {"already", "bootstrapped", "cancelled", "timed out", "auth failed",
         "bootstrap failed", "error", "ready"}
CallOK ==
  /\ HelperTypeOK /\ memory \in DOMAIN content /\ temp \in {0} \cup DOMAIN content
  /\ \A j \in Requests :
       call[j].pc \in Over \cup {"new", "key", "prompt", "asking", "password",
         "load", "truncate", "fill", "rename", "remembered", "grep", "append",
         "verify"}

Init ==
  /\ HelperInit
  /\ keys \in OnFile
  /\ proven = [h \in Hosts |-> {}]
  /\ content = <<Whole(Forgotten)>> /\ memory = 1 /\ temp = 0
  /\ \E c \in Calls :
       call = [j \in Requests |->
                 [pc |-> "new", kind |-> c[j][1], host |-> c[j][2],
                  user |-> NoName, right |-> FALSE, map |-> Forgotten, fd |-> 0]]
-----------------------------------------------------------------------------
CallAt(j, pc) == call[j].pc = pc
Goes(j, pc) == call' = [call EXCEPT ![j].pc = pc]
OnlyCall == UNCHANGED <<helperVars, keys, proven, content, memory, temp>>
Account(j) == keys[call[j].host][call[j].user]

(* authenticate_session: the agent's keys first, then the files it is      *)
(* given; any key that the account accepts will do.                        *)
Accepted(j, files) == (Agent \cup files) \cap Account(j).works # {}

(* A torn file is read as an empty memory. *)
Read(ino) == content[ino].map

(* A password and a persistent session are refused together, before        *)
(* anybody is asked.                                                       *)
RefusedTogether(j) == call[j].kind = "persistent"

(* resolve prefers the remembered user. *)
Resolve(j) ==
  LET h == call[j].host
      known == Read(memory)[h]
      pc == CASE call[j].kind = "bootstrap" -> "key"
              [] RefusedTogether(j) -> "error"
              [] OTHER -> "prompt"
  IN
  /\ CallAt(j, "new") /\ OnlyCall
  /\ call' = [call EXCEPT ![j].pc = pc,
                ![j].user = IF known = NoName THEN ConfigUser[h] ELSE known]

(* Connect and try the key; then make sure there is one.                   *)
TryKey(j) ==
  /\ CallAt(j, "key") /\ OnlyCall
  /\ \/ Goes(j, "error")
     \/ Goes(j, IF Accepted(j, Identities) THEN "already" ELSE "prompt")

Ask(j) ==
  /\ CallAt(j, "prompt") /\ Request(j) /\ Goes(j, "asking")
  /\ UNCHANGED <<keys, proven, content, memory, temp>>

Typed(j, name) == IF name = NoName THEN call[j].user ELSE name
(* What the reply makes of the call; the helper's pipe is dropped.         *)
TakeReply(j) ==
  LET reply == ask[j].reply
      boot == call[j].kind = "bootstrap"
  IN
  /\ CallAt(j, "asking") /\ reply # NoReply
  /\ Step(j, [Quiet EXCEPT !.pc = "gone"])
  /\ UNCHANGED <<env, shown, echo, signals, mess, keys, proven, content, memory, temp>>
  /\ CASE reply.kind = "password" ->
            call' = [call EXCEPT ![j].pc = "password", ![j].right = reply.right,
                                 ![j].user = Typed(j, reply.user)]
       [] reply.kind = "cancelled" -> Goes(j, IF boot THEN "cancelled" ELSE "auth failed")
       [] reply.kind = "timeout" -> Goes(j, IF boot THEN "timed out" ELSE "auth failed")
       [] OTHER -> Goes(j, "error")

RememberFirst(j) ==   \* mutant: the name is remembered before it is proven
  /\ CallAt(j, "password") /\ UNCHANGED <<helperVars, keys, content, memory, temp>>
  /\ \/ Goes(j, "error") /\ UNCHANGED proven
     \/ /\ Goes(j, "load")
        /\ proven' = IF call[j].right
                     THEN [proven EXCEPT ![call[j].host] = @ \cup {call[j].user}]
                     ELSE proven

(* Connect again with the password, and for open_session open the shell:   *)
(* either may fail.                                                        *)
LogIn(j) ==
  /\ CallAt(j, "password") /\ UNCHANGED <<helperVars, keys, content, memory, temp>>
  /\ \/ Goes(j, "error") /\ UNCHANGED proven
     \/ ~call[j].right /\ Goes(j, "auth failed") /\ UNCHANGED proven
     \/ /\ call[j].right /\ Goes(j, "load")
        /\ proven' = [proven EXCEPT ![call[j].host] = @ \cup {call[j].user}]
-----------------------------------------------------------------------------
(* username_store::remember: load, then save_to by way of the temporary    *)
(* file, which has one name for all. Whatever fails is only logged.        *)
Load(j) ==
  /\ CallAt(j, "load") /\ OnlyCall
  /\ call' = [call EXCEPT ![j].pc = "truncate",
                ![j].map = [Read(memory) EXCEPT ![call[j].host] = call[j].user]]
MemoryStays == UNCHANGED <<helperVars, keys, proven>>
Truncate(j) ==
  /\ CallAt(j, "truncate") /\ MemoryStays /\ UNCHANGED memory
  /\ \/ Goes(j, "remembered") /\ UNCHANGED <<content, temp>>
     \/ LET ino == IF temp = 0 THEN Len(content) + 1 ELSE temp IN
        /\ temp' = ino
        /\ content' = (IF temp = 0 THEN Append(content, Torn)
                                  ELSE [content EXCEPT ![temp] = Torn])
        /\ call' = [call EXCEPT ![j].pc = "fill", ![j].fd = ino]
(* Over what another call has written in between, both may remain.         *)
Fill(j) ==
  /\ CallAt(j, "fill") /\ MemoryStays /\ UNCHANGED <<memory, temp>>
  /\ \/ Goes(j, "remembered") /\ UNCHANGED content
     \/ /\ Goes(j, "rename")
        /\ \E c \in {Whole(call[j].map)} \cup
                 (IF content[call[j].fd] = Torn THEN {} ELSE {Torn}) :
             content' = [content EXCEPT ![call[j].fd] = c]
Rename(j) ==
  /\ CallAt(j, "rename") /\ MemoryStays /\ UNCHANGED content
  /\ Goes(j, "remembered")
  /\ \/ UNCHANGED <<memory, temp>>
     \/ temp # 0 /\ memory' = temp /\ temp' = 0
Remembered(j) ==
  /\ CallAt(j, "remembered") /\ OnlyCall
  /\ \/ call[j].kind = "open" /\ Goes(j, "ready")
     \/ call[j].kind # "open" /\ (Goes(j, "grep") \/ Goes(j, "error"))
-----------------------------------------------------------------------------
(* The deploy command: the key is looked for as a text, and appended       *)
(* without a newline if it is not found or if a command before the grep    *)
(* failed. Reading the public key, or the command, may fail.               *)
Grep(j) ==
  /\ CallAt(j, "grep") /\ OnlyCall
  /\ \/ Goes(j, "error") \/ Goes(j, "append")
     \/ Mine \in Account(j).text /\ Goes(j, "verify")

Overwrite(file) ==   \* mutant: > for >>
  [works |-> {Mine}, text |-> {Mine}, last |-> "comment", end |-> Mine]

(* A line without its newline swallows the key that is appended; if it has *)
(* no comment, what stood there is spoiled, too. What was swallowed is     *)
(* part of that line's comment from then on.                               *)
AppendKey(file) ==
  [works |-> CASE file.last = "ended" -> file.works \cup {Mine}
               [] file.last = "bare" -> file.works \ {file.end}
               [] OTHER -> file.works,
   text |-> file.text \cup {Mine},
   last |-> IF file.last = "ended" THEN OwnLine ELSE "comment",
   end |-> IF file.last = "ended" THEN Mine ELSE file.end]
(* A command that ends without an exit status counts as done, and one that *)
(* reports an error may have appended.                                     *)
Deploy(j) ==
  /\ CallAt(j, "append") /\ UNCHANGED <<helperVars, proven, content, memory, temp>>
  /\ Goes(j, "error") \/ Goes(j, "verify")
  /\ \/ UNCHANGED keys
     \/ keys' = [keys EXCEPT ![call[j].host][call[j].user] = AppendKey(@)]

TrustDeploy(j) ==   \* mutant: a deployed key is taken to work
  CallAt(j, "verify") /\ OnlyCall /\ Goes(j, "bootstrapped")

(* Connect once more, as the user whose account has the key. *)
Verify(j) ==
  /\ CallAt(j, "verify") /\ OnlyCall
  /\ Goes(j, "error") \/ Goes(j, IF Accepted(j, {Mine}) THEN "bootstrapped" ELSE "bootstrap failed")

Work(j) == \/ Resolve(j) \/ TryKey(j) \/ Ask(j) \/ TakeReply(j) \/ LogIn(j)
           \/ Load(j) \/ Truncate(j) \/ Fill(j) \/ Rename(j) \/ Remembered(j)
           \/ Grep(j) \/ Deploy(j) \/ Verify(j)
Prompt(j) == /\ HelperNext(j)
             /\ UNCHANGED <<keys, proven, call, content, memory, temp>>
Next == \E j \in Requests : Work(j) \/ Prompt(j)

Spec == Init /\ [][Next]_vars
-----------------------------------------------------------------------------
(* A remembered user is one the host has accepted a password for, whatever *)
(* calls for other hosts and users do to the file at the same time.        *)
UserIsProven ==
  \A h \in Hosts : Read(memory)[h] \in proven[h] \cup {NoName}

(* Bootstrapped is only reported when a key of this machine opens the      *)
(* account whose password was given: not always the key just deployed, for *)
(* the agent's are tried first. Where the line of Mine ends without a      *)
(* comment, two calls that append at once may spoil it.                    *)
BootstrappedIsTrue ==
  \A j \in Requests : CallAt(j, "bootstrapped") =>
    Accepted(j, {Mine}) /\ call[j].user \in proven[call[j].host]

(* bootstrap.rs:50-65: a reported bootstrap has the deployed key working.  *)
(* The code does not keep this.                                            *)
DeployedKeyWorks ==
  \A j \in Requests : CallAt(j, "bootstrapped") => Mine \in Account(j).works

(* Neither a remembered user nor a reported bootstrap is unproven.         *)
ProvenOnly == CallOK /\ UserIsProven /\ BootstrappedIsTrue

(* Of the helper: the user is heard, and the terminal is left in order.    *)
HelperServes == Heard /\ EndsTidy

(* Installing a key closes no account to anybody: every key that worked    *)
(* goes on working, but for the key of a last line that has neither a      *)
(* comment nor a newline.                                                  *)
LoginsKept ==
  [][\A h \in Hosts, u \in Names :
       keys[h][u].works \ keys'[h][u].works \subseteq
         (IF keys[h][u].last = "bare" THEN {keys[h][u].end} ELSE {})]_vars
=============================================================================
