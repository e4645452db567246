----------------------------- MODULE AuthHelper -----------------------------
(***************************************************************************)
(* Asking the user for a password: HelperCredentialProvider spawns one     *)
(* termbridge-auth-helper per request                                      *)
(* (src/infrastructure/credential/helper.rs), the helper asks through      *)
(* TERMBRIDGE_ASKPASS, the dialogs of the platform or the terminal         *)
(* (crates/termbridge-auth-helper/src), and its signal guard tidies up     *)
(* when a signal ends it.                                                  *)
(*                                                                         *)
(* All helpers share the one controlling terminal.  The parent's deadline  *)
(* may come at any time; it kills the helper outright, because tokio's     *)
(* start_kill is SIGKILL.                                                  *)
(***************************************************************************)
EXTENDS Integers, Sequences, FiniteSets, SequencesExt

CONSTANTS
  Requests,      \* who asks
  Environments,  \* records [platform, askpass, display, tty]
  Dialogs,       \* platform -> its dialog programs, in order
  Names,         \* user names a user may type
  NoName,        \* none was typed: the caller's own is used
  MaxSignals     \* bound on signals from outside

ASSUME HelperAssumption ==
  /\ MaxSignals \in Nat /\ NoName \notin Names
  /\ Environments \subseteq [platform : DOMAIN Dialogs, askpass : BOOLEAN,
                              display : BOOLEAN, tty : BOOLEAN]
  /\ \A p \in DOMAIN Dialogs : Dialogs[p] \in Seq(STRING \ {"askpass"})

VARIABLES
  env,     \* the environment the helpers run in
  ask,     \* request -> the helper's progress and the parent's reply
  shown,   \* <<request, dialog>> on the screen
  echo,    \* does the terminal echo?
  signals, \* signals sent so far
  mess     \* a helper was killed outright, or by a signal where the guard
           \* did not cover it, or two used the terminal at once
helperVars == <<env, ask, shown, echo, signals, mess>>

NoReply == [kind |-> "none"]
Quiet == [pc |-> "none", n |-> 1, ends |-> <<>>, child |-> FALSE,
          tty |-> FALSE, found |-> TRUE, result |-> NoReply, reply |-> NoReply]

Asking == {"start", "dialogs", "spawned", "dialog", "credui", "tty", "raw",
           "reading", "restore", "respond"}
HelperTypeOK ==
  /\ \A j \in Requests : ask[j].pc \in Asking \cup {"none", "gone"}
  /\ echo \in BOOLEAN /\ mess \in BOOLEAN /\ signals \in 0..MaxSignals

HelperInit ==
  /\ env \in Environments /\ ask = [j \in Requests |-> Quiet]
  /\ shown = {} /\ echo = TRUE /\ signals = 0 /\ mess = FALSE
-----------------------------------------------------------------------------
Password(name, right) == [kind |-> "password", user |-> name, right |-> right]
Cancelled == [kind |-> "cancelled"]
Unavailable == [kind |-> "unavailable"]
Failed == [kind |-> "failed"]
Unsupported == [kind |-> "unsupported"]

(* How a dialog comes to its end: it never starts, it fails for want of a  *)
(* display, the user closes it, at leisure or within FAST_FAIL, submits    *)
(* nothing, or a password. Only zenity also asks for the user name.        *)
Endings(dialog) ==
  {<<e, NoName, FALSE>> : e \in {"broken", "closed", "closed fast", "empty"}}
    \cup ({"typed"} \X (IF dialog = "zenity" THEN Names \cup {NoName} ELSE {NoName})
                    \X BOOLEAN)
Absent == <<"absent", NoName, FALSE>>

(* Dialogs whose exit status or message tells the user's cancel from a     *)
(* failure: yad by 252, osascript by USER_CANCEL_PATTERNS.                 *)
TellsCancel == {"yad", "osascript"}

Hasty(dialog, end) ==   \* mutant: a quick exit is looked at before the cancel
  IF end[1] = "typed" THEN Password(end[2], end[3])
  ELSE IF dialog = "askpass"
  THEN IF end[1] \in {"absent", "broken"} THEN Failed ELSE Cancelled
  ELSE IF end[1] \in {"absent", "broken", "closed fast"} THEN Unavailable ELSE Cancelled

(* classify_dialog and run_askpass. *)
Classify(dialog, end) ==
  IF end[1] = "typed" THEN Password(end[2], end[3])
  ELSE IF dialog = "askpass"
  THEN IF end[1] \in {"absent", "broken"} THEN Failed ELSE Cancelled
  ELSE IF \/ end[1] \in {"absent", "broken"}
          \/ end[1] = "closed fast" /\ dialog \notin TellsCancel
  THEN Unavailable ELSE Cancelled

(* What this helper tries before the terminal.                             *)
Chain == IF env.askpass THEN <<"askpass">>
         ELSE IF env.platform = "linux" /\ ~env.display THEN <<>>
         ELSE Dialogs[env.platform]
-----------------------------------------------------------------------------
At(j, pc) == ask[j].pc = pc
Step(j, r) == ask' = [ask EXCEPT ![j] = r]
To(j, pc) == Step(j, [ask[j] EXCEPT !.pc = pc])
Outcome(j, result) == Step(j, [ask[j] EXCEPT !.pc = "respond", !.result = result])
OnlyAsk == UNCHANGED <<env, shown, echo, signals, mess>>
(* The parent learns something only if it has not given up.                *)
Told(r, reply) == IF r.reply = NoReply THEN [r EXCEPT !.pc = "gone", !.reply = reply]
                                       ELSE [r EXCEPT !.pc = "gone"]

(* request_password: spawn the helper and write the request. *)
Request(j) ==
  /\ At(j, "none") /\ OnlyAsk
  /\ \/ To(j, "start")
     \/ Step(j, [ask[j] EXCEPT !.pc = "gone", !.reply = Failed])

(* main reads the request and asks the platform. *)
BeginAsking(j) == /\ At(j, "start") /\ OnlyAsk
            /\ To(j, IF env.platform = "windows" THEN "credui" ELSE "dialogs")

(* run_dialog: spawn ... *)
Spawn(j) ==
  LET r == ask[j] IN
  /\ At(j, "dialogs") /\ r.n <= Len(Chain) /\ UNCHANGED <<env, echo, signals, mess>>
  /\ \/ /\ Step(j, [r EXCEPT !.n = @ + 1, !.ends = Append(@, Absent)])
        /\ UNCHANGED shown
     \/ /\ To(j, "spawned")
        /\ shown' = shown \cup {<<j, Chain[r.n]>>}
(* ... set_child ... *)
Register(j) ==
  /\ At(j, "spawned") /\ OnlyAsk
  /\ Step(j, [ask[j] EXCEPT !.pc = "dialog", !.child = TRUE])
(* ... wait_with_output, clear_child.  A dialog whose window was not there *)
(* any more when the user came back ends like the others.                  *)
DialogEnds(j) ==
  LET r == ask[j] IN
  /\ At(j, "dialog") /\ UNCHANGED <<env, echo, signals, mess>>
  /\ shown' = shown \ {<<j, Chain[r.n]>>}
  /\ \E end \in Endings(Chain[r.n]) :
       Step(j, [r EXCEPT !.pc = "dialogs", !.n = @ + 1, !.child = FALSE,
                         !.ends = Append(@, end)])

Results(j) == [i \in DOMAIN ask[j].ends |-> Classify(Chain[i], ask[j].ends[i])]

(* All dialogs have run before the first result is looked at: the array    *)
(* the resolver loops over is built by running them.                       *)
Decide(j) ==
  LET R == Results(j)
      decided == {i \in DOMAIN R : R[i] # Unavailable}
  IN
  /\ At(j, "dialogs") /\ ask[j].n > Len(Chain) /\ OnlyAsk
  /\ IF decided = {} THEN To(j, "tty")
     ELSE Outcome(j, R[CHOOSE i \in decided : \A k \in decided : i <= k])

(* The one dialog of Windows, which also hands back the name.              *)
CredUi(j) ==
  /\ At(j, "credui") /\ OnlyAsk
  /\ \/ \E name \in Names, right \in BOOLEAN : Outcome(j, Password(name, right))
     \/ Outcome(j, Cancelled) \/ Outcome(j, Unsupported)
-----------------------------------------------------------------------------
(* tty::prompt.  The settings found are kept to be put back.               *)
OnTerminal(j) == ask[j].pc \in {"raw", "reading", "restore"}
TtyOpen(j) ==
  /\ At(j, "tty") /\ UNCHANGED <<env, shown, signals>>
  /\ IF ~env.tty THEN Outcome(j, Unsupported) /\ UNCHANGED <<echo, mess>>
     ELSE /\ Step(j, [ask[j] EXCEPT !.pc = "raw", !.found = echo])
          /\ echo' = FALSE
          /\ mess' = (mess \/ \E k \in Requests \ {j} : OnTerminal(k))
TtyGuard(j) ==   \* tty_begin
  /\ At(j, "raw") /\ OnlyAsk
  /\ Step(j, [ask[j] EXCEPT !.pc = "reading", !.tty = TRUE])
CtrlCLeaves(j) ==   \* mutant: Ctrl+C returns before the settings are back
  /\ At(j, "reading") /\ OnlyAsk
  /\ \/ \E right \in BOOLEAN :
          Step(j, [ask[j] EXCEPT !.pc = "restore", !.tty = FALSE,
                                 !.result = Password(NoName, right)])
     \/ Step(j, [ask[j] EXCEPT !.pc = "respond", !.tty = FALSE,
                               !.result = Cancelled])
(* A line, Ctrl+C, or nothing; tty_end. *)
TtyRead(j) ==
  /\ At(j, "reading") /\ OnlyAsk
  /\ \E result \in {Cancelled} \cup {Password(NoName, right) : right \in BOOLEAN} :
       Step(j, [ask[j] EXCEPT !.pc = "restore", !.tty = FALSE, !.result = result])
TtyRestore(j) ==
  /\ At(j, "restore") /\ echo' = ask[j].found /\ To(j, "respond")
  /\ UNCHANGED <<env, shown, signals, mess>>
-----------------------------------------------------------------------------
(* The answer goes out and the helper exits. *)
Respond(j) == /\ At(j, "respond") /\ OnlyAsk
              /\ Step(j, Told(ask[j], ask[j].result))

(* handle_signal: SIGTERM or SIGINT from outside.  Between spawn and       *)
(* set_child, and between tcsetattr and tty_begin or after tty_end, the    *)
(* guard knows nothing of what it should undo.                             *)
Signal(j) ==
  /\ ask[j].pc \in Asking /\ signals < MaxSignals /\ signals' = signals + 1
  /\ Step(j, Told(ask[j], Failed)) /\ UNCHANGED env
  /\ shown' = (IF ask[j].child THEN {s \in shown : s[1] # j} ELSE shown)
  /\ echo' = (IF ask[j].tty THEN ask[j].found ELSE echo)
  /\ mess' = (mess \/ At(j, "spawned") \/ At(j, "raw") \/ At(j, "restore"))

(* The deadline while the parent waits for the line; kill_helper.          *)
TimeOut(j) ==
  /\ ask[j].pc \in Asking /\ ask[j].reply = NoReply
  /\ Step(j, Told(ask[j], [kind |-> "timeout"]))
  /\ mess' = TRUE /\ UNCHANGED <<env, shown, echo, signals>>

Helper(j) == \/ BeginAsking(j) \/ Spawn(j) \/ Register(j) \/ Decide(j) \/ TtyOpen(j)
             \/ TtyGuard(j) \/ TtyRestore(j) \/ Respond(j)
User(j) == DialogEnds(j) \/ CredUi(j) \/ TtyRead(j)
HelperNext(j) == Helper(j) \/ User(j) \/ Signal(j) \/ TimeOut(j)
-----------------------------------------------------------------------------
(* The user is heard: what the first dialog says that the user answered,   *)
(* by a password or by a cancel, is what the parent is told, whatever      *)
(* happens in the dialogs after it.  (A zenity or kdialog closed within    *)
(* two seconds passes for one that never showed.)                          *)
UserAnswered(dialog, end) ==
  \/ end[1] \in {"typed", "closed", "empty"}
  \/ end[1] = "closed fast" /\ dialog \in TellsCancel
Heard ==
  \A j \in Requests : ask[j].reply.kind \in {"password", "cancelled"} =>
    LET ends == ask[j].ends
        answered == {i \in DOMAIN ends : UserAnswered(Chain[i], ends[i])}
    IN \A i \in answered : (\A k \in answered : i <= k) =>
         IF ends[i][1] = "typed"
         THEN ask[j].reply.kind = "password" /\ ask[j].reply.right = ends[i][3]
         ELSE ask[j].reply.kind = "cancelled"

(* When the last helper is gone, the terminal echoes again and no dialog   *)
(* is left on the screen, however the user answered and whether or not a   *)
(* signal came, unless a helper was killed outright or met its signal      *)
(* where the guard does not cover it, or two shared the terminal.          *)
EndsTidy ==
  ~mess /\ (\A j \in Requests : ask[j].pc \in {"none", "gone"}) =>
    echo /\ shown = {}
=============================================================================
