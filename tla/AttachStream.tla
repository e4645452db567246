---------------------------- MODULE AttachStream ----------------------------
(***************************************************************************)
(* What the daemon promises a connection that attaches to a session: the   *)
(* response, which holds the output from the cursor that was asked for;    *)
(* then pty_data events, each going on where the last message stopped; at  *)
(* the end at most one terminal event, and nothing after it.  Output is    *)
(* left out only where the buffer overflowed, and the event says so.       *)
(*                                                                         *)
(* AgentDaemon implements this module for each connection, DaemonClient    *)
(* relies on it.                                                           *)
(***************************************************************************)
EXTENDS Integers, Sequences

CONSTANT Terminals  \* the kinds of terminal events

VARIABLE sent       \* the messages of one attach, oldest first

Output == {"attached", "data"}

(* Message m may come after message before.                                *)
Follows(before, m) ==
  /\ before.kind \in Output /\ m.kind \in Terminals \cup {"data"}
  /\ m.kind = "data" =>
       IF m.trunc THEN m.from > before.upto ELSE m.from = before.upto

StreamInit == sent = <<>>

Send(m) ==
  /\ IF sent = <<>> THEN m.kind = "attached" ELSE Follows(sent[Len(sent)], m)
  /\ sent' = Append(sent, m)

StreamNext == Len(sent') = Len(sent) + 1 /\ Send(sent'[Len(sent')])

StreamSpec == StreamInit /\ [][StreamNext]_sent
=============================================================================
