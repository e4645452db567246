--------------------------- MODULE MCHostBootstrap ---------------------------
(* Two calls, for one host or two; three ways to ask; authorized_keys that *)
(* are empty, or end with another key, or the agent's, without a newline.  *)
EXTENDS HostBootstrap

MCEnvironments ==
  {[platform |-> "linux", askpass |-> FALSE, display |-> TRUE, tty |-> TRUE],
   [platform |-> "macos", askpass |-> TRUE, display |-> TRUE, tty |-> TRUE],
   [platform |-> "windows", askpass |-> FALSE, display |-> TRUE, tty |-> FALSE]}
MCDialogs == [linux |-> <<"zenity", "yad">>, macos |-> <<"osascript">>,
              windows |-> <<>>]
MCConfigUser == [h \in {"h1", "h2"} |-> "root"]
File(works, text, last, end) ==
  [works |-> works, text |-> text, last |-> last, end |-> end]
OnEach(ofRoot, ofAlice) ==
  [h \in {"h1", "h2"} |-> [u \in {"root", "alice"} |->
     IF u = "alice" THEN ofAlice ELSE ofRoot]]
Other(last) == File({"other"}, {"other"}, last, "other")
OnFileEmpty == {OnEach(Other("bare"), File({}, {}, "ended", "other"))}
OnFileAgent == {OnEach(Other("comment"),
                       File({"agents"}, {"agents"}, "comment", "agents"))}
MCOnFile == OnFileEmpty \cup OnFileAgent
MCCalls == {[j \in Requests |-> IF j = "j1" THEN <<"bootstrap", "h1">> ELSE c] :
              c \in {<<"bootstrap", "h1">>, <<"open", "h2">>, <<"persistent", "h2">>}}
=============================================================================
