---------------------------- MODULE MCSshHandle ----------------------------
(* A host reached directly, one through it, one through both, one whose    *)
(* jumps form a circle and one with a list of jumps; two host keys of one  *)
(* algorithm and one of another.                                           *)
EXTENDS SshHandle

MCHosts == {"direct", "inner", "far", "circle", "list"}
MCVia == [h \in MCHosts |-> CASE h = "inner" -> "direct"
                              [] h = "far" -> "inner"
                              [] h = "circle" -> "circle"
                              [] h = "list" -> "a,b"
                              [] OTHER -> NoHost]
MCCalls == {<<"open", "direct">>, <<"open", "far">>, <<"exec", "direct">>,
            <<"password", "direct">>, <<"open", "circle">>,
            <<"exec", "list">>, <<"stream", "inner">>}
MCShaky == {"direct"}
MCStrict == [h \in MCHosts |-> IF h = "direct" THEN "accept-new"
                               ELSE IF h = "inner" THEN "ask" ELSE "no"]
MCKeys == {"rsa1", "rsa2", "ed1"}
MCAlg == [k \in MCKeys |-> IF k = "ed1" THEN "ed" ELSE "rsa"]
MCKnown == {<<{}, {Damage}>>,
            <<{}, {<<"direct", "rsa1">>, <<"inner", "rsa1">>}>>}
MCPresented == {[h \in MCHosts |-> "rsa1"]}
MCAgent == <<"i1">>
MCFiles == <<"unreadable", "i3">>
MCGood == [h \in MCHosts |-> IF h = "direct" THEN {"i1"} ELSE {"i3"}]
MCScripts == {<<"data", "exit 0", "eof">>, <<"exit 0", "data", "eof">>,
              <<"data", "eof", "exit 1", "close">>}
=============================================================================
