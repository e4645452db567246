--------------------------- MODULE MCAccessPolicy ---------------------------
(* Paths of up to five segments on a small tree with three links, one of   *)
(* them an authorized_keys file.                                           *)
EXTENDS AccessPolicy

MCHome == <<"home", "me">>
H(name) == Append(MCHome, name)
MCFiles == {<<>>, <<"home">>, MCHome, H(".ssh"), H("x"), <<"etc">>, <<"proc">>,
            <<"proc", "x">>, <<"tmp">>, <<"tmp", ".ssh">>,
            <<"tmp", ".ssh", "keys">>, <<"root">>, <<"root", ".ssh">>}
MCLinks == [l \in {<<"tmp", "out">>, H("in"), <<"root", ".ssh", "keys">>} |->
              CASE l = <<"tmp", "out">> -> <<"etc">>
                [] l = H("in") -> H("x")
                [] OTHER -> <<"tmp">>]
Lists(names, n) == UNION {[1..k -> names] : k \in 0..n}
Lines == UNION {[1..k -> {"sudo", "-n", "mkfs", "rm -rf", ";", "ls"}] :
                  k \in 0..2} \cup {<<"sudo", "-n", "sudo">>,
                                    <<"ls", "sudo", "-n">>,
                                    <<"sudo", "-n", "mkfs">>,
                                    <<"sudo", "-n", ";">>}
Paths(starts, segs) == [start : starts, segs : segs, slash : BOOLEAN]
Under(top, names) == {top \o s : s \in Lists(names, 2)}
MCRemotePaths == UNION {
  Paths({"/"}, Lists({"home", "me", "etc", "out", ".."}, 3)),
  Paths({"/"}, Under(MCHome, {".ssh", "keys", "in", "x", ".."})),
  Paths({"/"}, Under(<<"tmp">>, {".ssh", "keys", "out"})),
  Paths({"/"}, {<<"root", ".ssh", "keys">>, <<"..", "tmp", "x">>}),
  Paths({"/"}, Lists({"etc", "proc", "", "x", "null"}, 2)),
  Paths({"~", ""}, Lists({".ssh", "keys", "in", "x", ".."}, 2)),
  Paths({"~", ""}, {<<"..", "..">> \o s : s \in Lists({"etc", "x", "proc"}, 2)}),
  Paths({"~", ""}, {<<"x", "..", ".ssh", "keys">>})}
MCInputs == {<<l, m>> : l \in Lines, m \in Lines}
A(start, segs) == [start |-> start, segs |-> segs, slash |-> FALSE]
MCGlobal == {{A("/", <<>>)}, {A("/", <<"tmp">>), A("~", <<"x">>)}}
MCHosts == {{}, {A("~", <<>>)}}
MCLocal == {<<"tmp">>}
MCLocalPaths == {A("/", <<"tmp", "x">>), A("/", <<"etc">>)}
=============================================================================
