--------------------------- MODULE MCFileTransfer ---------------------------
(* A directory d with a file a and a directory s, which holds a file b, a  *)
(* link l and a special file p.  The remote side lacks s and has a file n  *)
(* whose name the local side refuses.                                      *)
EXTENDS FileTransfer, TLC

CONSTANTS j1, j2

MCUp == [p \in Path |-> IF p \in {"b", "l", "p"} THEN "s" ELSE "d"]
MCLocal == [p \in Path |-> CASE p \in {"d", "s"} -> "dir"
                             [] p \in {"a", "b"} -> "file"
                             [] p = "l" -> "link"
                             [] p = "p" -> "special"
                             [] OTHER -> "none"]
MCRemote == [p \in Path |-> CASE p = "d" -> "dir"
                              [] p \in {"a", "n"} -> "file"
                              [] OTHER -> "none"]
MCStamp == (j1 :> 1) @@ (j2 :> 2)
Every == [op : {"upload", "download", "remove"}, path : {"a"}]
           \cup [op : {"updir", "downdir", "rmrec", "list"}, path : {"d"}]
           \cup [op : {"mkdir", "chmod"}, path : {"s"}]
MCWork == (j1 :> {w \in Every : w.op \in {"upload", "updir", "list"}}) @@ (j2 :> Every)
=============================================================================
