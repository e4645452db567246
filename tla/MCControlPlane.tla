--------------------------- MODULE MCControlPlane ---------------------------
(* Two servers that may get the same pid and the same suffix one after the *)
(* other, an approval with --instance (whose text may fit every server, as *)
(* if none was given) and a list side by side, and a session that is       *)
(* replaced once.                                                          *)
EXTENDS ControlPlane

CONSTANTS k1, k2

MCKinds ==
  {[k \in {k1, k2} |-> IF k = k1 THEN [cmd |-> "session-approve", named |-> TRUE]
                       ELSE [cmd |-> "session-list", named |-> FALSE]]}
=============================================================================
