--------------------------- MODULE MCDaemonClient ---------------------------
(* A caller beside the opener.  The queue holds one event, a second finds  *)
(* it full; three calls leave two after a session that was reattached.     *)
EXTENDS DaemonClient
=============================================================================
