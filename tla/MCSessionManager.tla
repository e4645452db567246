-------------------------- MODULE MCSessionManager --------------------------
(* Two callers beside the reaper, and a session that is reconnected once.  *)
EXTENDS SessionManager
=============================================================================
